-------------------------- MODULE TcpServerProofs --------------------------
(***************************************************************************)
(* Proofs about TcpServer, for any number of clients, readers, workers and *)
(* descriptors, any buffer and queue sizes and any client behaviour.       *)
(***************************************************************************)
EXTENDS TcpServer, SequenceTheorems, FiniteSetTheorems, TLAPS

-----------------------------------------------------------------------------
(* Lemmas about the operators *)

\* Head and tail, position by position.
LEMMA HeadTail ==
  ASSUME NEW S, NEW q \in Seq(S), q # << >>
  PROVE  /\ Len(q) \in Nat /\ 1 \in 1 .. Len(q) /\ Head(q) = q[1] /\ q[1] \in S
         /\ Tail(q) \in Seq(S) /\ Len(Tail(q)) = Len(q) - 1
         /\ \A i \in 1 .. Len(q) - 1 : i + 1 \in 1 .. Len(q) /\ Tail(q)[i] = q[i + 1]
OBVIOUS

\* The elements of a sequence stand at its positions.
LEMMA RangeOf ==
  ASSUME NEW S, NEW q \in Seq(S), NEW x
  PROVE  x \in Range(q) <=> \E i \in 1 .. Len(q) : q[i] = x
BY RangeEquality

\* A client sends pieces of requests within the bound, or malformed input.
LEMMA NextPiecesType ==
  ASSUME TypeOK, NEW c \in Clients
  PROVE  NextPieces(c) \subseteq Pieces
<1>1. Requests(c) \subseteq 1 .. MaxRequests
  <2>1. sent[c] \in Seq(Pieces) BY DEF TypeOK
  <2>2. \A i \in 1 .. Len(sent[c]) : sent[c][i].req \in 0 .. MaxRequests
    <3>1. \A i \in 1 .. Len(sent[c]) : sent[c][i] \in Pieces BY <2>1, ElementOfSeq
    <3>2. QED BY <3>1 DEF Pieces
  <2>3. QED BY <2>2, ServerAssumption DEF Requests
<1>2. /\ IsFiniteSet(1 .. MaxRequests) /\ Cardinality(1 .. MaxRequests) = MaxRequests
  <2>1. MaxRequests \in Nat BY ServerAssumption
  <2>2. 1 \in Int /\ MaxRequests \in Int /\ MaxRequests - 1 + 1 = MaxRequests BY <2>1
  <2>3. QED BY <2>1, <2>2, FS_Interval
<1>3. Cardinality(Requests(c)) \in 0 .. MaxRequests
  <2>1. IsFiniteSet(Requests(c)) /\ Cardinality(Requests(c)) <= Cardinality(1 .. MaxRequests)
    BY <1>1, <1>2, FS_Subset
  <2>2. Cardinality(Requests(c)) \in Nat BY <2>1, FS_CardinalityType
  <2>3. QED BY <1>2, <2>1, <2>2, ServerAssumption
<1> DEFINE n == Cardinality(Requests(c))
<1> HIDE DEF n
<1>4. /\ [req |-> n, last |-> TRUE] \in Pieces
      /\ n < MaxRequests => \A b \in BOOLEAN : [req |-> n + 1, last |-> b] \in Pieces
      /\ Rejected \in Pieces
  BY <1>3, ServerAssumption DEF Pieces, Rejected, n
<1>5. NextPieces(c) \subseteq {[req |-> n, last |-> TRUE], Rejected}
        \cup {[req |-> n + 1, last |-> b] : b \in IF n < MaxRequests THEN BOOLEAN ELSE {}}
  BY DEF NextPieces, n
<1>6. QED BY <1>4, <1>5

\* What parsing makes of a message is a message.
LEMMA ExecutedType ==
  ASSUME NEW m \in Messages, NEW ps \in Seq(Pieces)
  PROVE  Executed(m, ps) \subseteq Messages
<1>0. CASE m.failed
  <2>1. Executed(m, ps) = {m} BY <1>0 DEF Executed
  <2>2. QED BY <2>1
<1>1. SUFFICES ASSUME ~ m.failed, NEW x \in Executed(m, ps) PROVE x \in Messages
  BY <1>0, Zenon
<1>2. PICK n \in Accepted(ps) :
        \/ x = [pieces    |-> m.pieces \o SubSeq(ps, 1, n),
                completed |-> IF n = 0 THEN m.completed ELSE ps[n].last,
                failed    |-> n < Len(ps)]
        \/ x = [pieces    |-> m.pieces \o SubSeq(ps, 1, n),
                completed |-> FALSE,
                failed    |-> n < Len(ps)]
  BY <1>1, Zenon DEF Executed
<1>3. n \in 0 .. Len(ps)
  BY <1>2 DEF Accepted
<1>4. SubSeq(ps, 1, n) \in Seq(Pieces)
  BY <1>3, SubSeqProperties
<1>5. m.pieces \o SubSeq(ps, 1, n) \in Seq(Pieces)
  BY <1>4, ConcatProperties DEF Messages
<1>6. (IF n = 0 THEN m.completed ELSE ps[n].last) \in BOOLEAN
  <2>1. n # 0 => ps[n] \in Pieces BY <1>3, ElementOfSeq
  <2>2. m.completed \in BOOLEAN BY DEF Messages
  <2>3. QED BY <2>1, <2>2 DEF Pieces
<1>7. \A a \in Seq(Pieces), b, f \in BOOLEAN :
        [pieces |-> a, completed |-> b, failed |-> f] \in Messages
  BY DEF Messages
<1>8. (n < Len(ps)) \in BOOLEAN OBVIOUS
<1>9. QED BY <1>2, <1>5, <1>6, <1>7, <1>8, Zenon

\* ... also when it has come in two runs.
LEMMA ParsedType ==
  ASSUME NEW m \in Messages, NEW buf \in Seq(Pieces), NEW k \in 0 .. Len(buf),
         NEW one \in Executed(m, SubSeq(buf, 1, k)), NEW both \in Parsed(buf, k, one)
  PROVE  one \in Messages /\ both \in Messages
<1>1. SubSeq(buf, 1, k) \in Seq(Pieces) /\ SubSeq(buf, k + 1, Len(buf)) \in Seq(Pieces)
  BY SubSeqProperties
<1>2. one \in Messages BY <1>1, ExecutedType
<1>3. QED BY <1>1, <1>2, ExecutedType DEF Parsed

\* What ReadAgain does with the result of the parser.
Outcome(c, k, one, m) ==
  /\ i_buffer' = [i_buffer EXCEPT ![c] =
                    SubSeq(i_buffer[c], Cut(i_buffer[c], k, one) + 1, Len(i_buffer[c]))]
  /\ \/ /\ m.completed
        /\ message' = [message EXCEPT ![c] = NewMessage]
        /\ handed' = [handed EXCEPT ![c] = @ \o m.pieces]
        /\ letters' \in {letters, Append(letters, [conn |-> c, pieces |-> m.pieces])}
     \/ /\ ~ m.completed
        /\ message' = [message EXCEPT ![c] = m]
        /\ UNCHANGED <<handed, letters>>

\* What CutIntoFd does with the result of append.
Written(w, c, buf, n) ==
  /\ o_buffer' = [o_buffer EXCEPT ![c] = buf]
  /\ received' = IF n = 0 THEN received
                 ELSE [received EXCEPT ![fds[fd[c]]] = @ \o SubSeq(buf, 1, n)]
  /\ written' = [written EXCEPT ![w] = n]

\* What append leaves in an o_buffer is what was there and pieces of the reply.
LEMMA AppendedType ==
  ASSUME TypeOK, NEW w \in Workers, NEW c \in Clients, NEW p \in Replies,
         NEW buf \in Appended(w, c, p)
  PROVE  /\ buf \in Seq(Replies) /\ Len(buf) <= OutSize
         /\ \A i \in 1 .. Len(buf) : buf[i] = p \/ (i <= Len(o_buffer[c]) /\ buf[i] = o_buffer[c][i])
<1> DEFINE old == o_buffer[c]
<1>1. old \in Seq(Replies) /\ Len(old) \in Nat /\ Len(old) <= OutSize /\ OutSize \in Nat
  BY ServerAssumption DEF TypeOK
<1>2. \/ buf = Append(old, p) /\ Len(old) < OutSize
      \/ buf = old
      \/ old # << >> /\ buf = [old EXCEPT ![Len(old)] = p]
  BY DEF Appended
<1> HIDE DEF old
<1>3. CASE buf = Append(old, p) /\ Len(old) < OutSize
  BY <1>1, <1>3, AppendProperties DEF old
<1>4. CASE buf = old
  BY <1>1, <1>4 DEF old
<1>5. CASE old # << >> /\ buf = [old EXCEPT ![Len(old)] = p]
  <2>1. Len(old) \in 1 .. Len(old) BY <1>1, <1>5, EmptySeq
  <2>2. buf \in Seq(Replies) /\ Len(buf) = Len(old) BY <1>1, <1>5, <2>1, ExceptSeq
  <2>3. \A i \in 1 .. Len(old) : buf[i] = p \/ buf[i] = old[i]
    BY <1>1, <1>5
  <2>4. QED BY <1>1, <2>2, <2>3 DEF old
<1>6. QED BY <1>2, <1>3, <1>4, <1>5

LEMMA CutWrites ==
  ASSUME TypeOK, NEW w \in Workers, CutIntoFd(w)
  PROVE  LET c == serving[w].conn
             p == Reply(serving[w], "second")
         IN  /\ c \in Clients /\ p \in Replies /\ p.to = c /\ serving[w] \in Letters
             /\ \E buf \in Appended(w, c, p) : \E n \in 0 .. Len(buf) :
                  /\ Written(w, c, buf, n)
                  /\ n > 0 => fds[fd[c]] # None /\ link[fds[fd[c]]] # "reset"
<1> DEFINE c == serving[w].conn
           p == Reply(serving[w], "second")
           peer == fds[fd[c]]
<1>1. c \in Clients /\ p \in Replies /\ p.to = c /\ serving[w] \in Letters
  BY DEF TypeOK, CutIntoFd, Letters, Replies, Reply
<1>2. PICK buf \in Appended(w, c, p) :
        \E n \in IF peer = None \/ link[peer] = "reset" THEN {0} ELSE 0 .. Len(buf) :
          /\ o_buffer' = [o_buffer EXCEPT ![c] = buf]
          /\ received' = IF n = 0 THEN received
                         ELSE [received EXCEPT ![peer] = @ \o SubSeq(buf, 1, n)]
          /\ written' = [written EXCEPT ![w] = n]
  BY Zenon DEF CutIntoFd
<1>3. Len(buf) \in Nat BY <1>1, <1>2, AppendedType, LenProperties
<1>4. PICK n \in IF peer = None \/ link[peer] = "reset" THEN {0} ELSE 0 .. Len(buf) :
        Written(w, c, buf, n)
  BY <1>2, Zenon DEF Written
<1>5. n \in 0 .. Len(buf) /\ (n > 0 => peer # None /\ link[peer] # "reset")
  BY <1>3, <1>4
<1>6. QED BY <1>1, <1>2, <1>4, <1>5

\* The index advances over what is in the ring, or leaves stray bytes there.
LEMMA AdvancedType ==
  ASSUME NEW buf \in Seq(Replies), Len(buf) <= OutSize, NEW n \in 0 .. OutSize
  PROVE  /\ Advanced(buf, n) \in Seq(Replies) /\ Len(Advanced(buf, n)) <= OutSize
         /\ \A i \in 1 .. Len(Advanced(buf, n)) :
              \/ Advanced(buf, n)[i] = Stray /\ n > Len(buf)
              \/ n + i \in 1 .. Len(buf) /\ Advanced(buf, n)[i] = buf[n + i]
<1>1. Len(buf) \in Nat /\ OutSize \in Nat BY ServerAssumption, LenProperties
<1>2. CASE n <= Len(buf)
  <2>1. Advanced(buf, n) = SubSeq(buf, n + 1, Len(buf)) BY <1>2 DEF Advanced
  <2>2. /\ SubSeq(buf, n + 1, Len(buf)) \in Seq(Replies)
        /\ Len(SubSeq(buf, n + 1, Len(buf))) = Len(buf) - n
        /\ \A i \in 1 .. Len(buf) - n : SubSeq(buf, n + 1, Len(buf))[i] = buf[n + i]
    BY <1>1, <1>2
  <2>3. QED BY <1>1, <2>1, <2>2
<1>3. CASE n > Len(buf)
  <2> DEFINE k == OutSize + 1 + Len(buf) - n
             all == [i \in 1 .. k |-> Stray]
  <2>1. Stray \in Replies BY DEF Stray, Replies
  <2>2. Advanced(buf, n) = all BY <1>1, <1>3 DEF Advanced
  <2>3. k \in Nat /\ k <= OutSize BY <1>1, <1>3
  <2> HIDE DEF k
  <2>4. all \in Seq(Replies) /\ Len(all) = k /\ \A i \in 1 .. k : all[i] = Stray
    BY <2>1, <2>3
  <2>5. QED BY <1>3, <2>2, <2>3, <2>4
<1>4. QED BY <1>1, <1>2, <1>3

-----------------------------------------------------------------------------
(* Types *)

\* Closing descriptors leaves a table of descriptors.
LEMMA ReleaseType ==
  ASSUME TypeOK, Release
  PROVE  fds' \in [Fds -> Clients \cup {None}]
BY DEF TypeOK, Release

LEMMA TypeStep ==
  ASSUME TypeOK, [Next]_vars
  PROVE  TypeOK'
<1> USE DEF clients, pool, readers, workers
<1>1. ASSUME NEW c \in Clients, Connect(c) PROVE TypeOK'
  BY <1>1 DEF TypeOK, Connect
<1>2. ASSUME NEW c \in Clients, Send(c) PROVE TypeOK'
  <2>1. PICK p \in NextPieces(c) : /\ sent' = [sent EXCEPT ![c] = Append(@, p)]
                                   /\ inbox' = [inbox EXCEPT ![c] = Append(@, p)]
    BY <1>2 DEF Send
  <2>2. p \in Pieces BY NextPiecesType
  <2>3. Append(sent[c], p) \in Seq(Pieces) /\ Append(inbox[c], p) \in Seq(Pieces)
    BY <2>2, AppendProperties DEF TypeOK
  <2>4. QED BY <1>2, <2>1, <2>3 DEF TypeOK, Send
<1>3. ASSUME NEW c \in Clients, Finish(c) PROVE TypeOK'
  <2>1. inbox' \in [Clients -> Seq(Pieces)]
    <3>1. inbox' = inbox \/ inbox' = [inbox EXCEPT ![c] = << >>] BY <1>3 DEF Finish
    <3>2. << >> \in Seq(Pieces) OBVIOUS
    <3>3. QED BY <3>1, <3>2 DEF TypeOK
  <2>2. QED BY <1>3, <2>1 DEF TypeOK, Finish
<1>4. ASSUME NEW c \in Clients, Accept(c) PROVE TypeOK'
  BY <1>4 DEF TypeOK, Accept
<1>5. ASSUME AcceptNext PROVE TypeOK'
  BY <1>5, ReleaseType DEF TypeOK, AcceptNext
<1>6. ASSUME NEW r \in Readers, ReadSignal(r) PROVE TypeOK'
  BY <1>6 DEF TypeOK, ReadSignal
<1>7. ASSUME NEW r \in Readers, Take(r) PROVE TypeOK'
  <2>1. Head(queue) \in Clients /\ Tail(queue) \in Seq(Clients)
    BY <1>7, HeadTailProperties DEF TypeOK, Take
  <2>2. fds' \in [Fds -> Clients \cup {None}] BY <1>7, ReleaseType DEF Take
  <2>3. todo' \in [Readers -> Nat]
    <3>1. todo[r] \in Nat /\ todo[r] > 0 /\ todo \in [Readers -> Nat] BY <1>7 DEF TypeOK, Take
    <3>2. todo[r] - 1 \in Nat BY <3>1
    <3>3. todo' = [todo EXCEPT ![r] = todo[r] - 1] BY <1>7 DEF Take
    <3>4. QED BY <3>1, <3>2, <3>3
  <2>4. queue' \in Seq(Clients) BY <1>7, <2>1 DEF TypeOK, Take
  <2>5. conn_map' \in [Readers -> [Fds -> Clients \cup {None}]]
    <3> DEFINE old == conn_map[r]
               c == Head(queue)
               new == [old EXCEPT ![fd[c]] = IF @ = None THEN c ELSE @]
    <3>1. conn_map' = [conn_map EXCEPT ![r] = new] BY <1>7 DEF Take
    <3>2. old \in [Fds -> Clients \cup {None}] BY DEF TypeOK
    <3>3. c \in Clients BY <2>1
    <3> HIDE DEF old, c
    <3>4. new \in [Fds -> Clients \cup {None}] BY <3>2, <3>3
    <3> HIDE DEF new
    <3>5. QED BY <3>1, <3>4 DEF TypeOK
  <2>6. QED BY <1>7, <2>2, <2>3, <2>4, <2>5 DEF TypeOK, Take
<1>71. ASSUME NEW r \in Readers, TakeMiss(r) PROVE TypeOK'
  <2>1. missed' \in BOOLEAN BY <1>71, Zenon DEF TypeOK, TakeMiss
  <2>2. todo' \in [Readers -> Nat] BY <1>71 DEF TypeOK, TakeMiss
  <2>3. QED BY <1>71, <2>1, <2>2 DEF TypeOK, TakeMiss
<1>8. ASSUME NEW r \in Readers, ReadEvent(r) PROVE TypeOK'
  <2>1. PICK f \in Fds : conn_map[r][f] # None /\ reading' = [reading EXCEPT ![r] = conn_map[r][f]]
    BY <1>8 DEF ReadEvent
  <2>2. conn_map[r][f] \in Clients \cup {None}
    BY DEF TypeOK
  <2>3. reading' \in [Readers -> Clients \cup {None}]
    BY <2>1, <2>2 DEF TypeOK
  <2>4. QED BY <1>8, <2>3 DEF TypeOK, ReadEvent
<1>9. ASSUME NEW r \in Readers, ReadSome(r) PROVE TypeOK'
  <2> DEFINE c == reading[r]
             room == InSize - Len(i_buffer[c])
             n == IF Len(inbox[c]) <= room THEN Len(inbox[c]) ELSE room
             more == SubSeq(inbox[c], 1, n)
             rest == SubSeq(inbox[c], n + 1, Len(inbox[c]))
  <2>1. /\ c \in Clients
        /\ i_buffer' = [i_buffer EXCEPT ![c] = @ \o more]
        /\ inbox' = [inbox EXCEPT ![c] = rest]
    BY <1>9 DEF TypeOK, ReadSome
  <2>2. /\ i_buffer[c] \in Seq(Pieces) /\ inbox[c] \in Seq(Pieces)
        /\ Len(i_buffer[c]) <= InSize /\ InSize \in Nat
    BY <2>1, ServerAssumption DEF TypeOK
  <2>3. n \in 0 .. Len(inbox[c]) /\ Len(i_buffer[c]) + n <= InSize
    <3>1. Len(inbox[c]) \in Nat /\ Len(i_buffer[c]) \in Nat BY <2>2, LenProperties
    <3>2. \A a, b, size \in Nat : b <= size =>
            LET x == IF a <= size - b THEN a ELSE size - b IN x \in 0 .. a /\ b + x <= size
      OBVIOUS
    <3>3. QED BY <2>2, <3>1, <3>2, Zenon
  <2> HIDE DEF n
  <2>4. more \in Seq(Pieces) /\ Len(more) = n /\ rest \in Seq(Pieces)
    BY <2>2, <2>3, SubSeqProperties
  <2> HIDE DEF more, rest
  <2>5. i_buffer[c] \o more \in Seq(Pieces) /\ Len(i_buffer[c] \o more) <= InSize
    BY <2>2, <2>3, <2>4, ConcatProperties
  <2>6. /\ i_buffer' \in [Clients -> Seq(Pieces)] /\ inbox' \in [Clients -> Seq(Pieces)]
        /\ \A d \in Clients : Len(i_buffer'[d]) <= InSize
    BY <2>1, <2>4, <2>5 DEF TypeOK
  <2>7. QED BY <1>9, <2>6 DEF TypeOK, ReadSome
<1>10. ASSUME NEW r \in Readers, ReadAgain(r) PROVE TypeOK'
  <2> DEFINE c == reading[r]
             buf == i_buffer[c]
  <2>1. c \in Clients BY <1>10 DEF TypeOK, ReadAgain
  <2>2. buf \in Seq(Pieces) /\ Len(buf) <= InSize /\ message[c] \in Messages
        /\ InSize \in Nat /\ handed[c] \in Seq(Pieces)
    BY <2>1, ServerAssumption DEF TypeOK
  <2>3. PICK k \in 0 .. Len(buf) : \E one \in Executed(message[c], SubSeq(buf, 1, k)) :
          \E m \in Parsed(buf, k, one) : Outcome(c, k, one, m)
    BY <1>10 DEF ReadAgain, Outcome
  <2>31. PICK one \in Executed(message[c], SubSeq(buf, 1, k)) :
          \E m \in Parsed(buf, k, one) : Outcome(c, k, one, m)
    BY <2>3
  <2>32. PICK m \in Parsed(buf, k, one) : Outcome(c, k, one, m)
    BY <2>31
  <2>4. m \in Messages
    BY <2>2, <2>31, <2>32, ParsedType
  <2>5. Cut(buf, k, one) \in 0 .. Len(buf)
    BY <2>2, <2>3 DEF Cut
  <2>6. /\ SubSeq(buf, Cut(buf, k, one) + 1, Len(buf)) \in Seq(Pieces)
        /\ Len(SubSeq(buf, Cut(buf, k, one) + 1, Len(buf))) <= InSize
    BY <2>2, <2>5, SubSeqProperties
  <2>7. /\ i_buffer' \in [Clients -> Seq(Pieces)]
        /\ \A d \in Clients : Len(i_buffer'[d]) <= InSize
    BY <2>1, <2>32, <2>6 DEF TypeOK, Outcome
  <2>8. NewMessage \in Messages /\ handed[c] \o m.pieces \in Seq(Pieces)
        /\ [conn |-> c, pieces |-> m.pieces] \in Letters
    BY <2>1, <2>2, <2>4, ConcatProperties DEF Messages, NewMessage, Letters
  <2>9. message' \in [Clients -> Messages] /\ handed' \in [Clients -> Seq(Pieces)]
    <3>1. message' = [message EXCEPT ![c] = NewMessage] \/ message' = [message EXCEPT ![c] = m]
      BY <2>32 DEF Outcome
    <3>2. handed' = handed \/ handed' = [handed EXCEPT ![c] = @ \o m.pieces]
      BY <2>32 DEF Outcome
    <3>3. message' \in [Clients -> Messages] BY <3>1, <2>1, <2>4, <2>8 DEF TypeOK
    <3>4. handed' \in [Clients -> Seq(Pieces)] BY <3>2, <2>1, <2>8 DEF TypeOK
    <3>5. QED BY <3>3, <3>4
  <2>10. letters' \in Seq(Letters)
    <3>1. letters' = letters \/ letters' = Append(letters, [conn |-> c, pieces |-> m.pieces])
      BY <2>32 DEF Outcome
    <3> DEFINE l == [conn |-> c, pieces |-> m.pieces]
    <3>2. l \in Letters /\ letters \in Seq(Letters) BY <2>8 DEF TypeOK
    <3> HIDE DEF l
    <3>3. Append(letters, l) \in Seq(Letters) BY <3>2, AppendProperties
    <3>4. QED BY <3>1, <3>2, <3>3 DEF l
  <2>11. QED BY <1>10, <2>7, <2>9, <2>10 DEF TypeOK, ReadAgain
<1>11. ASSUME NEW r \in Readers, ReadEnd(r) PROVE TypeOK'
  BY <1>11, ReleaseType DEF TypeOK, ReadEnd
<1>12. ASSUME NEW w \in Workers, TakeLetter(w) PROVE TypeOK'
  <2>1. Head(letters) \in Letters /\ Tail(letters) \in Seq(Letters)
    BY <1>12, HeadTailProperties DEF TypeOK, TakeLetter
  <2>2. QED BY <1>12, <2>1 DEF TypeOK, TakeLetter
<1>13. ASSUME NEW w \in Workers, Return(w) PROVE TypeOK'
  <2>1. serving[w].conn \in Clients BY <1>13 DEF TypeOK, Return, Letters
  <2>2. QED BY <1>13, <2>1 DEF TypeOK, Return, Answer
<1>14. ASSUME NEW w \in Workers, Defer(w) PROVE TypeOK'
  BY <1>14 DEF TypeOK, Defer
<1>15. ASSUME NEW w \in Workers, Resume(w) PROVE TypeOK'
  <2>1. PICK l \in deferred[w] : /\ deferred' = [deferred EXCEPT ![w] = @ \ {l}]
                                 /\ serving' = [serving EXCEPT ![w] = l]
                                 /\ Answer(w, l.conn)
    BY <1>15 DEF Resume
  <2>2. l \in Letters /\ l.conn \in Clients BY DEF TypeOK, Letters
  <2>3. QED BY <1>15, <2>1, <2>2 DEF TypeOK, Resume, Answer
<1>16. ASSUME NEW w \in Workers, SetResponse(w) PROVE TypeOK'
  <2> DEFINE c == serving[w].conn
             p == Reply(serving[w], "first")
  <2>1. serving[w] \in Letters /\ c \in Clients /\ p \in Replies
    BY <1>16 DEF TypeOK, SetResponse, Letters, Replies, Reply
  <2>2. PICK buf \in Appended(w, c, p) : o_buffer' = [o_buffer EXCEPT ![c] = buf]
    BY <1>16 DEF SetResponse
  <2>3. buf \in Seq(Replies) /\ Len(buf) <= OutSize
    BY <2>1, <2>2, AppendedType
  <2>4. /\ o_buffer' \in [Clients -> Seq(Replies)]
        /\ \A d \in Clients : Len(o_buffer'[d]) <= OutSize
    BY <2>1, <2>2, <2>3 DEF TypeOK
  <2>5. QED BY <1>16, <2>1, <2>4 DEF TypeOK, SetResponse
<1>17. ASSUME NEW w \in Workers, CutIntoFd(w) PROVE TypeOK'
  <2> DEFINE c == serving[w].conn
             peer == fds[fd[c]]
             p == Reply(serving[w], "second")
  <2>1. serving[w] \in Letters /\ c \in Clients /\ p \in Replies
    BY <1>17 DEF TypeOK, CutIntoFd, Letters, Replies, Reply
  <2>11. PICK buf \in Appended(w, c, p) : \E n \in 0 .. Len(buf) : Written(w, c, buf, n)
    BY <1>17, CutWrites
  <2>2. PICK n \in 0 .. Len(buf) : Written(w, c, buf, n)
    BY <2>11
  <2>3. buf \in Seq(Replies) /\ Len(buf) <= OutSize /\ OutSize \in Nat /\ Len(buf) \in Nat
    BY <2>1, <2>11, AppendedType, ServerAssumption, LenProperties
  <2>4. SubSeq(buf, 1, n) \in Seq(Replies)
    BY <2>2, <2>3, SubSeqProperties
  <2>5. /\ o_buffer' \in [Clients -> Seq(Replies)]
        /\ \A d \in Clients : Len(o_buffer'[d]) <= OutSize
    BY <2>1, <2>2, <2>3 DEF TypeOK, Written
  <2>6. received' \in [Clients -> Seq(Replies)]
    <3>1. received' = received \/ received' = [received EXCEPT ![peer] = @ \o SubSeq(buf, 1, n)]
      BY <2>2 DEF Written
    <3>2. peer \in Clients => received[peer] \o SubSeq(buf, 1, n) \in Seq(Replies)
      BY <2>4, ConcatProperties DEF TypeOK
    <3> HIDE DEF peer
    <3>3. QED BY <3>1, <3>2 DEF TypeOK
  <2>7. written' \in [Workers -> 0 .. OutSize]
    <3>1. written' = [written EXCEPT ![w] = n] BY <2>2 DEF Written
    <3>2. n \in 0 .. OutSize BY <2>2, <2>3
    <3>3. written \in [Workers -> 0 .. OutSize] BY DEF TypeOK
    <3>4. QED BY <3>1, <3>2, <3>3
  <2>8. /\ phase' = [phase EXCEPT ![w] = "store"]
        /\ UNCHANGED <<clients, fds, pool, readers, letters, serving, deferred, overlapped>>
    BY <1>17 DEF CutIntoFd
  <2> HIDE DEF c, peer, p
  <2>9. QED BY <2>1, <2>5, <2>6, <2>7, <2>8 DEF TypeOK
<1>171. ASSUME NEW w \in Workers, StoreIndex(w) PROVE TypeOK'
  <2> DEFINE c == serving[w].conn
  <2>1. c \in Clients BY <1>171 DEF TypeOK, StoreIndex, Letters
  <2>2. PICK buf \in {Advanced(o_buffer[c], written[w]), o_buffer[c]} :
          o_buffer' = [o_buffer EXCEPT ![c] = buf]
    BY <1>171 DEF StoreIndex
  <2>3. buf \in Seq(Replies) /\ Len(buf) <= OutSize
    BY <2>1, <2>2, AdvancedType DEF TypeOK
  <2> HIDE DEF c
  <2>4. /\ o_buffer' \in [Clients -> Seq(Replies)]
        /\ \A d \in Clients : Len(o_buffer'[d]) <= OutSize
    BY <2>1, <2>2, <2>3 DEF TypeOK
  <2>5. written' \in [Workers -> 0 .. OutSize]
    BY <1>171, ServerAssumption DEF TypeOK, StoreIndex
  <2>6. fds' \in [Fds -> Clients \cup {None}]
    BY <1>171, ReleaseType DEF StoreIndex
  <2>7. QED BY <1>171, <2>4, <2>5, <2>6 DEF TypeOK, StoreIndex
<1>18. ASSUME UNCHANGED vars PROVE TypeOK'
  BY <1>18 DEF TypeOK, vars
<1>19. QED
  BY <1>1, <1>2, <1>3, <1>4, <1>5, <1>6, <1>7, <1>71, <1>8, <1>9, <1>10, <1>11, <1>12,
     <1>13, <1>14, <1>15, <1>16, <1>17, <1>171, <1>18 DEF Next, Reader, Worker

-----------------------------------------------------------------------------
(* References, numbers and keys *)

References == Held /\ Numbers /\ QueueFresh

\* A step that adds no reference, and closes at most what nothing refers to, keeps
\* what is referred to open under its number.
LEMMA HeldKept ==
  ASSUME TypeOK, Held, Numbers, Referenced' \subseteq Referenced, fd' = fd,
         fds' = fds \/ Release
  PROVE  /\ Held'
         /\ \A f \in Fds : fds'[f] # None => fd'[fds'[f]] = f
<1>1. ASSUME NEW c \in Referenced' PROVE fd'[c] \in Fds /\ fds'[fd'[c]] = c
  <2>1. fd[c] \in Fds /\ fds[fd[c]] = c BY <1>1 DEF Held
  <2>2. CASE fds' = fds BY <2>1, <2>2
  <2>3. CASE Release BY <1>1, <2>1, <2>3 DEF Release
  <2>4. QED BY <2>2, <2>3
<1>2. ASSUME NEW f \in Fds, fds'[f] # None PROVE fd'[fds'[f]] = f
  <2>1. fds'[f] = fds[f] BY <1>2 DEF Release
  <2>2. QED BY <1>2, <2>1 DEF Numbers
<1>3. QED BY <1>1, <1>2 DEF Held

LEMMA ReferencesStep ==
  ASSUME TypeOK, TypeOK', References, [Next]_vars
  PROVE  References'
<1> USE DEF clients, pool, readers, workers
\* Steps that leave the queue, the maps and the numbers alone.
<1>0. ASSUME Referenced' \subseteq Referenced, fds' = fds \/ Release,
             UNCHANGED <<fd, queue, conn_map>>
      PROVE  References'
  <2>1. Held' /\ \A f \in Fds : fds'[f] # None => fd'[fds'[f]] = f
    BY <1>0, HeldKept DEF References
  <2>2. QED BY <1>0, <2>1 DEF References, Numbers, QueueFresh
<1>1. ASSUME NEW c \in Clients, Connect(c) \/ Send(c) \/ Finish(c) PROVE References'
  <2>1. Referenced' = Referenced BY <1>1 DEF Connect, Send, Finish, Referenced
  <2>2. QED BY <1>0, <1>1, <2>1 DEF Connect, Send, Finish
<1>4. ASSUME NEW c \in Clients, Accept(c) PROVE References'
  <2>1. PICK f \in Fds : /\ fds[f] = None
                         /\ fds' = [fds EXCEPT ![f] = c] /\ fd' = [fd EXCEPT ![c] = f]
    BY <1>4 DEF Accept
  <2>2. c \notin Referenced
    BY <1>4, ServerAssumption DEF Accept, References, Held
  <2>3. queue \in Seq(Clients) /\ (queue' = queue \/ queue' = Append(queue, c))
    BY <1>4 DEF Accept, TypeOK
  <2>4. Range(queue') \subseteq Range(queue) \cup {c}
    BY <2>3, AppendProperties DEF Range
  <2>5. Referenced' \subseteq Referenced \cup {c}
    BY <1>4, <2>4 DEF Accept, Referenced
  <2>6. ASSUME NEW d \in Referenced'
        PROVE  fd'[d] \in Fds /\ fds'[fd'[d]] = d
    <3>1. CASE d = c BY <2>1, <3>1 DEF TypeOK
    <3>2. CASE d # c
      <4>1. d \in Referenced BY <2>5, <2>6, <3>2
      <4>2. fd[d] \in Fds /\ fds[fd[d]] = d /\ d \in Clients /\ d # None
        BY <4>1, ServerAssumption DEF References, Held, Referenced
      <4>3. QED BY <2>1, <3>2, <4>2 DEF TypeOK
    <3>3. QED BY <3>1, <3>2
  <2>7. ASSUME NEW g \in Fds, fds'[g] # None PROVE fd'[fds'[g]] = g
    <3>1. CASE g = f BY <2>1, <3>1 DEF TypeOK
    <3>2. CASE g # f
      <4>1. fds'[g] = fds[g] /\ fds[g] \in Clients BY <2>1, <2>7, <3>2 DEF TypeOK
      <4>2. fd[fds[g]] = g BY <2>7, <4>1 DEF References, Numbers
      <4>3. fds[g] # c BY <1>4, <4>2, ServerAssumption DEF Accept
      <4>4. QED BY <2>1, <4>1, <4>2, <4>3 DEF TypeOK
    <3>3. QED BY <3>1, <3>2
  <2>8. ASSUME NEW r \in Readers, NEW g \in Fds, conn_map[r][g] # None
        PROVE  conn_map[r][g] \in Clients /\ conn_map[r][g] # c /\ fd[conn_map[r][g]] = g
    <3>1. conn_map[r][g] \in Clients BY <2>8 DEF TypeOK
    <3>2. conn_map[r][g] \in Referenced BY <3>1 DEF Referenced
    <3>3. QED BY <2>2, <2>8, <3>1, <3>2 DEF References, Numbers
  <2>9. conn_map' = conn_map BY <1>4 DEF Accept
  <2>10. \A r \in Readers : \A g \in Fds :
           conn_map'[r][g] # None => fd'[conn_map'[r][g]] = g
    BY <2>1, <2>8, <2>9 DEF TypeOK
  <2>11. ASSUME NEW i \in 1 .. Len(queue) PROVE queue[i] # c
    <3>1. queue[i] \in Range(queue) /\ queue[i] \in Clients BY <2>3 DEF Range
    <3>2. queue[i] \in Referenced BY <3>1 DEF Referenced
    <3>3. QED BY <2>2, <3>2
  <2>12. QueueFresh'
    <3>1. CASE queue' = queue BY <2>9, <3>1 DEF References, QueueFresh
    <3>2. CASE queue' = Append(queue, c)
      <4>1. /\ Len(queue') = Len(queue) + 1 /\ queue'[Len(queue) + 1] = c
            /\ \A i \in 1 .. Len(queue) : queue'[i] = queue[i]
            /\ Len(queue) \in Nat
        BY <2>3, <3>2, AppendProperties, LenProperties
      <4>2. \A i, j \in 1 .. Len(queue') : queue'[i] = queue'[j] => i = j
        BY <2>11, <4>1 DEF References, QueueFresh
      <4>3. \A i \in 1 .. Len(queue') : \A r \in Readers : \A g \in Fds :
              conn_map'[r][g] # queue'[i]
        BY <1>4, <2>8, <2>9, <4>1, ServerAssumption DEF References, QueueFresh
      <4>4. QED BY <4>2, <4>3 DEF QueueFresh
    <3>3. QED BY <2>3, <3>1, <3>2
  <2>13. QED BY <2>6, <2>7, <2>10, <2>12 DEF References, Held, Numbers
<1>5. ASSUME AcceptNext PROVE References'
  <2>1. Referenced' \subseteq Referenced
    BY <1>5, ServerAssumption DEF AcceptNext, Referenced
  <2>2. QED BY <1>0, <1>5, <2>1 DEF AcceptNext
<1>6. ASSUME NEW r \in Readers, ReadSignal(r) PROVE References'
  <2>1. Referenced' = Referenced BY <1>6 DEF ReadSignal, Referenced
  <2>2. QED BY <1>0, <1>6, <2>1 DEF ReadSignal
<1>7. ASSUME NEW r \in Readers, Take(r) PROVE References'
  <2> DEFINE c == Head(queue)
             f == fd[c]
  <2>1. /\ queue' = Tail(queue) /\ fd' = fd /\ Release
        /\ conn_map' = [conn_map EXCEPT ![r][f] = IF @ = None THEN c ELSE @]
    BY <1>7 DEF Take
  <2>2. /\ Len(queue) \in Nat /\ Len(queue) >= 1 /\ queue[1] = c /\ c \in Clients
        /\ Len(queue') = Len(queue) - 1
        /\ \A i \in 1 .. Len(queue') : queue'[i] = queue[i + 1] /\ i + 1 \in 1 .. Len(queue)
    <3>1. queue \in Seq(Clients) BY DEF TypeOK
    <3>2. /\ Len(queue) \in Nat /\ 1 \in 1 .. Len(queue) /\ c = queue[1] /\ queue[1] \in Clients
          /\ Len(queue') = Len(queue) - 1
          /\ \A i \in 1 .. Len(queue) - 1 : i + 1 \in 1 .. Len(queue) /\ queue'[i] = queue[i + 1]
      BY <1>7, <2>1, <3>1, HeadTail DEF Take
    <3> HIDE DEF c
    <3>3. QED BY <3>2
  <2>3. c \in Range(queue)
    <3>1. queue \in Seq(Clients) BY DEF TypeOK
    <3>2. \E i \in 1 .. Len(queue) : queue[i] = c BY <2>2
    <3> HIDE DEF c
    <3>3. QED BY <3>1, <3>2, RangeOf
  <2>4. ASSUME NEW d \in Range(queue') PROVE d \in Range(queue)
    <3>1. PICK i \in 1 .. Len(queue') : queue'[i] = d BY RangeOf DEF TypeOK
    <3>2. i + 1 \in 1 .. Len(queue) /\ queue[i + 1] = d BY <2>2, <3>1
    <3>3. QED BY <3>2, RangeOf DEF TypeOK
  <2>5. c \in Referenced BY <2>2, <2>3 DEF Referenced
  <2>6. f \in Fds /\ fds[f] = c BY <2>5 DEF References, Held
  <2> HIDE DEF c, f
  <2>7. conn_map[r][f] = None
    <3>1. SUFFICES ASSUME conn_map[r][f] # None PROVE FALSE OBVIOUS
    <3>2. conn_map[r][f] \in Clients BY <2>6, <3>1 DEF TypeOK
    <3>3. conn_map[r][f] \in Referenced BY <2>6, <3>2 DEF Referenced
    <3>4. fd[conn_map[r][f]] = f BY <2>6, <3>1 DEF References, Numbers
    <3>5. conn_map[r][f] = c BY <2>6, <3>3, <3>4 DEF References, Held
    <3>6. 1 \in 1 .. Len(queue) BY <2>2
    <3>7. QED BY <2>2, <2>6, <3>5, <3>6 DEF References, QueueFresh
  <2>8. \A q \in Readers : \A g \in Fds :
          conn_map'[q][g] = IF q = r /\ g = f THEN c ELSE conn_map[q][g]
    BY <2>1, <2>6, <2>7 DEF TypeOK
  <2>9. Referenced' \subseteq Referenced
    <3>1. UNCHANGED <<accepting, reading, letters, phase, serving, deferred>>
      BY <1>7 DEF Take
    <3>2. \A d \in Clients : (\E q \in Readers : \E g \in Fds : conn_map'[q][g] = d)
            => d = c \/ \E q \in Readers : \E g \in Fds : conn_map[q][g] = d
      BY <2>8
    <3>3. ASSUME NEW d \in Referenced' PROVE d \in Referenced
      BY <2>4, <2>5, <3>1, <3>2, <3>3 DEF Referenced
    <3>4. QED BY <3>3
  <2>10. Held' /\ \A g \in Fds : fds'[g] # None => fd'[fds'[g]] = g
    BY <2>1, <2>9, HeldKept DEF References
  <2>11. \A q \in Readers : \A g \in Fds :
           conn_map'[q][g] # None => fd'[conn_map'[q][g]] = g
    BY <2>1, <2>8 DEF References, Numbers, f
  <2>12. \A i, j \in 1 .. Len(queue') : queue'[i] = queue'[j] => i = j
    BY <2>2 DEF References, QueueFresh
  <2>13. \A i \in 1 .. Len(queue') : queue'[i] # c
    BY <2>2 DEF References, QueueFresh
  <2>14. \A i \in 1 .. Len(queue') : \A q \in Readers : \A g \in Fds :
           conn_map'[q][g] # queue'[i]
    BY <2>2, <2>8, <2>13 DEF References, QueueFresh
  <2>15. QED BY <2>10, <2>11, <2>12, <2>14 DEF References, Numbers, QueueFresh
<1>71. ASSUME NEW r \in Readers, TakeMiss(r) PROVE References'
  <2>1. Referenced' = Referenced BY <1>71 DEF TakeMiss, Referenced
  <2>2. QED BY <1>0, <1>71, <2>1 DEF TakeMiss
<1>8. ASSUME NEW r \in Readers, ReadEvent(r) PROVE References'
  <2>1. Referenced' \subseteq Referenced
    <3>1. PICK f \in Fds : /\ conn_map[r][f] # None
                           /\ reading' = [reading EXCEPT ![r] = conn_map[r][f]]
      BY <1>8 DEF ReadEvent
    <3>2. \A q \in Readers : reading'[q] = reading[q] \/ reading'[q] = conn_map[r][f]
      BY <3>1 DEF TypeOK
    <3>3. UNCHANGED <<accepting, queue, conn_map, letters, phase, serving, deferred>>
      BY <1>8 DEF ReadEvent
    <3>4. QED BY <3>2, <3>3 DEF Referenced
  <2>2. QED BY <1>0, <1>8, <2>1 DEF ReadEvent
<1>9. ASSUME NEW r \in Readers, ReadSome(r) PROVE References'
  <2>1. Referenced' = Referenced BY <1>9 DEF ReadSome, Referenced
  <2>2. QED BY <1>0, <1>9, <2>1 DEF ReadSome
<1>10. ASSUME NEW r \in Readers, ReadAgain(r) PROVE References'
  <2> DEFINE c == reading[r]
  <2>1. c \in Referenced
    BY <1>10 DEF ReadAgain, TypeOK, Referenced
  <2>2. \/ letters' = letters
        \/ \E ps : letters' = Append(letters, [conn |-> c, pieces |-> ps])
    BY <1>10 DEF ReadAgain
  <2>3. \A i \in 1 .. Len(letters') :
          letters'[i].conn = c \/ (i \in 1 .. Len(letters) /\ letters'[i] = letters[i])
    <3>1. ASSUME NEW l, letters' = Append(letters, l), l.conn = c
          PROVE  \A i \in 1 .. Len(letters') :
                   letters'[i].conn = c \/ (i \in 1 .. Len(letters) /\ letters'[i] = letters[i])
      <4>1. letters \in Seq(Letters \cup {l}) /\ l \in Letters \cup {l}
        BY SeqMonotonic DEF TypeOK
      <4>2. /\ Len(letters') = Len(letters) + 1 /\ letters'[Len(letters) + 1] = l
            /\ \A i \in 1 .. Len(letters) : letters'[i] = letters[i]
            /\ Len(letters) \in Nat
        BY <3>1, <4>1, AppendProperties, LenProperties
      <4>3. QED BY <3>1, <4>2
    <3>2. QED BY <2>2, <3>1
  <2>4. Referenced' \subseteq Referenced
    <3>1. UNCHANGED <<accepting, queue, conn_map, phase, serving, deferred>>
      BY <1>10 DEF ReadAgain
    <3>2. \A q \in Readers : reading'[q] = None \/ reading'[q] = reading[q]
      BY <1>10 DEF ReadAgain, TypeOK
    <3>3. ASSUME NEW d \in Referenced' PROVE d \in Referenced
      BY <2>1, <2>3, <3>1, <3>2, <3>3, ServerAssumption DEF Referenced
    <3>4. QED BY <3>3
  <2>5. QED BY <1>0, <1>10, <2>4 DEF ReadAgain
<1>11. ASSUME NEW r \in Readers, ReadEnd(r) PROVE References'
  <2> DEFINE f == fd[reading[r]]
  <2>1. fd' = fd /\ queue' = queue /\ Release BY <1>11 DEF ReadEnd
  <2>2. conn_map' = [conn_map EXCEPT ![r][f] = None] BY <1>11 DEF ReadEnd
  <2> HIDE DEF f
  <2>3. \A q \in Readers : \A g \in Fds :
          conn_map'[q][g] = None \/ conn_map'[q][g] = conn_map[q][g]
    BY <2>2 DEF TypeOK
  <2>4. \A q \in Readers : reading'[q] = None \/ reading'[q] = reading[q]
    BY <1>11 DEF ReadEnd, TypeOK
  <2>5. Referenced' \subseteq Referenced
    BY <1>11, <2>3, <2>4, ServerAssumption DEF ReadEnd, Referenced
  <2>6. Held' /\ \A g \in Fds : fds'[g] # None => fd'[fds'[g]] = g
    BY <2>1, <2>5, HeldKept DEF References
  <2>7. \A q \in Readers : \A g \in Fds :
          conn_map'[q][g] # None => fd'[conn_map'[q][g]] = g
    BY <2>1, <2>3 DEF References, Numbers
  <2>8. \A i \in 1 .. Len(queue) : queue[i] # None
    <3>1. \A i \in 1 .. Len(queue) : queue[i] \in Clients BY ElementOfSeq DEF TypeOK
    <3>2. QED BY <3>1, ServerAssumption
  <2>9. QueueFresh'
    BY <2>1, <2>3, <2>8 DEF References, QueueFresh
  <2>10. QED BY <2>6, <2>7, <2>9 DEF References, Numbers
<1>12. ASSUME NEW w \in Workers, TakeLetter(w) PROVE References'
  <2>1. /\ Len(letters) \in Nat /\ 1 \in 1 .. Len(letters) /\ Head(letters) = letters[1]
        /\ \A i \in 1 .. Len(letters') : i + 1 \in 1 .. Len(letters) /\ letters'[i] = letters[i + 1]
    BY <1>12, HeadTailProperties, LenProperties, EmptySeq DEF TakeLetter, TypeOK
  <2>2. Referenced' \subseteq Referenced
    <3> SUFFICES ASSUME NEW c \in Referenced' PROVE c \in Referenced
      OBVIOUS
    <3>1. /\ serving' = [serving EXCEPT ![w] = letters[1]] /\ phase' = [phase EXCEPT ![w] = "call"]
          /\ UNCHANGED <<accepting, queue, reading, conn_map, deferred>>
      BY <1>12, <2>1 DEF TakeLetter, pool, readers
    <3>2. CASE \E i \in 1 .. Len(letters') : letters'[i].conn = c
      <4>1. \E i \in 1 .. Len(letters) : letters[i].conn = c BY <2>1, <3>2
      <4>2. QED BY <4>1 DEF Referenced
    <3>3. CASE \E v \in Workers : phase'[v] # "idle" /\ serving'[v].conn = c
      <4>1. \/ letters[1].conn = c
            \/ \E v \in Workers : phase[v] # "idle" /\ serving[v].conn = c
        BY <3>1, <3>3 DEF TypeOK
      <4>2. QED BY <2>1, <4>1 DEF Referenced
    <3>4. CASE ~ (\E i \in 1 .. Len(letters') : letters'[i].conn = c)
               /\ ~ (\E v \in Workers : phase'[v] # "idle" /\ serving'[v].conn = c)
      BY <3>1, <3>4 DEF Referenced
    <3>5. QED BY <3>2, <3>3, <3>4
  <2>3. QED BY <1>0, <1>12, <2>2 DEF TakeLetter
<1>13. ASSUME NEW w \in Workers, Return(w) PROVE References'
  <2>1. Referenced' \subseteq Referenced
    BY <1>13 DEF Return, Answer, Referenced, TypeOK
  <2>2. QED BY <1>0, <1>13, <2>1 DEF Return
<1>14. ASSUME NEW w \in Workers, Defer(w) PROVE References'
  <2>1. Referenced' \subseteq Referenced
    <3>1. /\ \A v \in Workers \ {w} : /\ phase'[v] = phase[v] /\ serving'[v] = serving[v]
                                      /\ deferred'[v] = deferred[v]
          /\ phase'[w] = "idle" /\ phase[w] # "idle"
          /\ deferred'[w] = deferred[w] \cup {serving[w]}
      BY <1>14 DEF Defer, TypeOK
    <3>2. UNCHANGED <<accepting, queue, reading, conn_map, letters>>
      BY <1>14 DEF Defer, pool, readers
    <3>3. ASSUME NEW v \in Workers, NEW d,
                 (phase'[v] # "idle" /\ serving'[v].conn = d) \/ \E l \in deferred'[v] : l.conn = d
          PROVE  (phase[v] # "idle" /\ serving[v].conn = d) \/ \E l \in deferred[v] : l.conn = d
      <4>1. CASE v = w BY <3>1, <3>3, <4>1
      <4>2. CASE v # w BY <3>1, <3>3, <4>2
      <4>3. QED BY <4>1, <4>2
    <3>4. QED BY <3>2, <3>3 DEF Referenced
  <2>2. QED BY <1>0, <1>14, <2>1 DEF Defer
<1>15. ASSUME NEW w \in Workers, Resume(w) PROVE References'
  <2>1. Referenced' \subseteq Referenced
    BY <1>15 DEF Resume, Answer, Referenced, TypeOK
  <2>2. QED BY <1>0, <1>15, <2>1 DEF Resume
<1>16. ASSUME NEW w \in Workers, SetResponse(w) PROVE References'
  <2>1. Referenced' \subseteq Referenced
    BY <1>16 DEF SetResponse, Referenced, TypeOK
  <2>2. QED BY <1>0, <1>16, <2>1 DEF SetResponse
<1>17. ASSUME NEW w \in Workers, CutIntoFd(w) PROVE References'
  <2>1. Referenced' \subseteq Referenced
    BY <1>17 DEF CutIntoFd, Referenced, TypeOK
  <2>2. QED BY <1>0, <1>17, <2>1 DEF CutIntoFd
<1>171. ASSUME NEW w \in Workers, StoreIndex(w) PROVE References'
  <2>1. Referenced' \subseteq Referenced
    <3>1. /\ \A v \in Workers \ {w} : phase'[v] = phase[v] /\ serving'[v] = serving[v]
          /\ phase'[w] = "idle" /\ deferred' = deferred
      BY <1>171 DEF StoreIndex, TypeOK
    <3>2. UNCHANGED <<accepting, queue, reading, conn_map, letters>>
      BY <1>171 DEF StoreIndex, pool, readers
    <3>3. ASSUME NEW v \in Workers, NEW d, phase'[v] # "idle" /\ serving'[v].conn = d
          PROVE  phase[v] # "idle" /\ serving[v].conn = d
      BY <3>1, <3>3
    <3>4. QED BY <3>1, <3>2, <3>3 DEF Referenced
  <2>2. QED BY <1>0, <1>171, <2>1 DEF StoreIndex
<1>18. ASSUME UNCHANGED vars PROVE References'
  <2>1. Referenced' = Referenced BY <1>18 DEF vars, Referenced
  <2>2. QED BY <1>0, <1>18, <2>1 DEF vars
<1>19. QED
  BY <1>1, <1>4, <1>5, <1>6, <1>7, <1>71, <1>8, <1>9, <1>10, <1>11, <1>12,
     <1>13, <1>14, <1>15, <1>16, <1>17, <1>171, <1>18 DEF Next, Reader, Worker

-----------------------------------------------------------------------------
(* Replies *)

LEMMA OwnRepliesStep ==
  ASSUME TypeOK, TypeOK', Held, OwnReplies, SoleAnswers, [Next]_vars
  PROVE  OwnReplies'
\* What was somebody's stays so.
<1>0. ASSUME overlapped \subseteq overlapped', NEW c, NEW x, Theirs(x, c)
      PROVE  Theirs(x, c)'
  BY <1>0 DEF Theirs
<1>1. ASSUME UNCHANGED <<o_buffer, received>>, overlapped \subseteq overlapped'
      PROVE  OwnReplies'
  BY <1>0, <1>1 DEF OwnReplies
\* A new content of one buffer.
<1>2. ASSUME NEW c \in Clients, NEW buf, o_buffer' = [o_buffer EXCEPT ![c] = buf],
             \A i \in 1 .. Len(buf) : Theirs(buf[i], c), received' = received,
             overlapped' = overlapped
      PROVE  OwnReplies'
  <2>1. o_buffer'[c] = buf /\ \A d \in Clients \ {c} : o_buffer'[d] = o_buffer[d]
    BY <1>2 DEF TypeOK
  <2>2. QED BY <1>2, <2>1 DEF OwnReplies, Theirs
<1>3. ASSUME NEW c \in Clients, NEW p, p.to = c, NEW buf,
             \A i \in 1 .. Len(buf) : buf[i] = p \/ (i <= Len(o_buffer[c]) /\ buf[i] = o_buffer[c][i])
      PROVE  \A i \in 1 .. Len(buf) : Theirs(buf[i], c)
  <2> DEFINE old == o_buffer[c]
  <2>1. old \in Seq(Replies) /\ \A i \in 1 .. Len(old) : Theirs(old[i], c)
    BY <1>3 DEF OwnReplies, TypeOK
  <2>2. \A i \in 1 .. Len(buf) : buf[i] = p \/ (i <= Len(old) /\ buf[i] = old[i])
    BY <1>3
  <2> HIDE DEF old
  <2>3. Len(old) \in Nat BY <2>1, LenProperties
  <2>4. Theirs(p, c) BY <1>3 DEF Theirs
  <2>5. QED BY <2>1, <2>2, <2>3, <2>4
<1>4. ASSUME NEW w \in Workers, SetResponse(w) PROVE OwnReplies'
  <2> DEFINE c == serving[w].conn
             p == Reply(serving[w], "first")
  <2>1. serving[w] \in Letters /\ c \in Clients /\ p \in Replies /\ p.to = c
    BY <1>4 DEF TypeOK, SetResponse, Letters, Replies, Reply
  <2>2. PICK buf \in Appended(w, c, p) : o_buffer' = [o_buffer EXCEPT ![c] = buf]
    BY <1>4 DEF SetResponse
  <2>3. \A i \in 1 .. Len(buf) : buf[i] = p \/ (i <= Len(o_buffer[c]) /\ buf[i] = o_buffer[c][i])
    BY <2>1, <2>2, AppendedType
  <2>4. received' = received /\ overlapped' = overlapped BY <1>4 DEF SetResponse
  <2> HIDE DEF c, p
  <2>5. \A i \in 1 .. Len(buf) : Theirs(buf[i], c) BY <1>3, <2>1, <2>3
  <2>6. QED BY <1>2, <2>1, <2>2, <2>4, <2>5
<1>5. ASSUME NEW w \in Workers, CutIntoFd(w) PROVE OwnReplies'
  <2> DEFINE c == serving[w].conn
             p == Reply(serving[w], "second")
  <2>1. serving[w] \in Letters /\ c \in Clients /\ p \in Replies /\ p.to = c
    BY <1>5 DEF TypeOK, CutIntoFd, Letters, Replies, Reply
  <2>2. fds[fd[c]] = c
    <3>1. c \in Referenced BY <1>5, <2>1 DEF CutIntoFd, Referenced
    <3>2. QED BY <3>1 DEF Held
  <2>3. PICK buf \in Appended(w, c, p) : \E n \in 0 .. Len(buf) : Written(w, c, buf, n)
    BY <1>5, CutWrites
  <2>4. PICK n \in 0 .. Len(buf) : Written(w, c, buf, n)
    BY <2>3
  <2>5. /\ buf \in Seq(Replies)
        /\ \A i \in 1 .. Len(buf) : buf[i] = p \/ (i <= Len(o_buffer[c]) /\ buf[i] = o_buffer[c][i])
    BY <2>1, <2>3, AppendedType
  <2>6. overlapped' = overlapped BY <1>5 DEF CutIntoFd
  <2> HIDE DEF c, p
  <2>7. \A i \in 1 .. Len(buf) : Theirs(buf[i], c) BY <1>3, <2>1, <2>5
  <2> DEFINE one == SubSeq(buf, 1, n)
  <2>8. one \in Seq(Replies) /\ Len(one) = n /\ \A i \in 1 .. n : one[i] = buf[i]
    BY <2>5
  <2>9. \A i \in 1 .. Len(one) : Theirs(one[i], c)
    BY <2>5, <2>7, <2>8
  <2>10. /\ o_buffer' = [o_buffer EXCEPT ![c] = buf]
         /\ received' = received \/ received' = [received EXCEPT ![c] = received[c] \o one]
    BY <2>2, <2>4 DEF Written
  <2> HIDE DEF one
  <2>11. \A i \in 1 .. Len(received[c] \o one) : Theirs((received[c] \o one)[i], c)
    <3> DEFINE old == received[c]
    <3>1. old \in Seq(Replies) /\ \A i \in 1 .. Len(old) : Theirs(old[i], c)
      BY <2>1 DEF TypeOK, OwnReplies
    <3> HIDE DEF old
    <3>2. /\ Len(old \o one) = Len(old) + Len(one) /\ Len(old) \in Nat /\ Len(one) \in Nat
          /\ \A i \in 1 .. Len(old) + Len(one) :
               (old \o one)[i] = IF i <= Len(old) THEN old[i] ELSE one[i - Len(old)]
      BY <3>1, <2>8, ConcatProperties, LenProperties
    <3>3. \A i \in 1 .. Len(old \o one) : Theirs((old \o one)[i], c)
      BY <2>9, <3>1, <3>2
    <3>4. QED BY <3>3 DEF old
  <2>12. \A d \in Clients : \A i \in 1 .. Len(o_buffer'[d]) : Theirs(o_buffer'[d][i], d)
    <3>1. o_buffer'[c] = buf /\ \A d \in Clients \ {c} : o_buffer'[d] = o_buffer[d]
      BY <2>1, <2>10 DEF TypeOK
    <3>2. QED BY <2>7, <3>1 DEF OwnReplies
  <2>13. \A d \in Clients : \A i \in 1 .. Len(received'[d]) : Theirs(received'[d][i], d)
    <3>1. CASE received' = received BY <3>1 DEF OwnReplies
    <3>2. CASE received' = [received EXCEPT ![c] = received[c] \o one]
      <4> DEFINE all == received[c] \o one
      <4>1. \A i \in 1 .. Len(all) : Theirs(all[i], c) BY <2>11
      <4>2. received' = [received EXCEPT ![c] = all] BY <3>2
      <4> HIDE DEF all
      <4>3. received'[c] = all /\ \A d \in Clients \ {c} : received'[d] = received[d]
        BY <2>1, <4>2 DEF TypeOK
      <4>4. QED BY <4>1, <4>3 DEF OwnReplies
    <3>3. QED BY <2>10, <3>1, <3>2
  <2>14. QED BY <2>6, <2>12, <2>13 DEF OwnReplies, Theirs
<1>6. ASSUME NEW w \in Workers, StoreIndex(w) PROVE OwnReplies'
  <2> DEFINE c == serving[w].conn
             old == o_buffer[c]
             n == written[w]
  <2>1. c \in Clients /\ old \in Seq(Replies) /\ Len(old) <= OutSize /\ n \in 0 .. OutSize
    BY <1>6 DEF TypeOK, StoreIndex, Letters
  <2>2. \A i \in 1 .. Len(old) : Theirs(old[i], c) BY <2>1 DEF OwnReplies
  <2>3. c \in overlapped \/ n <= Len(old)
    BY <1>6, <2>1 DEF SoleAnswers, Storing, StoreIndex
  <2>4. PICK buf \in {Advanced(old, n), old} : o_buffer' = [o_buffer EXCEPT ![c] = buf]
    BY <1>6 DEF StoreIndex
  <2>5. received' = received /\ overlapped' = overlapped BY <1>6 DEF StoreIndex
  <2> HIDE DEF c, old, n
  <2>6. \A i \in 1 .. Len(Advanced(old, n)) : Theirs(Advanced(old, n)[i], c)
    <3>1. \A i \in 1 .. Len(Advanced(old, n)) :
            \/ Advanced(old, n)[i] = Stray /\ n > Len(old)
            \/ n + i \in 1 .. Len(old) /\ Advanced(old, n)[i] = old[n + i]
      BY <2>1, AdvancedType
    <3>2. n > Len(old) => Theirs(Stray, c)
      <4>1. n > Len(old) => ~ (n <= Len(old)) BY <2>1, LenProperties
      <4>2. QED BY <2>3, <4>1 DEF Theirs
    <3>3. QED BY <2>2, <3>1, <3>2
  <2>7. QED BY <1>2, <2>1, <2>2, <2>4, <2>5, <2>6 DEF old
<1>7. QED
  <2>1. CASE UNCHANGED vars BY <1>1, <2>1 DEF vars, workers
  <2>2. ASSUME NEW c \in Clients, Connect(c) \/ Send(c) \/ Finish(c) \/ Accept(c)
        PROVE  UNCHANGED <<o_buffer, received, overlapped>>
    BY <2>2 DEF Connect, Send, Finish, Accept, workers
  <2>3. CASE AcceptNext BY <1>1, <2>3 DEF AcceptNext, workers
  <2>4. ASSUME NEW r \in Readers, Reader(r) PROVE UNCHANGED <<o_buffer, received, overlapped>>
    BY <2>4 DEF Reader, ReadSignal, Take, TakeMiss, ReadEvent, ReadSome, ReadAgain, ReadEnd, workers
  <2>5. ASSUME NEW w \in Workers, TakeLetter(w) \/ Return(w) \/ Defer(w) \/ Resume(w)
        PROVE  UNCHANGED <<o_buffer, received>> /\ overlapped \subseteq overlapped'
    BY <2>5 DEF TakeLetter, Return, Defer, Resume, Answer
  <2>6. QED BY <1>1, <1>4, <1>5, <1>6, <2>1, <2>2, <2>3, <2>4, <2>5 DEF Next, Worker

-----------------------------------------------------------------------------
(* Who uses an o_buffer *)

LEMMA SoleAnswersStep ==
  ASSUME TypeOK, TypeOK', SoleAnswers, [Next]_vars
  PROVE  SoleAnswers'
<1>0. ASSUME UNCHANGED <<phase, serving, written, o_buffer, overlapped>> PROVE SoleAnswers'
  BY <1>0 DEF SoleAnswers, Answering, Storing
\* A worker that was not answering and does not begin to, or stops.
<1>1. ASSUME NEW w \in Workers, phase'[w] \in {"idle", "call"}, UNCHANGED overlapped,
             \A v \in Workers \ {w} : /\ phase'[v] = phase[v] /\ serving'[v] = serving[v]
                                      /\ written'[v] = written[v],
             \A c \in Clients \ overlapped :
               o_buffer'[c] = o_buffer[c] \/ (Answering(w, c) /\ phase[w] # "idle")
      PROVE  SoleAnswers'
  <2> SUFFICES ASSUME NEW c \in Clients, c \notin overlapped, NEW v \in Workers
               PROVE  /\ \A u \in Workers : (Answering(u, c) /\ Answering(v, c))' => u = v
                      /\ Storing(v, c)' => written'[v] <= Len(o_buffer'[c])
    BY <1>1 DEF SoleAnswers
  <2>1. \A u \in Workers : Answering(u, c)' => u # w /\ Answering(u, c)
    BY <1>1 DEF Answering
  <2>2. Storing(v, c)' => v # w /\ Storing(v, c) /\ Answering(v, c)
    BY <1>1 DEF Storing, Answering
  <2>3. o_buffer'[c] = o_buffer[c] \/ Answering(w, c) BY <1>1
  <2>4. QED BY <1>1, <2>1, <2>2, <2>3 DEF SoleAnswers
<1>2. ASSUME NEW w \in Workers, NEW c \in Clients, Answer(w, c), serving'[w].conn = c,
             phase[w] \in {"idle", "call"}, UNCHANGED <<written, o_buffer>>,
             \A v \in Workers \ {w} : serving'[v] = serving[v]
      PROVE  SoleAnswers'
  <2>1. /\ phase'[w] = "answer" /\ \A v \in Workers \ {w} : phase'[v] = phase[v]
        /\ overlapped \subseteq overlapped'
        /\ (\E v \in Workers \ {w} : Answering(v, c)) => c \in overlapped'
    BY <1>2 DEF Answer, TypeOK
  <2> SUFFICES ASSUME NEW d \in Clients, d \notin overlapped', NEW v \in Workers
               PROVE  /\ \A u \in Workers : (Answering(u, d) /\ Answering(v, d))' => u = v
                      /\ Storing(v, d)' => written'[v] <= Len(o_buffer'[d])
    BY DEF SoleAnswers
  <2>2. \A u \in Workers \ {w} : Answering(u, d)' => Answering(u, d)
    BY <1>2, <2>1 DEF Answering
  <2>3. Answering(w, d)' => d = c BY <1>2, <2>1 DEF Answering
  <2>4. Storing(v, d)' => v # w /\ Storing(v, d) BY <1>2, <2>1 DEF Storing
  <2>5. QED BY <1>2, <2>1, <2>2, <2>3, <2>4 DEF SoleAnswers
<1>3. ASSUME NEW w \in Workers, SetResponse(w) PROVE SoleAnswers'
  <2> DEFINE c == serving[w].conn
  <2>1. /\ phase[w] = "answer" /\ phase'[w] = "write"
        /\ \A v \in Workers \ {w} : phase'[v] = phase[v]
        /\ UNCHANGED <<serving, written, overlapped>>
        /\ \A d \in Clients : d # c => o_buffer'[d] = o_buffer[d]
    BY <1>3 DEF SetResponse, TypeOK
  <2>2. \A d \in Clients : \A u \in Workers : Answering(u, d)' = Answering(u, d)
    BY <2>1 DEF Answering
  <2>3. \A d \in Clients : \A u \in Workers :
          /\ Storing(u, d)' = Storing(u, d)
          /\ Storing(u, d) => u # w /\ Answering(u, d)
    BY <2>1 DEF Storing, Answering
  <2>4. Answering(w, c) BY <2>1 DEF Answering
  <2> HIDE DEF c
  <2>5. QED BY <2>1, <2>2, <2>3, <2>4 DEF SoleAnswers
<1>4. ASSUME NEW w \in Workers, CutIntoFd(w) PROVE SoleAnswers'
  <2> DEFINE c == serving[w].conn
             p == Reply(serving[w], "second")
  <2>1. /\ phase[w] = "write" /\ phase'[w] = "store"
        /\ \A v \in Workers \ {w} : phase'[v] = phase[v]
        /\ UNCHANGED <<serving, overlapped>>
    BY <1>4 DEF CutIntoFd, TypeOK
  <2>2. PICK buf \in Appended(w, c, p) : \E n \in 0 .. Len(buf) : Written(w, c, buf, n)
    BY <1>4, CutWrites
  <2>3. PICK n \in 0 .. Len(buf) : Written(w, c, buf, n) BY <2>2
  <2>4. /\ \A d \in Clients : o_buffer'[d] = IF d = c THEN buf ELSE o_buffer[d]
        /\ \A v \in Workers : written'[v] = IF v = w THEN n ELSE written[v]
    BY <2>3 DEF Written, TypeOK
  <2>5. Answering(w, c) /\ \A d \in Clients : \A u \in Workers : Answering(u, d)' = Answering(u, d)
    BY <2>1 DEF Answering
  <2>6. \A d \in Clients : \A u \in Workers :
          Storing(u, d)' => \/ u = w /\ d = c
                            \/ u # w /\ Storing(u, d) /\ Answering(u, d)
    BY <2>1 DEF Storing, Answering
  <2>7. n <= Len(buf) BY <2>3
  <2> HIDE DEF c, p
  <2>8. QED BY <2>1, <2>4, <2>5, <2>6, <2>7 DEF SoleAnswers
<1>5. ASSUME NEW w \in Workers, StoreIndex(w) PROVE SoleAnswers'
  <2> DEFINE c == serving[w].conn
  <2>1. /\ phase'[w] = "idle" /\ overlapped' = overlapped
        /\ \A v \in Workers \ {w} : /\ phase'[v] = phase[v] /\ serving'[v] = serving[v]
                                    /\ written'[v] = written[v]
        /\ \A d \in Clients : d # c => o_buffer'[d] = o_buffer[d]
    BY <1>5 DEF StoreIndex, TypeOK
  <2>2. phase[w] # "idle" /\ Answering(w, c) BY <1>5 DEF StoreIndex, Answering
  <2> HIDE DEF c
  <2>3. QED BY <1>1, <2>1, <2>2
<1>6. ASSUME NEW w \in Workers, TakeLetter(w) \/ Defer(w) PROVE SoleAnswers'
  <2>1. /\ phase'[w] \in {"idle", "call"} /\ UNCHANGED <<overlapped, o_buffer, written>>
        /\ \A v \in Workers \ {w} : phase'[v] = phase[v] /\ serving'[v] = serving[v]
    BY <1>6 DEF TakeLetter, Defer, TypeOK
  <2>2. QED BY <1>1, <2>1
<1>7. ASSUME NEW w \in Workers, Return(w) PROVE SoleAnswers'
  <2>1. /\ serving[w].conn \in Clients /\ Answer(w, serving[w].conn) /\ phase[w] = "call"
        /\ UNCHANGED <<serving, written, o_buffer>>
    BY <1>7 DEF Return, TypeOK, Letters
  <2>2. QED BY <1>2, <2>1
<1>8. ASSUME NEW w \in Workers, Resume(w) PROVE SoleAnswers'
  <2>1. PICK l \in deferred[w] : serving' = [serving EXCEPT ![w] = l] /\ Answer(w, l.conn)
    BY <1>8 DEF Resume
  <2>2. /\ l.conn \in Clients /\ serving'[w].conn = l.conn /\ phase[w] = "idle"
        /\ \A v \in Workers \ {w} : serving'[v] = serving[v]
        /\ UNCHANGED <<written, o_buffer>>
    BY <1>8, <2>1 DEF Resume, TypeOK, Letters
  <2>3. QED BY <1>2, <2>1, <2>2
<1>9. QED
  <2>1. CASE UNCHANGED vars BY <1>0, <2>1 DEF vars, workers
  <2>2. ASSUME NEW c \in Clients, Connect(c) \/ Send(c) \/ Finish(c) \/ Accept(c)
        PROVE  UNCHANGED workers
    BY <2>2 DEF Connect, Send, Finish, Accept
  <2>3. CASE AcceptNext BY <1>0, <2>3 DEF AcceptNext, workers
  <2>4. ASSUME NEW r \in Readers, Reader(r) PROVE UNCHANGED workers
    BY <2>4 DEF Reader, ReadSignal, Take, TakeMiss, ReadEvent, ReadSome, ReadAgain, ReadEnd
  <2>5. UNCHANGED workers => SoleAnswers' BY <1>0 DEF workers
  <2>6. QED BY <1>3, <1>4, <1>5, <1>6, <1>7, <1>8, <2>1, <2>2, <2>3, <2>4, <2>5 DEF Next, Worker

-----------------------------------------------------------------------------
(* The input *)

\* When the parser meets nothing it rejects, it takes all of its input ...
LEMMA ExecutedClean ==
  ASSUME NEW m \in Messages, NEW ps \in Seq(Pieces), NEW x \in Executed(m, ps),
         ~ m.failed, \A i \in 1 .. Len(ps) : ps[i] # Rejected
  PROVE  x.pieces = m.pieces \o ps /\ ~ x.failed
<1>1. PICK n \in Accepted(ps) :
        \/ x = [pieces    |-> m.pieces \o SubSeq(ps, 1, n),
                completed |-> IF n = 0 THEN m.completed ELSE ps[n].last,
                failed    |-> n < Len(ps)]
        \/ x = [pieces    |-> m.pieces \o SubSeq(ps, 1, n),
                completed |-> FALSE,
                failed    |-> n < Len(ps)] /\ n # Len(ps)
  BY Zenon DEF Executed
<1>2. n \in 0 .. Len(ps) /\ Len(ps) \in Nat /\ ~ (n < Len(ps))
  BY <1>1, LenProperties DEF Accepted
<1>3. SubSeq(ps, 1, n) = ps
  BY <1>2, SubSeqFull
<1>4. n = Len(ps) BY <1>2
<1>5. x = [pieces    |-> m.pieces \o SubSeq(ps, 1, n),
           completed |-> IF n = 0 THEN m.completed ELSE ps[n].last,
           failed    |-> n < Len(ps)]
  BY <1>1, <1>4
<1>6. x.pieces = m.pieces \o SubSeq(ps, 1, n) /\ x.failed = (n < Len(ps))
  BY <1>5
<1>7. QED BY <1>2, <1>3, <1>6

\* The same for parse, which takes as much as the caller cuts.
LEMMA ParsedClean ==
  ASSUME NEW m \in Messages, NEW buf \in Seq(Pieces), NEW k \in 0 .. Len(buf),
         NEW one \in Executed(m, SubSeq(buf, 1, k)), NEW both \in Parsed(buf, k, one),
         ~ m.failed, \A i \in 1 .. Len(buf) : buf[i] # Rejected
  PROVE  /\ ~ both.failed
         /\ Cut(buf, k, one) \in 0 .. Len(buf)
         /\ both.pieces = m.pieces \o SubSeq(buf, 1, Cut(buf, k, one))
<1> DEFINE s1 == SubSeq(buf, 1, k)
           s2 == SubSeq(buf, k + 1, Len(buf))
<1>1. /\ s1 \in Seq(Pieces) /\ s2 \in Seq(Pieces) /\ Len(buf) \in Nat
      /\ \A i \in 1 .. Len(s1) : s1[i] # Rejected
      /\ \A i \in 1 .. Len(s2) : s2[i] # Rejected
  OBVIOUS
<1>2. s1 \o s2 = buf /\ SubSeq(buf, 1, Len(buf)) = buf
  <2>1. /\ 1 \in 1 .. Len(buf) + 1 /\ k \in 1 - 1 .. Len(buf) /\ Len(buf) \in k .. Len(buf)
    BY <1>1
  <2>2. s1 \o s2 = SubSeq(buf, 1, Len(buf))
    BY <2>1, ConcatAdjacentSubSeq
  <2>3. QED BY <2>2, SubSeqFull
<1>3. one \in Messages BY ParsedType
<1> HIDE DEF s1, s2
<1>4. one.pieces = m.pieces \o s1 /\ ~ one.failed
  BY <1>1, ExecutedClean DEF s1
<1>5. CASE one.completed
  BY <1>1, <1>4, <1>5 DEF Parsed, Cut, s1
<1>6. CASE ~ one.completed
  <2>1. both.pieces = one.pieces \o s2 /\ ~ both.failed
    BY <1>1, <1>3, <1>4, <1>6, ExecutedClean DEF Parsed, s2
  <2>2. (m.pieces \o s1) \o s2 = m.pieces \o (s1 \o s2)
    <3>1. m.pieces \in Seq(Pieces) BY DEF Messages
    <3>2. \A q, a, b \in Seq(Pieces) : (q \o a) \o b = q \o (a \o b)
      BY ConcatAssociative
    <3>3. QED BY <1>1, <3>1, <3>2, Zenon
  <2>3. Cut(buf, k, one) = Len(buf) BY <1>6 DEF Cut
  <2>4. both.pieces = m.pieces \o SubSeq(buf, 1, Len(buf)) BY <1>2, <1>4, <2>1, <2>2
  <2>5. Len(buf) \in 0 .. Len(buf) BY <1>1
  <2>6. QED BY <2>1, <2>3, <2>4, <2>5
<1>7. QED BY <1>5, <1>6

\* A sequence is what is before a position and what is behind it.
LEMMA SplitAt ==
  ASSUME NEW S, NEW q \in Seq(S), NEW n \in 0 .. Len(q)
  PROVE  /\ SubSeq(q, 1, n) \in Seq(S) /\ SubSeq(q, n + 1, Len(q)) \in Seq(S)
         /\ SubSeq(q, 1, n) \o SubSeq(q, n + 1, Len(q)) = q
<1>1. Len(q) \in Nat /\ \A i \in 1 .. Len(q) : q[i] \in S BY LenProperties, ElementOfSeq
<1>2. /\ 1 \in 1 .. Len(q) + 1 /\ n \in 1 - 1 .. Len(q) /\ Len(q) \in n .. Len(q)
  BY <1>1
<1>3. SubSeq(q, 1, n) \o SubSeq(q, n + 1, Len(q)) = SubSeq(q, 1, Len(q))
  BY <1>2, ConcatAdjacentSubSeq
<1>4. SubSeq(q, 1, Len(q)) = q BY SubSeqFull
<1>5. SubSeq(q, 1, n) \in Seq(S) /\ SubSeq(q, n + 1, Len(q)) \in Seq(S)
  BY <1>1, SubSeqProperties
<1>6. QED BY <1>3, <1>4, <1>5

\* The elements of a sequence with one more.
LEMMA RangeAppend ==
  ASSUME NEW S, NEW q \in Seq(S), NEW p \in S
  PROVE  Range(Append(q, p)) = Range(q) \cup {p}
<1>1. Append(q, p) = q \o << p >> /\ << p >> \in Seq(S) BY AppendIsConcat
<1>2. Range(q \o << p >>) = Range(q) \cup Range(<< p >>)
  <2>1. \A s1, s2 \in Seq(S) : Range(s1 \o s2) = Range(s1) \cup Range(s2) BY RangeConcatenation
  <2>2. QED BY <1>1, <2>1, Zenon
<1>3. Len(<< p >>) = 1 /\ << p >>[1] = p OBVIOUS
<1>4. \A x : x \in Range(<< p >>) <=> x = p
  <2>1. TAKE x
  <2>2. x \in Range(<< p >>) <=> \E i \in 1 .. Len(<< p >>) : << p >>[i] = x
    BY <1>1, RangeOf
  <2>3. QED BY <1>3, <2>2
<1>5. QED BY <1>1, <1>2, <1>4

\* Concatenation by a name of its own, of which the provers see only these facts.
Cat(s, t) == s \o t

LEMMA CatFacts ==
  /\ \A s, t \in Seq(Pieces) : Cat(s, t) \in Seq(Pieces)
  /\ \A s, t, u \in Seq(Pieces) : Cat(Cat(s, t), u) = Cat(s, Cat(t, u))
  /\ \A s \in Seq(Pieces) : Cat(s, << >>) = s
<1>1. ASSUME NEW s \in Seq(Pieces), NEW t \in Seq(Pieces)
      PROVE  Cat(s, t) \in Seq(Pieces) /\ Cat(s, << >>) = s
  BY ConcatProperties, ConcatEmptySeq DEF Cat
<1>2. ASSUME NEW s \in Seq(Pieces), NEW t \in Seq(Pieces), NEW u \in Seq(Pieces)
      PROVE  Cat(Cat(s, t), u) = Cat(s, Cat(t, u))
  BY ConcatAssociative DEF Cat
<1>3. << >> \in Seq(Pieces) OBVIOUS
<1>4. QED BY <1>1, <1>2, <1>3

LEMMA CatAssociative ==
  ASSUME NEW s \in Seq(Pieces), NEW t \in Seq(Pieces), NEW u \in Seq(Pieces)
  PROVE  Cat(s, Cat(t, u)) = Cat(Cat(s, t), u)
BY CatFacts

LEMMA CatAppend ==
  ASSUME NEW s \in Seq(Pieces), NEW p \in Pieces
  PROVE  Append(s, p) = Cat(s, << p >>) /\ << p >> \in Seq(Pieces)
<1>1. Append(s, p) = s \o << p >> BY AppendIsConcat
<1>2. QED BY <1>1 DEF Cat

LEMMA CatRange ==
  \A s, t \in Seq(Pieces) : Range(Cat(s, t)) = Range(s) \cup Range(t)
BY RangeConcatenation DEF Cat

\* Regrouping: what is added at the end, moves from the fourth part to the third, or
\* from the third part to the second or to the first.
LEMMA RegroupSend ==
  ASSUME NEW a \in Seq(Pieces), NEW b \in Seq(Pieces), NEW d \in Seq(Pieces),
         NEW e \in Seq(Pieces), NEW x \in Seq(Pieces)
  PROVE  Cat(Cat(Cat(Cat(a, b), d), e), x) = Cat(Cat(Cat(a, b), d), Cat(e, x))
<1>1. Cat(a, b) \in Seq(Pieces) BY CatFacts
<1>2. Cat(Cat(a, b), d) \in Seq(Pieces) BY <1>1, CatFacts
<1>3. QED BY <1>2, CatFacts

LEMMA RegroupRead ==
  ASSUME NEW a \in Seq(Pieces), NEW b \in Seq(Pieces), NEW d \in Seq(Pieces),
         NEW x \in Seq(Pieces), NEW y \in Seq(Pieces)
  PROVE  Cat(Cat(Cat(a, b), d), Cat(x, y)) = Cat(Cat(Cat(a, b), Cat(d, x)), y)
<1>1. Cat(a, b) \in Seq(Pieces) BY CatFacts
<1>2. Cat(Cat(a, b), d) \in Seq(Pieces) BY <1>1, CatFacts
<1>3. Cat(Cat(Cat(a, b), d), Cat(x, y)) = Cat(Cat(Cat(Cat(a, b), d), x), y)
  BY <1>2, CatFacts
<1>4. Cat(Cat(Cat(a, b), d), x) = Cat(Cat(a, b), Cat(d, x))
  BY <1>1, CatFacts
<1>5. QED BY <1>3, <1>4

LEMMA RegroupParse ==
  ASSUME NEW a \in Seq(Pieces), NEW b \in Seq(Pieces), NEW x \in Seq(Pieces),
         NEW y \in Seq(Pieces), NEW e \in Seq(Pieces)
  PROVE  /\ Cat(Cat(Cat(a, b), Cat(x, y)), e) = Cat(Cat(Cat(a, Cat(b, x)), y), e)
         /\ Cat(Cat(Cat(a, b), Cat(x, y)), e)
              = Cat(Cat(Cat(Cat(a, Cat(b, x)), << >>), y), e)
<1>1. Cat(a, b) \in Seq(Pieces) /\ Cat(b, x) \in Seq(Pieces) BY CatFacts
<1>2. Cat(a, Cat(b, x)) \in Seq(Pieces) BY <1>1, CatFacts
<1>3. Cat(Cat(a, Cat(b, x)), << >>) = Cat(a, Cat(b, x)) BY <1>2, CatFacts
<1>4. Cat(Cat(a, b), Cat(x, y)) = Cat(Cat(Cat(a, b), x), y) BY <1>1, CatFacts
<1>5. Cat(Cat(a, b), x) = Cat(a, Cat(b, x)) BY CatFacts
<1>6. QED BY <1>3, <1>4, <1>5

\* The input of one client: l its link, s what it has sent, h what has been handed
\* on, m its message, b its i_buffer and i what has not been read.
Accounts(l, s, h, m, b, i) ==
  /\ Range(i) \subseteq Range(s) /\ Range(b) \subseteq Range(s)
  /\ m.failed => Rejected \in Range(s)
  /\ l # "reset" /\ Rejected \notin Range(s) => s = Cat(Cat(Cat(h, m.pieces), b), i)

LEMMA SendAccounts ==
  ASSUME NEW l, NEW s \in Seq(Pieces), NEW h \in Seq(Pieces), NEW m \in Messages,
         NEW b \in Seq(Pieces), NEW i \in Seq(Pieces), Accounts(l, s, h, m, b, i),
         NEW p \in Pieces
  PROVE  Accounts(l, Append(s, p), h, m, b, Append(i, p))
<1>1. /\ Range(Append(s, p)) = Range(s) \cup {p}
      /\ Range(Append(i, p)) = Range(i) \cup {p}
  BY RangeAppend
<1>2. PICK q : q = m.pieces OBVIOUS
<1>3. q \in Seq(Pieces) BY <1>2 DEF Messages
<1>4. PICK x : x = << p >> OBVIOUS
<1>5. x \in Seq(Pieces) /\ Append(s, p) = Cat(s, x) /\ Append(i, p) = Cat(i, x)
  BY <1>4, CatAppend
<1>6. Cat(Cat(Cat(Cat(h, q), b), i), x) = Cat(Cat(Cat(h, q), b), Cat(i, x))
  BY <1>3, <1>5, RegroupSend
<1>7. QED BY <1>1, <1>2, <1>5, <1>6 DEF Accounts

LEMMA ReadAccounts ==
  ASSUME NEW l, NEW s \in Seq(Pieces), NEW h \in Seq(Pieces), NEW m \in Messages,
         NEW b \in Seq(Pieces), NEW i \in Seq(Pieces), Accounts(l, s, h, m, b, i),
         NEW n \in 0 .. Len(i)
  PROVE  Accounts(l, s, h, m, b \o SubSeq(i, 1, n), SubSeq(i, n + 1, Len(i)))
<1>1. PICK q : q = m.pieces OBVIOUS
<1>2. q \in Seq(Pieces) BY <1>1 DEF Messages
<1>3. PICK x, y : x = SubSeq(i, 1, n) /\ y = SubSeq(i, n + 1, Len(i)) OBVIOUS
<1>4. x \in Seq(Pieces) /\ y \in Seq(Pieces) /\ Cat(x, y) = i BY <1>3, SplitAt DEF Cat
<1>5. Range(i) = Range(x) \cup Range(y) /\ Range(Cat(b, x)) = Range(b) \cup Range(x)
  BY <1>4, CatRange
<1>6. Cat(Cat(Cat(h, q), b), Cat(x, y)) = Cat(Cat(Cat(h, q), Cat(b, x)), y)
  BY <1>2, <1>4, RegroupRead
<1>7. Accounts(l, s, h, m, Cat(b, x), y) BY <1>1, <1>4, <1>5, <1>6 DEF Accounts
<1>8. QED BY <1>3, <1>7 DEF Cat

LEMMA CleanAccounts ==
  ASSUME NEW l, NEW s \in Seq(Pieces), NEW h \in Seq(Pieces), NEW m, NEW both,
         NEW x \in Seq(Pieces), NEW y \in Seq(Pieces), NEW i \in Seq(Pieces),
         m.pieces \in Seq(Pieces), Accounts(l, s, h, m, Cat(x, y), i),
         ~ both.failed, both.pieces = Cat(m.pieces, x)
  PROVE  /\ Accounts(l, s, h, both, y, i)
         /\ Accounts(l, s, Cat(h, both.pieces), NewMessage, y, i)
<1>1. PICK q : q = m.pieces OBVIOUS
<1>2. q \in Seq(Pieces) BY <1>1
<1>3. /\ Cat(Cat(Cat(h, q), Cat(x, y)), i) = Cat(Cat(Cat(h, Cat(q, x)), y), i)
      /\ Cat(Cat(Cat(h, q), Cat(x, y)), i)
           = Cat(Cat(Cat(Cat(h, Cat(q, x)), << >>), y), i)
  BY <1>2, RegroupParse
<1>4. Range(Cat(x, y)) = Range(x) \cup Range(y) BY CatRange
<1>5. NewMessage.pieces = << >> /\ ~ NewMessage.failed BY DEF NewMessage
<1>6. QED BY <1>1, <1>3, <1>4, <1>5 DEF Accounts

LEMMA ParseAccounts ==
  ASSUME NEW l, NEW s \in Seq(Pieces), NEW h \in Seq(Pieces), NEW m \in Messages,
         NEW b \in Seq(Pieces), NEW i \in Seq(Pieces), Accounts(l, s, h, m, b, i),
         NEW k \in 0 .. Len(b), NEW one \in Executed(m, SubSeq(b, 1, k)),
         NEW both \in Parsed(b, k, one),
         NEW y, y = SubSeq(b, Cut(b, k, one) + 1, Len(b))
  PROVE  /\ Accounts(l, s, h, both, y, i)
         /\ Accounts(l, s, Cat(h, both.pieces), NewMessage, y, i)
<1>1. PICK q, x, n : q = m.pieces /\ n = Cut(b, k, one) /\ x = SubSeq(b, 1, n) OBVIOUS
<1>2. n \in 0 .. Len(b) BY <1>1, LenProperties DEF Cut
<1>3. q \in Seq(Pieces) BY <1>1 DEF Messages
<1>4. x \in Seq(Pieces) /\ y \in Seq(Pieces) /\ Cat(x, y) = b BY <1>1, <1>2, SplitAt DEF Cat
<1>5. Range(b) = Range(x) \cup Range(y) BY <1>4, CatRange
<1>6. CASE m.failed \/ \E j \in 1 .. Len(b) : b[j] = Rejected
  <2>1. Rejected \in Range(s) BY <1>6, RangeOf DEF Accounts
  <2>2. QED BY <1>4, <1>5, <2>1 DEF Accounts
<1>7. CASE ~ m.failed /\ \A j \in 1 .. Len(b) : b[j] # Rejected
  <2>1. ~ both.failed /\ both.pieces = Cat(q, x) BY <1>1, <1>7, ParsedClean DEF Cat
  <2>2. m.pieces \in Seq(Pieces) /\ both.pieces = Cat(m.pieces, x) BY <1>1, <1>3, <2>1
  <2>3. Accounts(l, s, h, m, Cat(x, y), i) BY <1>4
  <2>4. QED BY <1>4, <2>1, <2>2, <2>3, CleanAccounts, Zenon
<1>8. QED BY <1>6, <1>7

Input == OwnInput /\ PiecesAccounted

InputOf(c) == Accounts(link[c], sent[c], handed[c], message[c], i_buffer[c], inbox[c])

LEMMA InputParts == Input <=> \A c \in Clients : InputOf(c)
BY DEF Input, OwnInput, PiecesAccounted, InputOf, Accounts, Cat

LEMMA InputPartsNext == Input' <=> \A c \in Clients : InputOf(c)'
BY DEF Input, OwnInput, PiecesAccounted, InputOf, Accounts, Cat

Same(c) == /\ sent'[c] = sent[c] /\ inbox'[c] = inbox[c] /\ i_buffer'[c] = i_buffer[c]
           /\ message'[c] = message[c] /\ handed'[c] = handed[c] /\ link'[c] = link[c]

\* It is enough to look at a client whose variables change.
LEMMA OneChanges ==
  ASSUME Input, NEW c \in Clients, InputOf(c)', \A e \in Clients \ {c} : Same(e)
  PROVE  Input'
<1>1. ASSUME NEW e \in Clients, e # c PROVE InputOf(e)'
  <2>1. InputOf(e) BY InputParts
  <2>2. Same(e) BY <1>1
  <2>3. QED BY <2>1, <2>2 DEF Same, InputOf
<1>2. QED BY <1>1, InputPartsNext

\* What a client sends, a reader reads or the parser takes stays accounted for.
LEMMA InputStep ==
  ASSUME TypeOK, Input, [Next]_vars
  PROVE  Input'
<1> USE DEF clients, pool, readers, workers
<1>0. CASE UNCHANGED <<sent, inbox, i_buffer, message, handed, link>>
  BY <1>0 DEF Input, OwnInput, PiecesAccounted
<1>1. ASSUME NEW c \in Clients
      PROVE  /\ sent[c] \in Seq(Pieces) /\ inbox[c] \in Seq(Pieces)
             /\ i_buffer[c] \in Seq(Pieces) /\ handed[c] \in Seq(Pieces)
             /\ message[c] \in Messages /\ InputOf(c)
  BY InputParts DEF TypeOK
<1>2. ASSUME NEW c \in Clients, Connect(c) PROVE Input'
  <2>1. link' = [link EXCEPT ![c] = "open"] /\ link[c] = "new"
        /\ UNCHANGED <<sent, inbox, i_buffer, message, handed>>
    BY <1>2 DEF Connect
  <2>2. link'[c] = "open" /\ \A e \in Clients \ {c} : Same(e) BY <2>1 DEF Same, TypeOK
  <2>3. InputOf(c)' BY <1>1, <2>1, <2>2 DEF InputOf, Accounts
  <2>4. QED BY <2>2, <2>3, OneChanges
<1>3. ASSUME NEW c \in Clients, Send(c) PROVE Input'
  <2>1. PICK p \in NextPieces(c) : /\ sent' = [sent EXCEPT ![c] = Append(@, p)]
                                   /\ inbox' = [inbox EXCEPT ![c] = Append(@, p)]
    BY <1>3 DEF Send
  <2>2. p \in Pieces BY NextPiecesType
  <2>3. /\ sent'[c] = Append(sent[c], p) /\ inbox'[c] = Append(inbox[c], p)
        /\ UNCHANGED <<i_buffer, message, handed, link>>
    BY <1>3, <2>1 DEF Send, TypeOK
  <2>4. \A e \in Clients \ {c} : Same(e) BY <2>1, <2>3 DEF Same, TypeOK
  <2>5. Accounts(link[c], Append(sent[c], p), handed[c], message[c], i_buffer[c],
                 Append(inbox[c], p))
    BY <1>1, <2>2, SendAccounts DEF InputOf
  <2>6. InputOf(c)' BY <2>3, <2>5 DEF InputOf
  <2>7. QED BY <2>4, <2>6, OneChanges
<1>4. ASSUME NEW c \in Clients, Finish(c) PROVE Input'
  <2>1. UNCHANGED <<sent, i_buffer, message, handed>> BY <1>4 DEF Finish
  <2>2. \/ link' = [link EXCEPT ![c] = "shut"] /\ inbox' = inbox
        \/ link' = [link EXCEPT ![c] = "reset"] /\ inbox' = [inbox EXCEPT ![c] = << >>]
    BY <1>4 DEF Finish
  <2>3. \A e \in Clients \ {c} : Same(e)
    BY <2>1, <2>2 DEF Same, TypeOK
  <2>4. link[c] = "open"
    BY <1>4 DEF Finish
  <2>5. InputOf(c)'
    <3>1. CASE link' = [link EXCEPT ![c] = "shut"] /\ inbox' = inbox
      <4>1. link'[c] = "shut" BY <3>1 DEF TypeOK
      <4>2. QED BY <1>1, <2>1, <2>4, <3>1, <4>1 DEF InputOf, Accounts
    <3>2. CASE link' = [link EXCEPT ![c] = "reset"] /\ inbox' = [inbox EXCEPT ![c] = << >>]
      <4>1. link'[c] = "reset" /\ inbox'[c] = << >> BY <3>2 DEF TypeOK
      <4>2. Range(<< >>) = {} BY DEF Range
      <4>3. QED BY <1>1, <2>1, <2>4, <4>1, <4>2 DEF InputOf, Accounts
    <3>3. QED BY <2>2, <3>1, <3>2
  <2>6. QED BY <2>3, <2>5, OneChanges
<1>5. ASSUME NEW r \in Readers, ReadSome(r) PROVE Input'
  <2>1. PICK c \in Clients : c = reading[r] BY <1>5 DEF TypeOK, ReadSome
  <2>2. PICK n : /\ n = IF Len(inbox[c]) <= InSize - Len(i_buffer[c])
                       THEN Len(inbox[c]) ELSE InSize - Len(i_buffer[c])
                 /\ i_buffer' = [i_buffer EXCEPT ![c] = @ \o SubSeq(inbox[c], 1, n)]
                 /\ inbox' = [inbox EXCEPT ![c] = SubSeq(inbox[c], n + 1, Len(inbox[c]))]
                 /\ UNCHANGED <<sent, message, handed, link>>
    BY <1>5, <2>1 DEF ReadSome
  <2>3. n \in 0 .. Len(inbox[c])
    <3>1. Len(inbox[c]) \in Nat /\ Len(i_buffer[c]) \in Nat BY <1>1, LenProperties
    <3>2. Len(i_buffer[c]) <= InSize /\ InSize \in Nat
      BY ServerAssumption DEF TypeOK
    <3>3. \A x, y \in Nat : y <= InSize =>
            (IF x <= InSize - y THEN x ELSE InSize - y) \in 0 .. x
      BY <3>2
    <3>4. QED BY <2>2, <3>1, <3>2, <3>3, Zenon
  <2>4. /\ i_buffer'[c] = i_buffer[c] \o SubSeq(inbox[c], 1, n)
        /\ inbox'[c] = SubSeq(inbox[c], n + 1, Len(inbox[c]))
    BY <2>2 DEF TypeOK
  <2>5. \A e \in Clients \ {c} : Same(e) BY <2>2 DEF Same, TypeOK
  <2>6. Accounts(link[c], sent[c], handed[c], message[c],
                 i_buffer[c] \o SubSeq(inbox[c], 1, n),
                 SubSeq(inbox[c], n + 1, Len(inbox[c])))
    BY <1>1, <2>3, ReadAccounts DEF InputOf
  <2>7. InputOf(c)' BY <2>2, <2>4, <2>6 DEF InputOf
  <2>8. QED BY <2>5, <2>7, OneChanges
<1>6. ASSUME NEW r \in Readers, ReadAgain(r) PROVE Input'
  <2>1. PICK c \in Clients : c = reading[r] BY <1>6 DEF TypeOK, ReadAgain
  <2>2. PICK k \in 0 .. Len(i_buffer[c]) :
          \E one \in Executed(message[c], SubSeq(i_buffer[c], 1, k)) :
          \E m \in Parsed(i_buffer[c], k, one) : Outcome(c, k, one, m)
    BY <1>6, <2>1 DEF ReadAgain, Outcome
  <2>3. PICK one \in Executed(message[c], SubSeq(i_buffer[c], 1, k)) :
          \E m \in Parsed(i_buffer[c], k, one) : Outcome(c, k, one, m)
    BY <2>2
  <2>4. PICK m \in Parsed(i_buffer[c], k, one) : Outcome(c, k, one, m)
    BY <2>3
  <2>5. PICK y : y = SubSeq(i_buffer[c], Cut(i_buffer[c], k, one) + 1, Len(i_buffer[c]))
    OBVIOUS
  <2>6. /\ Accounts(link[c], sent[c], handed[c], m, y, inbox[c])
        /\ Accounts(link[c], sent[c], handed[c] \o m.pieces, NewMessage, y, inbox[c])
    BY <1>1, <2>5, ParseAccounts DEF InputOf, Cat
  <2>7. UNCHANGED <<sent, inbox, link>> /\ i_buffer' = [i_buffer EXCEPT ![c] = y]
    BY <1>6, <2>4, <2>5 DEF ReadAgain, Outcome
  <2>8. i_buffer'[c] = y BY <2>7 DEF TypeOK
  <2>9. CASE /\ message' = [message EXCEPT ![c] = NewMessage]
             /\ handed' = [handed EXCEPT ![c] = @ \o m.pieces]
    <3>1. message'[c] = NewMessage /\ handed'[c] = handed[c] \o m.pieces
      BY <2>9 DEF TypeOK
    <3>2. \A e \in Clients \ {c} : Same(e) BY <2>7, <2>9 DEF Same, TypeOK
    <3>3. InputOf(c)' BY <2>6, <2>7, <2>8, <3>1 DEF InputOf
    <3>4. QED BY <3>2, <3>3, OneChanges
  <2>10. CASE message' = [message EXCEPT ![c] = m] /\ handed' = handed
    <3>1. message'[c] = m BY <2>10 DEF TypeOK
    <3>2. \A e \in Clients \ {c} : Same(e) BY <2>7, <2>10 DEF Same, TypeOK
    <3>3. InputOf(c)' BY <2>6, <2>7, <2>8, <2>10, <3>1 DEF InputOf
    <3>4. QED BY <3>2, <3>3, OneChanges
  <2>11. QED BY <2>4, <2>9, <2>10 DEF Outcome
<1>7. QED
  <2>1. CASE UNCHANGED vars BY <1>0, <2>1 DEF vars
  <2>2. ASSUME NEW c \in Clients, Accept(c) PROVE Input' BY <1>0, <2>2 DEF Accept
  <2>3. CASE AcceptNext BY <1>0, <2>3 DEF AcceptNext
  <2>4. ASSUME NEW r \in Readers,
               ReadSignal(r) \/ Take(r) \/ TakeMiss(r) \/ ReadEvent(r) \/ ReadEnd(r)
        PROVE  Input'
    BY <1>0, <2>4 DEF ReadSignal, Take, TakeMiss, ReadEvent, ReadEnd
  <2>5. ASSUME NEW w \in Workers, Worker(w) PROVE Input'
    BY <1>0, <2>5 DEF Worker, TakeLetter, Return, Defer, Resume, SetResponse, CutIntoFd, StoreIndex
  <2>6. QED BY <1>2, <1>3, <1>4, <1>5, <1>6, <2>1, <2>2, <2>3, <2>4, <2>5 DEF Next, Reader

-----------------------------------------------------------------------------
(* Turns *)

\* SoleAnswers, of one connection.
Sole(c) ==
  \A w \in Workers : /\ \A v \in Workers : Answering(v, c) /\ Answering(w, c) => v = w
                     /\ Storing(w, c) => written[w] <= Len(o_buffer[c])

\* What is kept of an o_buffer.
LEMMA KeptIdle ==
  ASSUME NEW c, \A w \in Workers : ~ Storing(w, c)
  PROVE  Kept(c) = o_buffer[c]
BY DEF Kept

LEMMA KeptIdleNext ==
  ASSUME NEW c, \A w \in Workers : ~ Storing(w, c)'
  PROVE  Kept(c)' = o_buffer'[c]
BY DEF Kept, Storing

LEMMA KeptStoring ==
  ASSUME NEW c, Sole(c), NEW w \in Workers, Storing(w, c)
  PROVE  Kept(c) = SubSeq(o_buffer[c], written[w] + 1, Len(o_buffer[c]))
<1>1. \A v \in Workers : Storing(v, c) => v = w BY DEF Sole, Storing, Answering
<1>2. (CHOOSE v \in Workers : Storing(v, c)) = w BY <1>1
<1>3. QED BY <1>2 DEF Kept

LEMMA KeptStoringNext ==
  ASSUME NEW c, Sole(c)', NEW w \in Workers, Storing(w, c)'
  PROVE  Kept(c)' = SubSeq(o_buffer'[c], written'[w] + 1, Len(o_buffer'[c]))
<1>1. \A v \in Workers : Storing(v, c)' => v = w BY DEF Sole, Storing, Answering
<1>2. (CHOOSE v \in Workers : Storing(v, c)') = w BY <1>1
<1>3. Kept(c)' = IF \E v \in Workers : Storing(v, c)'
                 THEN LET v == CHOOSE v \in Workers : Storing(v, c)'
                      IN  SubSeq(o_buffer'[c], written'[v] + 1, Len(o_buffer'[c]))
                 ELSE o_buffer'[c]
  BY DEF Kept
<1>4. QED BY <1>2, <1>3

LEMMA KeptSame ==
  ASSUME NEW c, Sole(c), Sole(c)', o_buffer'[c] = o_buffer[c],
         \A v \in Workers : /\ Storing(v, c)' <=> Storing(v, c)
                            /\ Storing(v, c) => written'[v] = written[v]
  PROVE  Kept(c)' = Kept(c)
<1>1. CASE \A v \in Workers : ~ Storing(v, c)
  BY <1>1, KeptIdle, KeptIdleNext
<1>2. ASSUME NEW v \in Workers, Storing(v, c) PROVE Kept(c)' = Kept(c)
  BY <1>2, KeptStoring, KeptStoringNext
<1>3. QED BY <1>1, <1>2

\* When no worker begins or ends to store.
LEMMA KeptFrame ==
  ASSUME NEW c, Sole(c), Sole(c)', UNCHANGED <<o_buffer, phase, serving, written>>
  PROVE  Kept(c)' = Kept(c)
BY KeptSame DEF Storing

\* What the turn of a client depends on, besides the calls.
SameData(c) ==
  /\ sent'[c] = sent[c] /\ Unparsed(c)' = Unparsed(c)
  /\ ~ message[c].completed => ~ message'[c].completed
  /\ ~ message[c].failed => ~ message'[c].failed
  /\ received'[c] = received[c] /\ Kept(c)' = Kept(c)

CallsKept(c) ==
  /\ NoCall(c) => NoCall(c)'
  /\ \A n \in Int : OneCall(c, n) => OneCall(c, n)'
  /\ Writing(c)' <=> Writing(c)

LEMMA TurnFrame ==
  ASSUME NEW c \in Clients, NEW n \in Int, InTurn(c, n), SameData(c), CallsKept(c)
  PROVE  InTurn(c, n)'
<1>1. /\ Requests(c)' = Requests(c) /\ Unparsed(c)' = Unparsed(c) /\ Replied(c)' = Replied(c)
      /\ MidRequest(c)' <=> MidRequest(c)
  BY DEF SameData, Requests, Replied, MidRequest
<1>2. (Underway(c, n) => Underway(c, n)') /\ (Settled(c, n) => Settled(c, n)')
  BY <1>1 DEF CallsKept, Underway, Settled
<1>3. InHands(c, n) => InHands(c, n)'
  BY <1>1 DEF CallsKept, InHands
<1>4. QED BY <1>1, <1>2, <1>3 DEF InTurn, SameData

\* Letters of other connections come, go and move up, and workers have other calls.
LEMMA CallsFrame ==
  ASSUME NEW c \in Clients, NEW k \in Int,
         \A v \in Workers :
           /\ Served(v, c)' <=> Served(v, c)
           /\ Served(v, c) => serving'[v] = serving[v] /\ phase'[v] = phase[v]
           /\ \A l : l.conn = c => (l \in deferred'[v] <=> l \in deferred[v]),
         \A i \in 1 .. Len(letters') : letters'[i].conn = c =>
           i + k \in 1 .. Len(letters) /\ letters'[i] = letters[i + k]
  PROVE  CallsKept(c)
<1>1. \A v \in Workers : Deferred(v, c)' <=> Deferred(v, c)
  BY DEF Deferred
<1>2. NoCall(c) => NoCall(c)'
  BY <1>1 DEF NoCall
<1>3. ASSUME NEW n \in Int, OneCall(c, n) PROVE OneCall(c, n)'
  <2>1. ASSUME NEW i \in 1 .. Len(letters'), letters'[i].conn = c
        PROVE  /\ About(letters'[i].pieces, n)
               /\ \A j \in 1 .. Len(letters') : letters'[j].conn = c => i = j
               /\ \A w \in Workers : ~ Served(w, c) /\ ~ Deferred(w, c)
    <3>1. i + k \in 1 .. Len(letters) /\ letters'[i] = letters[i + k] BY <2>1
    <3>2. ASSUME NEW j \in 1 .. Len(letters'), letters'[j].conn = c PROVE i = j
      <4>1. j + k \in 1 .. Len(letters) /\ letters'[j] = letters[j + k] BY <3>2
      <4>2. i + k = j + k BY <1>3, <2>1, <3>1, <3>2, <4>1 DEF OneCall
      <4>3. QED BY <4>2
    <3>3. QED BY <1>3, <2>1, <3>1, <3>2 DEF OneCall
  <2>2. ASSUME NEW w \in Workers
        PROVE  /\ Served(w, c)' => About(serving'[w].pieces, n) /\ ~ Deferred(w, c)'
               /\ \A l \in deferred'[w] : l.conn = c =>
                    About(l.pieces, n) /\ \A m \in deferred'[w] : m.conn = c => m = l
               /\ Served(w, c)' \/ Deferred(w, c)' =>
                    \A v \in Workers : Served(v, c)' \/ Deferred(v, c)' => v = w
    BY <1>1, <1>3 DEF OneCall
  <2>3. \A ps : About(ps, n)' <=> About(ps, n) BY DEF About
  <2>4. QED BY <1>1, <2>1, <2>2 DEF OneCall, About
<1>4. Writing(c)' <=> Writing(c)
  BY DEF Writing, Served
<1>5. QED BY <1>2, <1>3, <1>4 DEF CallsKept

LEMMA OtherCalls ==
  ASSUME NEW c \in Clients, letters' = letters,
         \A v \in Workers :
           /\ Served(v, c)' <=> Served(v, c)
           /\ Served(v, c) => serving'[v] = serving[v] /\ phase'[v] = phase[v]
           /\ \A l : l.conn = c => (l \in deferred'[v] <=> l \in deferred[v])
  PROVE  CallsKept(c)
<1>1. PICK k \in Int : k = 0 OBVIOUS
<1>2. \A i \in 1 .. Len(letters') : i + k \in 1 .. Len(letters) /\ letters'[i] = letters[i + k]
  <2>1. \A i \in 1 .. Len(letters') : i + k = i BY <1>1
  <2>2. QED BY <2>1
<1>3. QED BY <1>2, CallsFrame

\* The letter at the front, and the letters behind it.
LEMMA FrontLetter ==
  ASSUME TypeOK, letters # << >>, letters' = Tail(letters)
  PROVE  /\ 1 \in 1 .. Len(letters) /\ Head(letters) = letters[1] /\ Len(letters) \in Nat
         /\ Len(letters') = Len(letters) - 1
         /\ \A i \in 1 .. Len(letters') : i + 1 \in 1 .. Len(letters) /\ letters'[i] = letters[i + 1]
<1>1. letters \in Seq(Letters) BY DEF TypeOK
<1>2. QED BY <1>1, HeadTail

LEMMA TakeLetterCalls ==
  ASSUME TypeOK, NEW w \in Workers, TakeLetter(w), NEW c \in Clients
  PROVE  CallsKept(c)
<1> DEFINE l == Head(letters)
<1>1. /\ phase' = [phase EXCEPT ![w] = "call"] /\ serving' = [serving EXCEPT ![w] = l]
      /\ phase[w] = "idle" /\ deferred' = deferred
      /\ letters # << >> /\ letters' = Tail(letters)
  BY DEF TakeLetter
<1>2. /\ 1 \in 1 .. Len(letters) /\ l = letters[1] /\ Len(letters) \in Nat
      /\ Len(letters') = Len(letters) - 1
      /\ \A i \in 1 .. Len(letters') : i + 1 \in 1 .. Len(letters) /\ letters'[i] = letters[i + 1]
  BY <1>1, FrontLetter
<1> HIDE DEF l
<1>3. /\ phase'[w] = "call" /\ serving'[w] = l
      /\ \A v \in Workers \ {w} : phase'[v] = phase[v] /\ serving'[v] = serving[v]
  BY <1>1 DEF TypeOK
<1>4. CASE l.conn # c
  <2>1. \A v \in Workers :
           /\ Served(v, c)' <=> Served(v, c)
           /\ Served(v, c) => serving'[v] = serving[v] /\ phase'[v] = phase[v]
           /\ \A m : m.conn = c => (m \in deferred'[v] <=> m \in deferred[v])
    BY <1>1, <1>3, <1>4 DEF Served
  <2>2. PICK k \in Int : k = 1 OBVIOUS
  <2>3. \A i \in 1 .. Len(letters') : letters'[i].conn = c =>
           i + k \in 1 .. Len(letters) /\ letters'[i] = letters[i + k]
    BY <1>2, <2>2
  <2>4. QED BY <2>1, <2>3, CallsFrame
<1>5. CASE l.conn = c
  <2>1. ~ NoCall(c) BY <1>2, <1>5 DEF NoCall
  <2>2. ASSUME NEW n \in Int, OneCall(c, n) PROVE OneCall(c, n)' /\ ~ Writing(c)
    <3>1. /\ About(l.pieces, n) /\ \A j \in 1 .. Len(letters) : letters[j].conn = c => 1 = j
          /\ \A v \in Workers : ~ Served(v, c) /\ ~ Deferred(v, c)
      BY <1>2, <1>5, <2>2 DEF OneCall
    <3>2. \A i \in 1 .. Len(letters') : letters'[i].conn # c BY <1>2, <3>1
    <3>3. \A v \in Workers : ~ Deferred(v, c)' /\ (Served(v, c)' => v = w)
      BY <1>1, <1>3, <3>1 DEF Served, Deferred
    <3>4. \A v \in Workers : \A m \in deferred'[v] : m.conn # c BY <3>3 DEF Deferred
    <3>5. OneCall(c, n)' BY <1>3, <3>1, <3>2, <3>3, <3>4 DEF OneCall, About
    <3>6. ~ Writing(c) BY <3>1 DEF Writing, Served
    <3>7. QED BY <3>5, <3>6
  <2>3. Writing(c)' <=> Writing(c)
    BY <1>1, <1>3 DEF Writing
  <2>4. QED BY <2>1, <2>2, <2>3 DEF CallsKept
<1>6. QED BY <1>4, <1>5

LEMMA ReturnCalls ==
  ASSUME TypeOK, NEW w \in Workers, Return(w), NEW c \in Clients
  PROVE  CallsKept(c)
<1>1. /\ phase'[w] = "answer" /\ phase[w] = "call" /\ \A v \in Workers \ {w} : phase'[v] = phase[v]
      /\ UNCHANGED <<letters, serving, deferred>>
  BY DEF Return, Answer, TypeOK
<1>2. \A v \in Workers : (Served(v, c)' <=> Served(v, c)) /\ (Deferred(v, c)' <=> Deferred(v, c))
  BY <1>1 DEF Served, Deferred
<1>3. (Writing(c)' <=> Writing(c)) /\ (NoCall(c) => NoCall(c)')
  BY <1>1, <1>2 DEF Writing, NoCall
<1>4. \A n \in Int : OneCall(c, n) => OneCall(c, n)'
  BY <1>1, <1>2 DEF OneCall, About
<1>5. QED BY <1>3, <1>4 DEF CallsKept

LEMMA DeferCalls ==
  ASSUME TypeOK, NEW w \in Workers, Defer(w), NEW c \in Clients
  PROVE  CallsKept(c)
<1> DEFINE l == serving[w]
<1>1. /\ phase'[w] = "idle" /\ phase[w] = "call"
      /\ \A v \in Workers \ {w} : phase'[v] = phase[v] /\ serving'[v] = serving[v]
                                  /\ deferred'[v] = deferred[v]
      /\ deferred'[w] = deferred[w] \cup {l} /\ letters' = letters
  BY DEF Defer, TypeOK
<1> HIDE DEF l
<1>2. CASE l.conn # c
  <2>1. \A v \in Workers :
           /\ Served(v, c)' <=> Served(v, c)
           /\ Served(v, c) => serving'[v] = serving[v] /\ phase'[v] = phase[v]
           /\ \A m : m.conn = c => (m \in deferred'[v] <=> m \in deferred[v])
    BY <1>1, <1>2 DEF Served, l
  <2>2. QED BY <1>1, <2>1, OtherCalls
<1>3. CASE l.conn = c
  <2>1. Served(w, c) BY <1>1, <1>3 DEF Served, l
  <2>2. ~ NoCall(c) BY <2>1 DEF NoCall
  <2>3. ASSUME NEW n \in Int, OneCall(c, n) PROVE OneCall(c, n)'
    <3>1. /\ About(l.pieces, n) /\ ~ Deferred(w, c) /\ \A i \in 1 .. Len(letters) : letters[i].conn # c
          /\ \A v \in Workers : Served(v, c) \/ Deferred(v, c) => v = w
      BY <2>1, <2>3 DEF OneCall, l
    <3>2. \A v \in Workers : ~ Served(v, c)' /\ (Deferred(v, c)' => v = w)
      BY <1>1, <3>1 DEF Served, Deferred
    <3>3. \A v \in Workers : \A m \in deferred'[v] : m.conn = c => v = w /\ m = l
      BY <1>1, <3>1 DEF Deferred
    <3>4. QED BY <1>1, <3>1, <3>2, <3>3 DEF OneCall, About
  <2>4. Writing(c)' <=> Writing(c) BY <1>1 DEF Writing
  <2>5. QED BY <2>2, <2>3, <2>4 DEF CallsKept
<1>4. QED BY <1>2, <1>3

LEMMA ResumeCalls ==
  ASSUME TypeOK, NEW w \in Workers, Resume(w), NEW c \in Clients
  PROVE  CallsKept(c)
<1>1. PICK l \in deferred[w] : deferred' = [deferred EXCEPT ![w] = @ \ {l}]
                               /\ serving' = [serving EXCEPT ![w] = l]
  BY DEF Resume
<1>2. /\ phase'[w] = "answer" /\ phase[w] = "idle" /\ serving'[w] = l /\ l \in deferred[w]
      /\ \A v \in Workers \ {w} : phase'[v] = phase[v] /\ serving'[v] = serving[v]
                                  /\ deferred'[v] = deferred[v]
      /\ deferred'[w] = deferred[w] \ {l} /\ letters' = letters
  BY <1>1 DEF Resume, Answer, TypeOK
<1>3. CASE l.conn # c
  <2>1. \A v \in Workers :
           /\ Served(v, c)' <=> Served(v, c)
           /\ Served(v, c) => serving'[v] = serving[v] /\ phase'[v] = phase[v]
           /\ \A m : m.conn = c => (m \in deferred'[v] <=> m \in deferred[v])
    BY <1>2, <1>3 DEF Served
  <2>2. QED BY <1>2, <2>1, OtherCalls
<1>4. CASE l.conn = c
  <2>1. Deferred(w, c) BY <1>2, <1>4 DEF Deferred
  <2>2. ~ NoCall(c) BY <2>1 DEF NoCall
  <2>3. ASSUME NEW n \in Int, OneCall(c, n) PROVE OneCall(c, n)'
    <3>1. /\ About(l.pieces, n) /\ \A m \in deferred[w] : m.conn = c => m = l
          /\ \A i \in 1 .. Len(letters) : letters[i].conn # c
          /\ \A v \in Workers : Served(v, c) \/ Deferred(v, c) => v = w
      BY <1>2, <1>4, <2>1, <2>3 DEF OneCall
    <3>2. \A v \in Workers : (Served(v, c)' => v = w) /\ ~ Deferred(v, c)'
      BY <1>2, <3>1 DEF Served, Deferred
    <3>3. \A v \in Workers : \A m \in deferred'[v] : m.conn # c BY <3>2 DEF Deferred
    <3>4. QED BY <1>2, <3>1, <3>2, <3>3 DEF OneCall, About
  <2>4. Writing(c)' <=> Writing(c) BY <1>2 DEF Writing
  <2>5. QED BY <2>2, <2>3, <2>4 DEF CallsKept
<1>5. QED BY <1>3, <1>4

\* The next part of a reply goes behind the others.
LEMMA ReplyAdded ==
  ASSUME NEW rs \in Seq(Replies), OneByOne(rs), NEW n \in Int, NEW l, About(l.pieces, n),
         NEW part, NEW p \in Replies, p = Reply(l, part),
         \/ part = "first" /\ Len(rs) = 2 * n - 2
         \/ part = "second" /\ Len(rs) = 2 * n - 1
  PROVE  OneByOne(Append(rs, p))
<1>1. /\ Len(rs) \in Nat /\ Len(Append(rs, p)) = Len(rs) + 1
      /\ \A i \in 1 .. Len(rs) : Append(rs, p)[i] = rs[i]
      /\ Append(rs, p)[Len(rs) + 1] = p
  BY AppendProperties, LenProperties
<1>2. p.part = part /\ p.of = l.pieces
  BY DEF Reply
<1>3. part = "first" => (Len(rs) + 1) % 2 = 1 /\ (Len(rs) + 2) \div 2 = n
  BY <1>1
<1>4. part = "second" => (Len(rs) + 1) % 2 # 1 /\ (Len(rs) + 2) \div 2 = n
  BY <1>1
<1>5. ASSUME NEW i \in 1 .. Len(rs) + 1
      PROVE  /\ Append(rs, p)[i].part = IF i % 2 = 1 THEN "first" ELSE "second"
             /\ About(Append(rs, p)[i].of, (i + 1) \div 2)
  <2>1. CASE i \in 1 .. Len(rs)
    BY <1>1, <2>1 DEF OneByOne
  <2>2. CASE i = Len(rs) + 1
    <3>1. i + 1 = Len(rs) + 2 BY <1>1, <2>2
    <3>2. (i + 1) \div 2 = n /\ part = IF i % 2 = 1 THEN "first" ELSE "second"
      BY <1>3, <1>4, <2>2, <3>1
    <3>3. QED BY <1>1, <1>2, <2>2, <3>2
  <2>3. QED BY <1>1, <2>1, <2>2
<1>6. QED BY <1>1, <1>5 DEF OneByOne

\* Sequences of replies, as of pieces.
LEMMA RepliedFacts ==
  ASSUME TypeOK, NEW c \in Clients, Sole(c)
  PROVE  /\ received[c] \in Seq(Replies) /\ Kept(c) \in Seq(Replies)
         /\ Replied(c) \in Seq(Replies)
         /\ Len(received[c]) \in Nat /\ Len(Kept(c)) \in Nat
         /\ Len(Replied(c)) = Len(received[c]) + Len(Kept(c))
         /\ \A p \in Replies : received[c] \o Append(Kept(c), p) = Append(Replied(c), p)
<1>0. received[c] \in Seq(Replies) /\ o_buffer[c] \in Seq(Replies) /\ Len(o_buffer[c]) \in Nat
  BY LenProperties DEF TypeOK
<1>1. Kept(c) \in Seq(Replies)
  <2>1. CASE \A w \in Workers : ~ Storing(w, c) BY <1>0, <2>1, KeptIdle
  <2>2. ASSUME NEW w \in Workers, Storing(w, c) PROVE Kept(c) \in Seq(Replies)
    <3>1. Kept(c) = SubSeq(o_buffer[c], written[w] + 1, Len(o_buffer[c])) BY <2>2, KeptStoring
    <3>2. written[w] \in 0 .. Len(o_buffer[c])
      BY <1>0, <2>2, ServerAssumption DEF Sole, TypeOK
    <3>3. QED BY <1>0, <3>1, <3>2, SplitAt
  <2>3. QED BY <2>1, <2>2
<1>2. /\ Replied(c) \in Seq(Replies) /\ Len(Replied(c)) = Len(received[c]) + Len(Kept(c))
  BY <1>0, <1>1, ConcatProperties DEF Replied
<1>3. ASSUME NEW a \in Seq(Replies), NEW b \in Seq(Replies), NEW p \in Replies
      PROVE  a \o Append(b, p) = Append(a \o b, p)
  <2>1. << p >> \in Seq(Replies) /\ a \o b \in Seq(Replies) OBVIOUS
  <2>2. Append(b, p) = b \o << p >> /\ Append(a \o b, p) = (a \o b) \o << p >>
    BY <2>1, AppendIsConcat
  <2>3. QED BY <2>1, <2>2, ConcatAssociative
<1>4. QED BY <1>0, <1>1, <1>2, <1>3, LenProperties DEF Replied

\* The worker that answers a client which waits has it to itself.
LEMMA ServedTurn ==
  ASSUME NEW c \in Clients, NEW n \in Int, InTurn(c, n), NEW w \in Workers, Served(w, c)
  PROVE  /\ InHands(c, n) /\ About(serving[w].pieces, n)
         /\ ~ Deferred(w, c)
         /\ \A i \in 1 .. Len(letters) : letters[i].conn # c
         /\ \A v \in Workers \ {w} : ~ Served(v, c) /\ ~ Deferred(v, c)
<1>1. InHands(c, n)
  BY DEF InTurn, Underway, Settled, NoCall
<1>2. OneCall(c, n)
  BY <1>1 DEF InHands
<1>3. QED BY <1>1, <1>2 DEF OneCall

LEMMA SetResponseTurn ==
  ASSUME TypeOK, NEW w \in Workers, SetResponse(w),
         NEW c \in Clients, Sole(c), Sole(c)', NEW n \in Int, InTurn(c, n)
  PROVE  InTurn(c, n)'
<1> DEFINE d == serving[w].conn
           p == Reply(serving[w], "first")
<1>1. /\ phase[w] = "answer" /\ phase'[w] = "write"
      /\ \A v \in Workers \ {w} : phase'[v] = phase[v]
      /\ UNCHANGED <<letters, serving, written, deferred, received, sent, inbox, i_buffer, message>>
      /\ serving[w] \in Letters /\ d \in Clients /\ p \in Replies
  BY DEF SetResponse, TypeOK, clients, readers, Letters, Replies, Reply
<1>2. PICK buf \in Appended(w, d, p) : o_buffer' = [o_buffer EXCEPT ![d] = buf]
  BY DEF SetResponse
<1>3. Unparsed(c)' = Unparsed(c) /\ (MidRequest(c)' <=> MidRequest(c)) /\ Requests(c)' = Requests(c)
  BY <1>1 DEF Unparsed, MidRequest, Requests
<1>4. CASE d # c
  <2>1. o_buffer'[c] = o_buffer[c] BY <1>1, <1>2, <1>4 DEF TypeOK
  <2>2. SameData(c)
    <3>1. \A v \in Workers : Storing(v, c)' <=> Storing(v, c) BY <1>1 DEF Storing
    <3>2. Kept(c)' = Kept(c) BY <1>1, <2>1, <3>1, KeptSame
    <3>3. QED BY <1>1, <1>3, <3>2 DEF SameData
  <2>3. \A v \in Workers :
           /\ Served(v, c)' <=> Served(v, c)
           /\ Served(v, c) => serving'[v] = serving[v] /\ phase'[v] = phase[v]
           /\ \A l : l.conn = c => (l \in deferred'[v] <=> l \in deferred[v])
    BY <1>1, <1>4 DEF Served
  <2>4. CallsKept(c) BY <1>1, <2>3, OtherCalls
  <2>5. QED BY <2>2, <2>4, TurnFrame
<1>5. CASE d = c
  <2>1. Served(w, c) BY <1>1, <1>5 DEF Served
  <2>2. /\ InHands(c, n) /\ About(serving[w].pieces, n)
        /\ \A v \in Workers \ {w} : ~ Served(v, c) /\ ~ Deferred(v, c)
    BY <2>1, ServedTurn
  <2>3. ~ Writing(c) /\ Writing(c)'
    BY <1>1, <1>5, <2>2 DEF Writing, Served
  <2>4. Len(Replied(c)) = 2 * n - 2 /\ Len(received[c]) >= 2 * n - 2 /\ OneByOne(Replied(c))
    BY <2>2, <2>3 DEF InHands, InTurn
  <2>5. Kept(c) = o_buffer[c] /\ Kept(c)' = o_buffer'[c]
    <3>1. \A v \in Workers : v # w => ~ Answering(v, c)
      BY <1>1, <1>5 DEF Sole, Answering
    <3>2. \A v \in Workers : ~ Storing(v, c) /\ ~ Storing(v, c)'
      BY <1>1, <3>1 DEF Storing, Answering
    <3>3. QED BY <3>2, KeptIdle, KeptIdleNext
  <2>6. buf = Append(o_buffer[c], p)
    <3>1. /\ Len(received[c]) \in Nat /\ Len(o_buffer[c]) \in Nat
          /\ Len(Replied(c)) = Len(received[c]) + Len(o_buffer[c])
      BY <2>5, RepliedFacts
    <3>2. OutSize \in Nat \ {0} BY ServerAssumption
    <3>3. \A r, o \in Nat : \A z \in Int : r + o = z /\ r >= z => o = 0
      OBVIOUS
    <3>4. 2 * n - 2 \in Int OBVIOUS
    <3>5. Len(o_buffer[c]) = 0 BY <2>4, <3>1, <3>3, <3>4
    <3>6. Len(o_buffer[c]) < OutSize BY <3>2, <3>5
    <3>7. ~ \E v \in Workers \ {w} : Answering(v, c) /\ ~ Storing(v, c)
      BY <1>1, <1>5 DEF Sole, Answering
    <3>8. QED BY <1>2, <1>5, <3>6, <3>7 DEF Appended
  <2> HIDE DEF p
  <2>7. o_buffer'[c] = Append(o_buffer[c], p)
    BY <1>2, <1>5, <2>6 DEF TypeOK
  <2>8. Replied(c)' = Append(Replied(c), p)
    BY <1>1, <2>5, <2>7, RepliedFacts DEF Replied
  <2>9. OneByOne(Replied(c)')
    BY <1>1, <2>2, <2>4, <2>8, RepliedFacts, ReplyAdded DEF p
  <2>10. Len(Replied(c)') = 2 * n - 1
    BY <1>1, <2>4, <2>8, RepliedFacts, AppendProperties
  <2>11. OneCall(c, n)'
    <3>1. OneCall(c, n) BY <2>2 DEF InHands
    <3>2. \A v \in Workers : (Served(v, c)' <=> Served(v, c)) /\ (Deferred(v, c)' <=> Deferred(v, c))
      BY <1>1 DEF Served, Deferred
    <3>3. QED BY <1>1, <3>1, <3>2 DEF OneCall, About
  <2>12. InHands(c, n)'
    BY <1>3, <2>2, <2>3, <2>10, <2>11 DEF InHands
  <2>13. OneByOne(Replied(c))' BY <2>9 DEF OneByOne, About
  <2>14. QED BY <1>1, <1>3, <2>12, <2>13 DEF InTurn
<1>6. QED BY <1>4, <1>5

LEMMA RepliesAssociative ==
  \A a, b, e \in Seq(Replies) : (a \o b) \o e = a \o (b \o e)
BY ConcatAssociative

LEMMA CutIntoFdTurn ==
  ASSUME TypeOK, Held, NEW w \in Workers, CutIntoFd(w),
         NEW c \in Clients, Sole(c), Sole(c)', NEW n \in Int, InTurn(c, n)
  PROVE  InTurn(c, n)'
<1> DEFINE d == serving[w].conn
           p == Reply(serving[w], "second")
<1>1. /\ phase[w] = "write" /\ phase'[w] = "store"
      /\ \A v \in Workers \ {w} : phase'[v] = phase[v]
      /\ UNCHANGED <<letters, serving, deferred, sent, inbox, i_buffer, message>>
      /\ serving[w] \in Letters /\ d \in Clients /\ p \in Replies
  BY DEF CutIntoFd, TypeOK, clients, readers, Letters, Replies, Reply
<1>2. PICK buf \in Appended(w, d, p) : \E k \in 0 .. Len(buf) : Written(w, d, buf, k)
  BY CutWrites
<1>3. PICK k \in 0 .. Len(buf) : Written(w, d, buf, k)
  BY <1>2
<1>4. fds[fd[d]] = d
  <2>1. d \in Referenced BY <1>1 DEF Referenced
  <2>2. QED BY <2>1 DEF Held
<1>5. buf \in Seq(Replies) BY <1>1, <1>2, AppendedType
<1> DEFINE x == SubSeq(buf, 1, k)
           y == SubSeq(buf, k + 1, Len(buf))
<1>6. x \in Seq(Replies) /\ y \in Seq(Replies) /\ x \o y = buf /\ (k = 0 => x = << >>)
  <2>1. x \in Seq(Replies) /\ y \in Seq(Replies) /\ x \o y = buf BY <1>3, <1>5, SplitAt
  <2>2. k = 0 => x = << >> BY <1>5, EmptySeq
  <2>3. QED BY <2>1, <2>2
<1>7. /\ o_buffer' = [o_buffer EXCEPT ![d] = buf] /\ written' = [written EXCEPT ![w] = k]
      /\ received' = IF k = 0 THEN received ELSE [received EXCEPT ![d] = @ \o x]
  BY <1>3, <1>4 DEF Written
<1>8. Unparsed(c)' = Unparsed(c) /\ (MidRequest(c)' <=> MidRequest(c)) /\ Requests(c)' = Requests(c)
  BY <1>1 DEF Unparsed, MidRequest, Requests
<1> HIDE DEF x, y
<1>9. CASE d # c
  <2>1. o_buffer'[c] = o_buffer[c] /\ received'[c] = received[c]
    BY <1>1, <1>7, <1>9 DEF TypeOK
  <2>2. SameData(c)
    <3>1. \A v \in Workers : /\ Storing(v, c)' <=> Storing(v, c)
                             /\ Storing(v, c) => written'[v] = written[v]
      BY <1>1, <1>7, <1>9 DEF Storing, TypeOK
    <3>2. Kept(c)' = Kept(c) BY <2>1, <3>1, KeptSame
    <3>3. QED BY <1>1, <1>8, <2>1, <3>2 DEF SameData
  <2>3. \A v \in Workers :
           /\ Served(v, c)' <=> Served(v, c)
           /\ Served(v, c) => serving'[v] = serving[v] /\ phase'[v] = phase[v]
           /\ \A l : l.conn = c => (l \in deferred'[v] <=> l \in deferred[v])
    BY <1>1, <1>9 DEF Served
  <2>4. CallsKept(c) BY <1>1, <2>3, OtherCalls
  <2>5. QED BY <2>2, <2>4, TurnFrame
<1>10. CASE d = c
  <2>1. Served(w, c) BY <1>1, <1>10 DEF Served
  <2>2. /\ InHands(c, n) /\ About(serving[w].pieces, n) /\ ~ Deferred(w, c)
        /\ \A i \in 1 .. Len(letters) : letters[i].conn # c
        /\ \A v \in Workers \ {w} : ~ Served(v, c) /\ ~ Deferred(v, c)
    BY <2>1, ServedTurn
  <2>3. Writing(c)
    BY <1>1, <1>10 DEF Writing
  <2>4. Len(Replied(c)) = 2 * n - 1 /\ Len(received[c]) >= 2 * n - 2 /\ OneByOne(Replied(c))
    BY <2>2, <2>3 DEF InHands, InTurn
  <2>5. buf = Append(o_buffer[c], p) \/ buf = o_buffer[c]
    <3>1. ~ \E v \in Workers \ {w} : Answering(v, c) /\ ~ Storing(v, c)
      BY <1>1, <1>10 DEF Sole, Answering
    <3>2. QED BY <1>2, <1>10, <3>1 DEF Appended
  <2> HIDE DEF p
  <2>6. Kept(c) = o_buffer[c] /\ Kept(c)' = y /\ received'[c] = received[c] \o x
    <3>1. received[c] \o << >> = received[c] BY RepliedFacts, ConcatEmptySeq
    <3>2. \A v \in Workers : ~ Storing(v, c)
      BY <1>1, <1>10 DEF Sole, Storing, Answering
    <3>3. Storing(w, c)' BY <1>1, <1>10 DEF Storing
    <3>4. o_buffer'[c] = buf /\ written'[w] = k BY <1>1, <1>7, <1>10 DEF TypeOK
    <3>5. Kept(c)' = y BY <3>3, <3>4, KeptStoringNext DEF y
    <3>6. QED BY <1>1, <1>6, <1>7, <1>10, <3>1, <3>2, <3>5, KeptIdle DEF TypeOK
  <2>7. /\ Replied(c)' = received[c] \o buf
        /\ Len(received'[c]) >= Len(received[c])
    <3>1. received[c] \in Seq(Replies) /\ Len(received[c]) \in Nat BY RepliedFacts
    <3>2. (received[c] \o x) \o y = received[c] \o (x \o y)
      <4>1. \A a, b, e \in Seq(Replies) : (a \o b) \o e = a \o (b \o e)
        BY RepliesAssociative
      <4>2. QED BY <1>6, <3>1, <4>1, Zenon
    <3>3. Len(received[c] \o x) = Len(received[c]) + Len(x) /\ Len(x) \in Nat
      BY <1>6, <3>1, ConcatProperties, LenProperties
    <3>4. QED BY <1>6, <2>6, <3>1, <3>2, <3>3 DEF Replied
  <2>8. Replied(c)' = Append(Replied(c), p) \/ Replied(c)' = Replied(c)
    BY <1>1, <2>5, <2>6, <2>7, RepliedFacts DEF Replied
  <2>9. OneByOne(Append(Replied(c), p)) /\ Len(Append(Replied(c), p)) = 2 * n
    <3>1. OneByOne(Append(Replied(c), p))
      BY <1>1, <2>2, <2>4, RepliedFacts, ReplyAdded DEF p
    <3>2. Len(Append(Replied(c), p)) = Len(Replied(c)) + 1
      BY <1>1, RepliedFacts, AppendProperties
    <3>3. QED BY <2>4, <3>1, <3>2
  <2>10. OneByOne(Replied(c)') /\ Len(Replied(c)') <= 2 * n
    <3>1. CASE Replied(c)' = Replied(c) BY <2>4, <3>1
    <3>2. CASE Replied(c)' = Append(Replied(c), p)
      <4>1. OneByOne(Replied(c)') /\ Len(Replied(c)') = 2 * n BY <2>9, <3>2, Zenon
      <4>2. QED BY <4>1
    <3>3. QED BY <2>8, <3>1, <3>2
  <2>11. NoCall(c)'
    BY <1>1, <2>2 DEF NoCall, Served, Deferred
  <2>12. Settled(c, n)'
    BY <1>8, <2>2, <2>10, <2>11 DEF Settled, InHands
  <2>13. OneByOne(Replied(c))' BY <2>10 DEF OneByOne, About
  <2>14. Len(received'[c]) >= 2 * n - 2
    <3>0. received[c] \in Seq(Replies) BY RepliedFacts
    <3>1. Len(received[c]) \in Nat /\ Len(received'[c]) \in Nat
      <4>1. received'[c] \in Seq(Replies)
        <5>1. \A a, b \in Seq(Replies) : a \o b \in Seq(Replies) BY ConcatProperties
        <5>2. QED BY <1>6, <2>6, <3>0, <5>1, Zenon
      <4>2. QED BY <4>1, RepliedFacts, LenProperties
    <3>2. QED BY <2>4, <2>7, <3>1
  <2>15. QED BY <1>1, <1>8, <2>12, <2>13, <2>14 DEF InTurn
<1>11. QED BY <1>9, <1>10

\* Adding to _read_index takes away what writev has taken.
LEMMA StoreIndexTurn ==
  ASSUME TypeOK, NEW w \in Workers, StoreIndex(w),
         NEW c \in Clients, Sole(c), Sole(c)', NEW n \in Int, InTurn(c, n)
  PROVE  InTurn(c, n)'
<1> DEFINE d == serving[w].conn
<1>1. /\ phase[w] = "store" /\ phase'[w] = "idle"
      /\ \A v \in Workers \ {w} : /\ phase'[v] = phase[v] /\ serving'[v] = serving[v]
                                  /\ written'[v] = written[v]
      /\ UNCHANGED <<letters, deferred, sent, received, inbox, i_buffer, message>>
      /\ d \in Clients
  BY DEF StoreIndex, TypeOK, clients, readers, Letters
<1>2. PICK buf \in {Advanced(o_buffer[d], written[w])} \cup
                   (IF \E v \in Workers \ {w} : Storing(v, d) /\ written[v] > 0
                    THEN {o_buffer[d]} ELSE {}) :
        o_buffer' = [o_buffer EXCEPT ![d] = buf]
  BY DEF StoreIndex
<1>3. Kept(c)' = Kept(c)
  <2>1. CASE d # c
    <3>1. o_buffer'[c] = o_buffer[c] BY <1>1, <1>2, <2>1 DEF TypeOK
    <3>2. \A v \in Workers : /\ Storing(v, c)' <=> Storing(v, c)
                             /\ Storing(v, c) => written'[v] = written[v]
      BY <1>1, <2>1 DEF Storing
    <3>3. QED BY <3>1, <3>2, KeptSame
  <2>2. CASE d = c
    <3>1. Storing(w, c) /\ \A v \in Workers : Storing(v, c) => v = w
      BY <1>1, <2>2 DEF Sole, Storing, Answering
    <3>2. written[w] <= Len(o_buffer[c]) BY <3>1 DEF Sole
    <3>3. buf = SubSeq(o_buffer[c], written[w] + 1, Len(o_buffer[c]))
      BY <1>2, <2>2, <3>1, <3>2 DEF Advanced
    <3>4. o_buffer'[c] = buf BY <1>1, <1>2, <2>2 DEF TypeOK
    <3>5. \A v \in Workers : ~ Storing(v, c)'
      BY <1>1, <3>1 DEF Storing
    <3>6. QED BY <3>1, <3>3, <3>4, <3>5, KeptStoring, KeptIdleNext
  <2>3. QED BY <2>1, <2>2
<1>4. SameData(c) BY <1>1, <1>3 DEF SameData, Unparsed
<1>5. \A v \in Workers :
        /\ Served(v, c)' <=> Served(v, c)
        /\ Served(v, c) => serving'[v] = serving[v] /\ phase'[v] = phase[v]
        /\ \A l : l.conn = c => (l \in deferred'[v] <=> l \in deferred[v])
  BY <1>1 DEF Served
<1>6. CallsKept(c) BY <1>1, <1>5, OtherCalls
<1>7. QED BY <1>4, <1>6, TurnFrame

\* What has been received comes first in what has been replied.
LEMMA ReceivedInOrder ==
  ASSUME TypeOK, NEW c \in Clients, Sole(c), OneByOne(Replied(c))
  PROVE  OneByOne(received[c])
<1>1. received[c] \in Seq(Replies) /\ Kept(c) \in Seq(Replies)
  BY RepliedFacts
<1>2. \A a, b \in Seq(Replies) :
        \A i \in 1 .. Len(a) : i \in 1 .. Len(a \o b) /\ (a \o b)[i] = a[i]
  <2>1. SUFFICES ASSUME NEW a \in Seq(Replies), NEW b \in Seq(Replies), NEW i \in 1 .. Len(a)
                 PROVE  i \in 1 .. Len(a \o b) /\ (a \o b)[i] = a[i]
    OBVIOUS
  <2>2. Len(a) \in Nat /\ Len(b) \in Nat BY LenProperties
  <2>3. Len(a \o b) = Len(a) + Len(b)
        /\ \A j \in 1 .. Len(a) + Len(b) : (a \o b)[j] = IF j <= Len(a) THEN a[j] ELSE b[j - Len(a)]
    BY ConcatProperties
  <2>4. QED BY <2>2, <2>3
<1>3. \A i \in 1 .. Len(received[c]) :
        i \in 1 .. Len(Replied(c)) /\ Replied(c)[i] = received[c][i]
  BY <1>1, <1>2, Zenon DEF Replied
<1>4. QED BY <1>3 DEF OneByOne

\* A client that has got the answers to n requests has got 2 n parts.
LEMMA AnswersReceived ==
  ASSUME TypeOK, NEW c \in Clients, Sole(c), OneByOne(received[c]),
         NEW n \in Nat, n <= Cardinality(Answered(c))
  PROVE  Len(received[c]) >= 2 * n
<1>1. SUFFICES ASSUME Len(received[c]) < 2 * n PROVE FALSE
  <2>1. Len(received[c]) \in Nat BY RepliedFacts
  <2>2. QED BY <1>1, <2>1
<1> DEFINE f == [i \in Answered(c) |-> i \div 2]
<1>2. Len(received[c]) \in Nat BY RepliedFacts
<1>3. \A i \in Answered(c) : i \in 1 .. Len(received[c]) /\ i % 2 # 1
  BY DEF Answered, OneByOne
<1>4. \A i \in Answered(c) : i \in Nat /\ i = 2 * (i \div 2) /\ i \div 2 \in 1 .. n - 1
  BY <1>1, <1>2, <1>3
<1>5. f \in Injection(Answered(c), 1 .. n - 1)
  <2>1. f \in [Answered(c) -> 1 .. n - 1] BY <1>4
  <2>2. \A i, j \in Answered(c) : f[i] = f[j] => i = j
    <3>1. SUFFICES ASSUME NEW i \in Answered(c), NEW j \in Answered(c), f[i] = f[j] PROVE i = j
      OBVIOUS
    <3>2. i \div 2 = j \div 2 BY <3>1
    <3>3. QED BY <1>4, <3>2
  <2>3. QED BY <2>1, <2>2 DEF Injection, IsInjective
<1> HIDE DEF f
<1>6. IsFiniteSet(1 .. n - 1) /\ Cardinality(1 .. n - 1) = IF 1 > n - 1 THEN 0 ELSE n - 1 - 1 + 1
  <2>1. 1 \in Int /\ n - 1 \in Int OBVIOUS
  <2>2. QED BY <2>1, FS_Interval
<1>7. Cardinality(Answered(c)) <= Cardinality(1 .. n - 1) /\ IsFiniteSet(Answered(c))
  BY <1>5, <1>6, FS_Injection
<1>8. Cardinality(Answered(c)) \in Nat BY <1>7, FS_CardinalityType
<1>9. n >= 1 BY <1>1, <1>2
<1>10. Cardinality(1 .. n - 1) = n - 1 BY <1>6, <1>9
<1>11. QED BY <1>7, <1>8, <1>10

\* What a client that waits sends next.
LEMMA NextOfWaiting ==
  ASSUME TypeOK, NEW c \in Clients \ Hasty, Sole(c),
         NEW n \in 0 .. MaxRequests, InTurn(c, n),
         NEW p \in NextPieces(c)
  PROVE  \/ MidRequest(c) /\ p = [req |-> n, last |-> TRUE]
         \/ /\ ~ MidRequest(c) /\ n < MaxRequests /\ Len(received[c]) >= 2 * n
            /\ \E b \in BOOLEAN : p = [req |-> n + 1, last |-> b]
<1>1. Cardinality(Requests(c)) = n
  <2>1. Requests(c) = 1 .. n /\ n \in Nat BY ServerAssumption DEF InTurn
  <2>2. Cardinality(1 .. n) = IF 1 > n THEN 0 ELSE n - 1 + 1
    <3>1. 1 \in Int /\ n \in Int BY <2>1
    <3>2. QED BY <3>1, FS_Interval
  <2>3. QED BY <2>1, <2>2
<1>2. CASE MidRequest(c)
  BY <1>1, <1>2 DEF NextPieces
<1>3. CASE ~ MidRequest(c)
  <2>1. /\ n < MaxRequests /\ n <= Cardinality(Answered(c))
        /\ \E b \in BOOLEAN : p = [req |-> n + 1, last |-> b]
    BY <1>1, <1>3 DEF NextPieces
  <2>2. OneByOne(received[c]) BY ReceivedInOrder DEF InTurn
  <2>3. n \in Nat BY ServerAssumption
  <2>4. Len(received[c]) >= 2 * n BY <2>1, <2>2, <2>3, AnswersReceived
  <2>5. QED BY <1>3, <2>1, <2>4
<1>4. QED BY <1>2, <1>3

\* What is not parsed is what is in the message, in the i_buffer and in the kernel.
LEMMA UnparsedFacts ==
  ASSUME TypeOK, NEW c \in Clients
  PROVE  /\ message[c].pieces \in Seq(Pieces) /\ i_buffer[c] \in Seq(Pieces)
         /\ inbox[c] \in Seq(Pieces)
         /\ Unparsed(c) = Cat(Cat(message[c].pieces, i_buffer[c]), inbox[c])
         /\ Unparsed(c) \in Seq(Pieces) /\ Len(Unparsed(c)) \in Nat
<1>1. message[c] \in Messages /\ i_buffer[c] \in Seq(Pieces) /\ inbox[c] \in Seq(Pieces)
  BY DEF TypeOK
<1>2. message[c].pieces \in Seq(Pieces)
  BY <1>1 DEF Messages
<1>3. Unparsed(c) = Cat(Cat(message[c].pieces, i_buffer[c]), inbox[c])
  BY DEF Unparsed, Cat
<1>4. Cat(Cat(message[c].pieces, i_buffer[c]), inbox[c]) \in Seq(Pieces)
  BY <1>1, <1>2, CatFacts
<1>5. QED BY <1>1, <1>2, <1>3, <1>4, LenProperties

\* Steps of the other parts of the program.
LEMMA OtherTurn ==
  ASSUME NEW c \in Clients, Sole(c), Sole(c)', NEW n \in Int, InTurn(c, n),
         sent'[c] = sent[c], message'[c] = message[c], i_buffer'[c] = i_buffer[c],
         inbox'[c] = inbox[c], UNCHANGED <<received, letters, workers>>
  PROVE  InTurn(c, n)'
<1>1. SameData(c) BY KeptFrame DEF SameData, Unparsed, workers
<1>2. CallsKept(c) BY OtherCalls DEF workers, Served
<1>3. QED BY <1>1, <1>2, TurnFrame

LEMMA SendTurn ==
  ASSUME TypeOK, TypeOK', NEW d \in Clients, Send(d),
         NEW c \in Clients \ Hasty, Sole(c), Sole(c)',
         NEW n \in 0 .. MaxRequests, InTurn(c, n)
  PROVE  \E k \in 0 .. MaxRequests : InTurn(c, k)'
<1>0. n \in Int /\ n \in Nat BY ServerAssumption
<1>1. PICK p \in NextPieces(d) : /\ sent' = [sent EXCEPT ![d] = Append(@, p)]
                                 /\ inbox' = [inbox EXCEPT ![d] = Append(@, p)]
  BY DEF Send
<1>2. UNCHANGED <<received, letters, workers, message, i_buffer>>
  BY DEF Send, readers
<1>3. CASE d # c
  <2>1. sent'[c] = sent[c] /\ inbox'[c] = inbox[c] BY <1>1, <1>3 DEF TypeOK
  <2>2. InTurn(c, n)' BY <1>0, <1>2, <2>1, OtherTurn
  <2>3. QED BY <2>2
<1>4. CASE d = c
  <2>1. p \in Pieces BY NextPiecesType
  <2>2. sent'[c] = Append(sent[c], p) /\ inbox'[c] = Append(inbox[c], p)
    BY <1>1, <1>4 DEF TypeOK
  <2>3. \/ MidRequest(c) /\ p = [req |-> n, last |-> TRUE]
        \/ /\ ~ MidRequest(c) /\ n < MaxRequests /\ Len(received[c]) >= 2 * n
           /\ \E b \in BOOLEAN : p = [req |-> n + 1, last |-> b]
    BY <1>4, NextOfWaiting
  <2>4. /\ sent[c] \in Seq(Pieces) /\ Len(sent[c]) \in Nat /\ Len(sent'[c]) = Len(sent[c]) + 1
        /\ \A i \in 1 .. Len(sent[c]) : sent'[c][i] = sent[c][i]
        /\ sent'[c][Len(sent[c]) + 1] = p
    <3>1. PICK q : q = sent[c] OBVIOUS
    <3>2. q \in Seq(Pieces) BY <3>1 DEF TypeOK
    <3>3. /\ Len(q) \in Nat /\ Len(Append(q, p)) = Len(q) + 1
          /\ \A i \in 1 .. Len(q) : Append(q, p)[i] = q[i]
          /\ Append(q, p)[Len(q) + 1] = p
      BY <2>1, <3>2, AppendProperties, LenProperties
    <3>4. QED BY <2>2, <3>1, <3>2, <3>3
  <2>5. p.req # 0 /\ p # Rejected
    <3>1. p.req # 0
      <4>1. n > 0 \/ ~ MidRequest(c)
        BY <1>0 DEF InTurn, Underway, InHands, Settled
      <4>2. QED BY <1>0, <2>3, <4>1
    <3>2. QED BY <3>1 DEF Rejected
  <2>6. Requests(c)' = Requests(c) \cup {p.req}
    <3>1. Requests(c)' = {sent'[c][i].req : i \in 1 .. Len(sent'[c])} \ {0}
      BY DEF Requests
    <3>2. PICK s, t, k : s = sent[c] /\ t = sent'[c] /\ k = Len(sent[c]) OBVIOUS
    <3>3. /\ k \in Nat /\ Len(s) = k /\ Len(t) = k + 1 /\ t[k + 1] = p
          /\ \A i \in 1 .. k : t[i] = s[i]
      BY <2>4, <3>2
    <3>4. 1 .. k + 1 = (1 .. k) \cup {k + 1} BY <3>3
    <3>5. {t[i].req : i \in 1 .. Len(t)} = {s[i].req : i \in 1 .. Len(s)} \cup {p.req}
      <4>1. {t[i].req : i \in 1 .. k + 1} = {t[i].req : i \in 1 .. k} \cup {t[k + 1].req}
        BY <3>4, Zenon
      <4>2. {t[i].req : i \in 1 .. k} = {s[i].req : i \in 1 .. k}
        BY <3>3
      <4>3. QED BY <3>3, <4>1, <4>2
    <3>6. Requests(c) = {s[i].req : i \in 1 .. Len(s)} \ {0} BY <3>2 DEF Requests
    <3>7. Requests(c)' = {t[i].req : i \in 1 .. Len(t)} \ {0} BY <3>1, <3>2
    <3>8. \A A, B : A = B \cup {p.req} => A \ {0} = (B \ {0}) \cup {p.req} BY <2>5
    <3>9. QED BY <3>5, <3>6, <3>7, <3>8, Zenon
  <2>7. Rejected \notin Range(sent'[c])
    <3>1. Range(sent'[c]) = Range(sent[c]) \cup {p} BY <2>1, <2>2, <2>4, RangeAppend
    <3>2. QED BY <2>5, <3>1 DEF InTurn
  <2>8. MidRequest(c)' <=> ~ p.last
    <3>1. sent'[c] # << >> /\ Last(sent'[c]) = p
      <4>1. sent'[c] # << >> BY <2>4
      <4>2. Last(sent'[c]) = sent'[c][Len(sent'[c])] BY DEF Last
      <4>3. QED BY <2>4, <4>1, <4>2
    <3>2. QED BY <2>5, <3>1 DEF MidRequest
  <2>9. /\ Unparsed(c)' = Append(Unparsed(c), p)
        /\ Len(Unparsed(c)') = Len(Unparsed(c)) + 1 /\ Len(Unparsed(c)) \in Nat
        /\ \A i \in 1 .. Len(Unparsed(c)) : Unparsed(c)'[i] = Unparsed(c)[i]
        /\ Unparsed(c)'[Len(Unparsed(c)) + 1] = p
    <3>1. PICK m, x : m = Cat(message[c].pieces, i_buffer[c]) /\ x = << p >> OBVIOUS
    <3>2. /\ m \in Seq(Pieces) /\ x \in Seq(Pieces) /\ inbox[c] \in Seq(Pieces)
          /\ Append(inbox[c], p) = Cat(inbox[c], x)
          /\ Append(Unparsed(c), p) = Cat(Unparsed(c), x)
          /\ Unparsed(c) = Cat(m, inbox[c]) /\ Unparsed(c) \in Seq(Pieces)
      BY <2>1, <3>1, UnparsedFacts, CatAppend, CatFacts
    <3>3. Unparsed(c)' = Cat(m, Cat(inbox[c], x))
      BY <1>2, <2>2, <3>1, <3>2 DEF Unparsed, Cat
    <3>4. Cat(m, Cat(inbox[c], x)) = Cat(Cat(m, inbox[c]), x)
      BY <3>2, CatAssociative, Zenon
    <3>5. Unparsed(c)' = Append(Unparsed(c), p) BY <3>2, <3>3, <3>4
    <3>6. QED BY <2>1, <3>2, <3>5, AppendProperties, LenProperties
  <2>10. /\ ~ message'[c].completed /\ ~ message'[c].failed
         /\ received' = received /\ Replied(c)' = Replied(c)
         /\ OneByOne(Replied(c))' /\ NoCall(c)' = NoCall(c)
    <3>1. Replied(c)' = Replied(c) BY <1>2, KeptFrame DEF Replied, workers
    <3>2. NoCall(c)' = NoCall(c) BY <1>2 DEF NoCall, Served, Deferred, workers
    <3>3. OneByOne(Replied(c))' BY <3>1 DEF InTurn, OneByOne, About
    <3>4. QED BY <1>2, <3>1, <3>2, <3>3 DEF InTurn
  <2>11. CASE MidRequest(c)
    <3>1. Underway(c, n) /\ p = [req |-> n, last |-> TRUE]
      BY <2>3, <2>11 DEF InTurn, InHands, Settled
    <3>2. n \in 1 .. n /\ Requests(c)' = 1 .. n
      BY <1>0, <2>6, <3>1 DEF InTurn, Underway
    <3>3. \A i \in 1 .. Len(Unparsed(c)) : Unparsed(c)[i].req = n /\ ~ Unparsed(c)[i].last
      BY <2>11, <3>1 DEF Underway
    <3>4. \A i \in 1 .. Len(Unparsed(c)') :
            /\ Unparsed(c)'[i].req = n
            /\ Unparsed(c)'[i].last => i = Len(Unparsed(c)') /\ ~ MidRequest(c)'
      BY <2>8, <2>9, <3>1, <3>3
    <3>5. Underway(c, n)'
      BY <2>10, <3>1, <3>4 DEF Underway
    <3>6. InTurn(c, n)' BY <2>7, <2>10, <3>2, <3>5 DEF InTurn
    <3>7. QED BY <3>6
  <2>12. CASE ~ MidRequest(c)
    <3>1. n < MaxRequests /\ Len(received[c]) >= 2 * n /\ p.req = n + 1 /\ n + 1 \in 0 .. MaxRequests
      BY <1>0, <2>3, <2>12, ServerAssumption
    <3>2. Len(Replied(c)) >= 2 * n
      <4>1. /\ Len(received[c]) \in Nat /\ Len(Kept(c)) \in Nat
            /\ Len(Replied(c)) = Len(received[c]) + Len(Kept(c))
        BY RepliedFacts
      <4>2. \A r, o \in Nat : \A z \in Int : r >= z => r + o >= z OBVIOUS
      <4>3. 2 * n \in Int BY <1>0
      <4>4. QED BY <3>1, <4>1, <4>2, <4>3
    <3>3. Settled(c, n)
      BY <1>0, <3>2 DEF InTurn, Underway, InHands
    <3>4. Len(Replied(c)) = 2 * n /\ NoCall(c) /\ Len(Unparsed(c)) = 0
      <4>1. Len(Replied(c)) \in Nat BY RepliedFacts, LenProperties
      <4>2. QED BY <1>0, <3>2, <3>3, <4>1 DEF Settled
    <3>5. Requests(c)' = 1 .. n + 1
      BY <1>0, <2>6, <3>1 DEF InTurn
    <3>6. \A i \in 1 .. Len(Unparsed(c)') :
            /\ Unparsed(c)'[i].req = n + 1
            /\ Unparsed(c)'[i].last => i = Len(Unparsed(c)') /\ ~ MidRequest(c)'
      BY <2>8, <2>9, <3>1, <3>4
    <3>7. Underway(c, n + 1)'
      BY <1>0, <2>10, <3>4, <3>6 DEF Underway
    <3>8. Len(received'[c]) >= 2 * (n + 1) - 2
      BY <1>0, <2>10, <3>1
    <3>9. InTurn(c, n + 1)' BY <2>7, <2>10, <3>5, <3>7, <3>8 DEF InTurn
    <3>10. QED BY <3>1, <3>9
  <2>13. QED BY <2>11, <2>12
<1>5. QED BY <1>3, <1>4

\* A reset drops what has not been read.
LEMMA FinishTurn ==
  ASSUME TypeOK, TypeOK', NEW d \in Clients, Finish(d),
         NEW c \in Clients, Sole(c), Sole(c)', NEW n \in Int, InTurn(c, n)
  PROVE  InTurn(c, n)'
<1>1. UNCHANGED <<sent, received, letters, workers, message, i_buffer>>
  BY DEF Finish, readers
<1>2. CASE inbox'[c] = inbox[c]
  BY <1>1, <1>2, OtherTurn
<1>3. CASE inbox'[c] = << >>
  <2>1. PICK m, i : m = Cat(message[c].pieces, i_buffer[c]) /\ i = inbox[c] OBVIOUS
  <2>2. m \in Seq(Pieces) /\ i \in Seq(Pieces) /\ Unparsed(c) = Cat(m, i)
    BY <2>1, UnparsedFacts, CatFacts
  <2>3. Unparsed(c)' = m
    <3>1. Unparsed(c)' = Cat(m, << >>) BY <1>1, <1>3, <2>1 DEF Unparsed, Cat
    <3>2. QED BY <2>2, <3>1, CatFacts
  <2>4. /\ Len(m) \in Nat /\ Len(i) \in Nat /\ Len(Unparsed(c)) = Len(m) + Len(i)
        /\ \A j \in 1 .. Len(m) : Unparsed(c)[j] = m[j]
    <3>1. Len(m) \in Nat /\ Len(i) \in Nat BY <2>2, LenProperties
    <3>2. /\ Len(m \o i) = Len(m) + Len(i)
          /\ \A j \in 1 .. Len(m) + Len(i) : (m \o i)[j] = IF j <= Len(m) THEN m[j] ELSE i[j - Len(m)]
      BY <2>2, ConcatProperties
    <3>3. QED BY <2>2, <3>1, <3>2 DEF Cat
  <2>5. /\ Requests(c)' = Requests(c) /\ (MidRequest(c)' <=> MidRequest(c))
        /\ Replied(c)' = Replied(c) /\ (NoCall(c)' <=> NoCall(c))
        /\ (OneCall(c, n)' <=> OneCall(c, n)) /\ (Writing(c)' <=> Writing(c))
        /\ OneByOne(Replied(c))'
    <3>1. Replied(c)' = Replied(c) BY <1>1, KeptFrame DEF Replied, workers
    <3>2. (NoCall(c)' <=> NoCall(c)) /\ (OneCall(c, n)' <=> OneCall(c, n))
      BY <1>1 DEF NoCall, OneCall, Served, Deferred, About, workers
    <3>3. QED BY <1>1, <3>1, <3>2
             DEF Requests, MidRequest, Writing, workers, InTurn, OneByOne, About
  <2>6. Underway(c, n) => Underway(c, n)'
    BY <2>3, <2>4, <2>5 DEF Underway
  <2>7. Unparsed(c) = << >> => Unparsed(c)' = << >>
    <3>1. SUFFICES ASSUME Len(Unparsed(c)) = 0 PROVE Len(m) = 0
      BY <2>2, <2>3, EmptySeq
    <3>2. QED BY <2>4, <3>1
  <2>8. (InHands(c, n) => InHands(c, n)') /\ (Settled(c, n) => Settled(c, n)')
    BY <2>5, <2>7 DEF InHands, Settled
  <2>9. QED BY <1>1, <2>5, <2>6, <2>8 DEF InTurn
<1>4. QED
  <2>1. inbox' = inbox \/ inbox' = [inbox EXCEPT ![d] = << >>] BY DEF Finish
  <2>2. QED BY <1>2, <1>3, <2>1 DEF TypeOK

\* Reading moves pieces from the kernel to the i_buffer.
LEMMA ReadSomeTurn ==
  ASSUME TypeOK, TypeOK', NEW r \in Readers, ReadSome(r),
         NEW c \in Clients, Sole(c), Sole(c)', NEW n \in Int, InTurn(c, n)
  PROVE  InTurn(c, n)'
<1>1. PICK d \in Clients : d = reading[r] BY DEF TypeOK, ReadSome
<1>2. UNCHANGED <<sent, received, letters, workers, message>>
  BY DEF ReadSome
<1>3. PICK k : /\ k = IF Len(inbox[d]) <= InSize - Len(i_buffer[d])
                     THEN Len(inbox[d]) ELSE InSize - Len(i_buffer[d])
               /\ i_buffer' = [i_buffer EXCEPT ![d] = @ \o SubSeq(inbox[d], 1, k)]
               /\ inbox' = [inbox EXCEPT ![d] = SubSeq(inbox[d], k + 1, Len(inbox[d]))]
  BY <1>1 DEF ReadSome
<1>4. CASE d # c
  <2>1. i_buffer'[c] = i_buffer[c] /\ inbox'[c] = inbox[c] BY <1>3, <1>4 DEF TypeOK
  <2>2. QED BY <1>2, <2>1, OtherTurn
<1>5. CASE d = c
  <2>1. /\ message[c].pieces \in Seq(Pieces) /\ i_buffer[c] \in Seq(Pieces)
        /\ inbox[c] \in Seq(Pieces)
    BY UnparsedFacts
  <2>2. k \in 0 .. Len(inbox[c])
    <3>1. Len(inbox[c]) \in Nat /\ Len(i_buffer[c]) \in Nat BY <2>1, LenProperties
    <3>2. Len(i_buffer[c]) <= InSize /\ InSize \in Nat
      BY ServerAssumption DEF TypeOK
    <3>3. \A x, y \in Nat : y <= InSize =>
            (IF x <= InSize - y THEN x ELSE InSize - y) \in 0 .. x
      BY <3>2
    <3>4. QED BY <1>3, <1>5, <3>1, <3>2, <3>3, Zenon
  <2>3. PICK q, b, x, y : /\ q = message[c].pieces /\ b = i_buffer[c]
                          /\ x = SubSeq(inbox[c], 1, k)
                          /\ y = SubSeq(inbox[c], k + 1, Len(inbox[c]))
    OBVIOUS
  <2>4. /\ q \in Seq(Pieces) /\ b \in Seq(Pieces) /\ x \in Seq(Pieces) /\ y \in Seq(Pieces)
        /\ Cat(x, y) = inbox[c]
    BY <2>1, <2>2, <2>3, SplitAt DEF Cat
  <2>5. i_buffer'[c] = Cat(b, x) /\ inbox'[c] = y
    BY <1>3, <1>5, <2>3 DEF TypeOK, Cat
  <2>6. Unparsed(c) = Cat(Cat(q, b), Cat(x, y)) /\ Unparsed(c)' = Cat(Cat(q, Cat(b, x)), y)
    BY <1>2, <2>3, <2>4, <2>5 DEF Unparsed, Cat
  <2>7. Cat(Cat(q, b), Cat(x, y)) = Cat(Cat(q, Cat(b, x)), y)
    <3>1. Cat(q, b) \in Seq(Pieces) BY <2>4, CatFacts
    <3>2. Cat(Cat(q, b), Cat(x, y)) = Cat(Cat(Cat(q, b), x), y) BY <2>4, <3>1, CatAssociative, Zenon
    <3>3. Cat(q, Cat(b, x)) = Cat(Cat(q, b), x) BY <2>4, CatAssociative, Zenon
    <3>4. QED BY <3>2, <3>3
  <2>8. SameData(c) BY <1>2, <2>6, <2>7, KeptFrame DEF SameData, workers
  <2>9. CallsKept(c) BY <1>2, OtherCalls DEF workers, Served
  <2>10. QED BY <2>8, <2>9, TurnFrame
<1>6. QED BY <1>4, <1>5

\* A parser that meets nothing it rejects completes a message at a last piece.
LEMMA ExecutedCompletes ==
  ASSUME NEW m \in Messages, NEW ps \in Seq(Pieces), NEW x \in Executed(m, ps),
         ~ m.failed, \A i \in 1 .. Len(ps) : ps[i] # Rejected
  PROVE  /\ Len(ps) = 0 => x.completed = m.completed
         /\ Len(ps) # 0 => Len(ps) \in 1 .. Len(ps) /\ x.completed = ps[Len(ps)].last
<1>1. PICK n \in Accepted(ps) :
        \/ x = [pieces    |-> m.pieces \o SubSeq(ps, 1, n),
                completed |-> IF n = 0 THEN m.completed ELSE ps[n].last,
                failed    |-> n < Len(ps)]
        \/ x = [pieces    |-> m.pieces \o SubSeq(ps, 1, n),
                completed |-> FALSE,
                failed    |-> n < Len(ps)] /\ n # Len(ps)
  BY Zenon DEF Executed
<1>2. n \in 0 .. Len(ps) /\ Len(ps) \in Nat /\ ~ (n < Len(ps))
  BY <1>1, LenProperties DEF Accepted
<1>3. n = Len(ps) BY <1>2
<1>4. x.completed = IF n = 0 THEN m.completed ELSE ps[n].last BY <1>1, <1>3
<1>5. QED BY <1>2, <1>3, <1>4

\* The same for parse: the caller cuts up to that last piece.
LEMMA ParsedCompletes ==
  ASSUME NEW m \in Messages, NEW buf \in Seq(Pieces), NEW k \in 0 .. Len(buf),
         NEW one \in Executed(m, SubSeq(buf, 1, k)), NEW both \in Parsed(buf, k, one),
         ~ m.failed, ~ m.completed, \A i \in 1 .. Len(buf) : buf[i] # Rejected,
         both.completed
  PROVE  /\ Cut(buf, k, one) \in 1 .. Len(buf)
         /\ buf[Cut(buf, k, one)].last
<1> DEFINE s1 == SubSeq(buf, 1, k)
           s2 == SubSeq(buf, k + 1, Len(buf))
<1>1. /\ s1 \in Seq(Pieces) /\ s2 \in Seq(Pieces) /\ Len(buf) \in Nat
      /\ Len(s1) = k /\ Len(s2) = Len(buf) - k
      /\ \A i \in 1 .. Len(s1) : s1[i] = buf[i]
      /\ \A i \in 1 .. Len(s2) : s2[i] = buf[k + i]
      /\ \A i \in 1 .. Len(s1) : s1[i] # Rejected
      /\ \A i \in 1 .. Len(s2) : s2[i] # Rejected
  OBVIOUS
<1>2. one \in Messages BY ParsedType
<1> HIDE DEF s1, s2
<1>3. ~ one.failed
  BY <1>1, ExecutedClean DEF s1
<1>4. CASE one.completed
  <2>1. Cut(buf, k, one) = k BY <1>3, <1>4 DEF Cut
  <2>2. Len(s1) # 0 /\ s1[Len(s1)].last
    <3>1. /\ Len(s1) = 0 => one.completed = m.completed
          /\ Len(s1) # 0 => one.completed = s1[Len(s1)].last
      BY <1>1, ExecutedCompletes DEF s1
    <3>2. QED BY <1>4, <3>1
  <2>3. QED BY <1>1, <2>1, <2>2
<1>5. CASE ~ one.completed
  <2>1. Cut(buf, k, one) = Len(buf) BY <1>5 DEF Cut
  <2>2. both \in Executed(one, s2) BY <1>3, <1>5 DEF Parsed, s2
  <2>3. Len(s2) # 0 /\ s2[Len(s2)].last
    <3>1. /\ Len(s2) = 0 => both.completed = one.completed
          /\ Len(s2) # 0 => both.completed = s2[Len(s2)].last
      BY <1>1, <1>2, <1>3, <2>2, ExecutedCompletes
    <3>2. QED BY <1>5, <3>1
  <2>4. k + Len(s2) = Len(buf) /\ Len(s2) \in 1 .. Len(s2) /\ Len(buf) \in 1 .. Len(buf)
    BY <1>1, <2>3
  <2>5. s2[Len(s2)] = buf[Len(buf)] BY <1>1, <2>4
  <2>6. QED BY <2>1, <2>3, <2>4, <2>5
<1>6. QED BY <1>4, <1>5

\* A letter goes behind the others.
LEMMA LetterAdded ==
  ASSUME TypeOK, NEW l \in Letters, letters' = Append(letters, l)
  PROVE  /\ Len(letters) \in Nat /\ Len(letters') = Len(letters) + 1
         /\ \A i \in 1 .. Len(letters) : letters'[i] = letters[i]
         /\ letters'[Len(letters) + 1] = l
<1>1. letters \in Seq(Letters) BY DEF TypeOK
<1>2. QED BY <1>1, AppendProperties, LenProperties

\* The letter of another connection changes nothing for this one.
LEMMA OtherLetter ==
  ASSUME TypeOK, NEW c \in Clients, UNCHANGED workers, NEW l \in Letters, l.conn # c,
         letters' \in {letters, Append(letters, l)}
  PROVE  CallsKept(c)
<1>1. \A v \in Workers :
           /\ Served(v, c)' <=> Served(v, c)
           /\ Served(v, c) => serving'[v] = serving[v] /\ phase'[v] = phase[v]
           /\ \A m : m.conn = c => (m \in deferred'[v] <=> m \in deferred[v])
  BY DEF Served, workers
<1>2. CASE letters' = letters BY <1>1, <1>2, OtherCalls
<1>3. CASE letters' = Append(letters, l)
  <2>1. PICK k \in Int : k = 0 OBVIOUS
  <2>2. \A i \in 1 .. Len(letters') : letters'[i].conn = c =>
           i \in 1 .. Len(letters) /\ letters'[i] = letters[i]
    BY <1>3, LetterAdded
  <2>3. \A i \in 1 .. Len(letters') : i + k = i BY <2>1
  <2>4. \A i \in 1 .. Len(letters') : letters'[i].conn = c =>
           i + k \in 1 .. Len(letters) /\ letters'[i] = letters[i + k]
    BY <2>2, <2>3
  <2>5. QED BY <1>1, <2>4, CallsFrame
<1>4. QED BY <1>2, <1>3

\* The pieces of a sequence that are all of request n are about request n.
LEMMA AllAbout ==
  ASSUME NEW ps \in Seq(Pieces), Len(ps) # 0, NEW n, \A i \in 1 .. Len(ps) : ps[i].req = n
  PROVE  About(ps, n)
<1>1. \A x : x \in Range(ps) <=> \E i \in 1 .. Len(ps) : ps[i] = x BY RangeOf
<1>2. 1 \in 1 .. Len(ps) BY LenProperties
<1>3. QED BY <1>1, <1>2 DEF About

\* A reader parses what it has read, and hands on the request when it is complete.
LEMMA ReadAgainTurn ==
  ASSUME TypeOK, TypeOK', OwnInput, NEW r \in Readers, ReadAgain(r),
         NEW c \in Clients, Sole(c), Sole(c)', NEW n \in Int, InTurn(c, n)
  PROVE  InTurn(c, n)'
<1>1. PICK d \in Clients : d = reading[r] BY DEF TypeOK, ReadAgain
<1>2. UNCHANGED <<sent, inbox, received, workers>> /\ inbox[d] = << >>
  BY <1>1 DEF ReadAgain, clients
<1>3. PICK k \in 0 .. Len(i_buffer[d]) :
        \E one \in Executed(message[d], SubSeq(i_buffer[d], 1, k)) :
        \E m \in Parsed(i_buffer[d], k, one) : Outcome(d, k, one, m)
  BY <1>1 DEF ReadAgain, Outcome
<1>4. PICK one \in Executed(message[d], SubSeq(i_buffer[d], 1, k)) :
        \E m \in Parsed(i_buffer[d], k, one) : Outcome(d, k, one, m)
  BY <1>3
<1>5. PICK m \in Parsed(i_buffer[d], k, one) : Outcome(d, k, one, m)
  BY <1>4
<1>6. PICK b, q, j, x, y : /\ b = i_buffer[d] /\ q = message[d].pieces /\ j = Cut(b, k, one)
                           /\ x = SubSeq(b, 1, j) /\ y = SubSeq(b, j + 1, Len(b))
  OBVIOUS
<1>7. /\ message[d] \in Messages /\ q \in Seq(Pieces) /\ b \in Seq(Pieces)
      /\ Len(b) \in Nat /\ Len(q) \in Nat
  BY <1>6, LenProperties DEF TypeOK, Messages
<1>8. m \in Messages /\ m.pieces \in Seq(Pieces)
  <2>1. m \in Messages BY <1>3, <1>4, <1>5, <1>6, <1>7, ParsedType
  <2>2. QED BY <2>1 DEF Messages
<1>9. PICK l \in Letters : l.conn = d /\ l.pieces = m.pieces
  <2>1. [conn |-> d, pieces |-> m.pieces] \in Letters BY <1>8 DEF Letters
  <2>2. QED BY <2>1
<1>10. /\ i_buffer' = [i_buffer EXCEPT ![d] = y]
       /\ \/ m.completed /\ message' = [message EXCEPT ![d] = NewMessage]
             /\ letters' \in {letters, Append(letters, l)}
          \/ ~ m.completed /\ message' = [message EXCEPT ![d] = m] /\ letters' = letters
  <2>1. l = [conn |-> d, pieces |-> m.pieces] BY <1>9 DEF Letters
  <2>2. QED BY <1>5, <1>6, <2>1 DEF Outcome
<1>11. CASE d # c
  <2>1. i_buffer'[c] = i_buffer[c] /\ message'[c] = message[c]
    <3>1. i_buffer'[c] = i_buffer[c] BY <1>10, <1>11 DEF TypeOK
    <3>2. \E x1 : message' = [message EXCEPT ![d] = x1] BY <1>10
    <3>3. message'[c] = message[c] BY <1>11, <3>2 DEF TypeOK
    <3>4. QED BY <3>1, <3>3
  <2>2. SameData(c) BY <1>2, <2>1, KeptFrame DEF SameData, Unparsed, workers
  <2>3. letters' \in {letters, Append(letters, l)} BY <1>10
  <2>4. CallsKept(c) BY <1>2, <1>9, <1>11, <2>3, OtherLetter
  <2>5. QED BY <2>2, <2>4, TurnFrame
<1>12. CASE d = c
  <2>1. ~ message[d].failed /\ ~ message[d].completed /\ \A i \in 1 .. Len(b) : b[i] # Rejected
    <3>1. Rejected \notin Range(b) BY <1>6, <1>12 DEF InTurn, OwnInput
    <3>2. QED BY <1>7, <1>12, <3>1, RangeOf DEF InTurn
  <2>2. ~ m.failed /\ j \in 0 .. Len(b) /\ m.pieces = Cat(q, x)
    <3>1. PICK old \in Messages : old = message[d] BY <1>7
    <3>2. PICK buf \in Seq(Pieces) : buf = b BY <1>7
    <3>3. /\ k \in 0 .. Len(buf) /\ one \in Executed(old, SubSeq(buf, 1, k))
          /\ m \in Parsed(buf, k, one)
      BY <1>3, <1>4, <1>5, <1>6, <3>1, <3>2
    <3>4. ~ old.failed /\ \A i \in 1 .. Len(buf) : buf[i] # Rejected BY <2>1, <3>1, <3>2
    <3>5. /\ ~ m.failed /\ Cut(buf, k, one) \in 0 .. Len(buf)
          /\ m.pieces = old.pieces \o SubSeq(buf, 1, Cut(buf, k, one))
      BY <3>3, <3>4, ParsedClean, SMTT(20)
    <3>6. QED BY <1>6, <3>1, <3>2, <3>5 DEF Cat
  <2>3. x \in Seq(Pieces) /\ y \in Seq(Pieces) /\ Cat(x, y) = b
    <3>1. \A s \in Seq(Pieces) : \A i \in 0 .. Len(s) :
            /\ SubSeq(s, 1, i) \in Seq(Pieces) /\ SubSeq(s, i + 1, Len(s)) \in Seq(Pieces)
            /\ Cat(SubSeq(s, 1, i), SubSeq(s, i + 1, Len(s))) = s
      BY SplitAt DEF Cat
    <3>2. QED BY <1>6, <1>7, <2>2, <3>1
  <2>4. Unparsed(c) = Cat(q, b) /\ i_buffer'[c] = y
    <3>1. Unparsed(c) = Cat(Cat(q, b), << >>) BY <1>2, <1>6, <1>12 DEF Unparsed, Cat
    <3>2. Cat(q, b) \in Seq(Pieces) BY <1>7, CatFacts
    <3>3. Unparsed(c) = Cat(q, b) BY <3>1, <3>2, CatFacts
    <3>4. i_buffer'[c] = y BY <1>10, <1>12 DEF TypeOK
    <3>5. QED BY <3>3, <3>4
  <2>5. CASE ~ m.completed
    <3>1. message'[c] = m /\ letters' = letters BY <1>10, <1>12, <2>5 DEF TypeOK
    <3>2. Unparsed(c)' = Cat(Cat(Cat(q, x), y), << >>)
      BY <1>2, <1>12, <2>2, <2>4, <3>1 DEF Unparsed, Cat
    <3>3. Cat(q, x) \in Seq(Pieces) /\ Cat(Cat(q, x), y) \in Seq(Pieces)
      <4>1. Cat(q, x) \in Seq(Pieces) BY <1>7, <2>3, CatFacts
      <4>2. QED BY <2>3, <4>1, CatFacts
    <3>4. Cat(Cat(Cat(q, x), y), << >>) = Cat(q, Cat(x, y))
      <4>1. Cat(Cat(Cat(q, x), y), << >>) = Cat(Cat(q, x), y) BY <3>3, CatFacts
      <4>2. Cat(Cat(q, x), y) = Cat(q, Cat(x, y)) BY <1>7, <2>3, CatFacts
      <4>3. QED BY <4>1, <4>2
    <3>5. Unparsed(c)' = Unparsed(c) BY <2>3, <2>4, <3>2, <3>4
    <3>6. SameData(c) BY <1>2, <2>2, <2>5, <3>1, <3>5, KeptFrame DEF SameData, workers
    <3>7. CallsKept(c) BY <1>2, <3>1, OtherCalls DEF workers, Served
    <3>8. QED BY <3>6, <3>7, TurnFrame
  <2>6. CASE m.completed
    <3>1. j \in 1 .. Len(b) /\ b[j].last
      BY <1>3, <1>4, <1>5, <1>6, <1>7, <2>1, <2>6, ParsedCompletes
    <3>2. /\ Len(Unparsed(c)) = Len(q) + Len(b)
          /\ \A i \in 1 .. Len(b) : Len(q) + i \in 1 .. Len(Unparsed(c))
                                    /\ Unparsed(c)[Len(q) + i] = b[i]
      <4>1. \A s, t \in Seq(Pieces) :
              /\ Len(s \o t) = Len(s) + Len(t)
              /\ \A i \in 1 .. Len(t) : Len(s) + i \in 1 .. Len(s \o t) /\ (s \o t)[Len(s) + i] = t[i]
        OBVIOUS
      <4>2. Unparsed(c) = q \o b BY <2>4 DEF Cat
      <4>3. QED BY <1>7, <4>1, <4>2
    <3>3. Underway(c, n)
      <4>1. Unparsed(c) # << >>
        <5>1. Len(Unparsed(c)) # 0 BY <1>7, <3>1, <3>2
        <5>2. QED BY <5>1
      <4>2. QED BY <4>1 DEF InTurn, InHands, Settled
    <3>4. Len(q) + j = Len(Unparsed(c)) /\ ~ MidRequest(c)
      BY <3>1, <3>2, <3>3 DEF Underway
    <3>5. j = Len(b)
      BY <1>7, <3>1, <3>2, <3>4
    <3>6. x = b /\ y = << >>
      <4>1. x = b BY <1>6, <1>7, <3>5, SubSeqFull
      <4>2. y = << >> BY <1>6, <1>7, <3>5, SubSeqEmpty
      <4>3. QED BY <4>1, <4>2
    <3>7. m.pieces = Unparsed(c) BY <2>2, <2>4, <3>6
    <3>8. About(l.pieces, n)
      <4>1. \A i \in 1 .. Len(Unparsed(c)) : Unparsed(c)[i].req = n BY <3>3 DEF Underway
      <4>2. Len(Unparsed(c)) # 0 BY <1>7, <3>1, <3>2
      <4>3. QED BY <1>8, <1>9, <3>7, <4>1, <4>2, AllAbout
    <3>9. /\ message'[c] = NewMessage /\ letters' \in {letters, Append(letters, l)}
          /\ ~ NewMessage.completed /\ ~ NewMessage.failed /\ NewMessage.pieces = << >>
      BY <1>10, <1>12, <2>6 DEF TypeOK, NewMessage
    <3>10. Unparsed(c)' = << >>
      <4>1. Unparsed(c)' = (<< >> \o << >>) \o << >>
        BY <1>2, <1>12, <2>4, <3>6, <3>9 DEF Unparsed
      <4>2. << >> \o << >> = << >> OBVIOUS
      <4>3. QED BY <4>1, <4>2
    <3>11. /\ Requests(c)' = Requests(c) /\ ~ MidRequest(c)' /\ Replied(c)' = Replied(c)
           /\ Len(Replied(c)) = 2 * n - 2 /\ OneByOne(Replied(c))'
      <4>1. Replied(c)' = Replied(c) BY <1>2, KeptFrame DEF Replied, workers
      <4>2. Requests(c)' = Requests(c) BY <1>2 DEF Requests
      <4>3. ~ MidRequest(c)' BY <1>2, <3>4 DEF MidRequest
      <4>4. Len(Replied(c)) = 2 * n - 2 BY <3>3 DEF Underway
      <4>5. OneByOne(Replied(c)) BY DEF InTurn
      <4>6. OneByOne(Replied(c))' BY <4>1, <4>5 DEF OneByOne, About
      <4>7. QED BY <4>1, <4>2, <4>3, <4>4, <4>6
    <3>12. NoCall(c) BY <3>3 DEF Underway
    <3>13. \A v \in Workers : ~ Served(v, c)' /\ ~ Deferred(v, c)' /\ ~ Writing(c)'
      BY <1>2, <3>12 DEF NoCall, Served, Deferred, Writing, workers
    <3>14. CASE letters' = letters
      <4>1. NoCall(c)' BY <3>12, <3>13, <3>14 DEF NoCall
      <4>2. Settled(c, n)'
        <5>1. 2 * n - 2 <= 2 * n OBVIOUS
        <5>2. QED BY <3>10, <3>11, <4>1, <5>1 DEF Settled
      <4>3. QED BY <1>2, <3>9, <3>11, <4>2 DEF InTurn
    <3>15. CASE letters' = Append(letters, l)
      <4>1. /\ Len(letters) \in Nat /\ Len(letters') = Len(letters) + 1
            /\ \A i \in 1 .. Len(letters) : letters'[i] = letters[i]
            /\ letters'[Len(letters) + 1] = l
        BY <3>15, LetterAdded
      <4>2. \A i \in 1 .. Len(letters') : letters'[i].conn = c =>
              i = Len(letters) + 1 /\ letters'[i] = l
        BY <3>12, <4>1 DEF NoCall
      <4>3. \A v \in Workers : \A e \in deferred'[v] : e.conn # c
        BY <3>13 DEF Deferred
      <4>4. OneCall(c, n)'
        <5>1. \A i \in 1 .. Len(letters') : letters'[i].conn = c =>
                /\ About(letters'[i].pieces, n)
                /\ \A e \in 1 .. Len(letters') : letters'[e].conn = c => i = e
          BY <3>8, <4>2
        <5>2. QED BY <3>13, <4>3, <5>1 DEF OneCall, About
      <4>5. ~ Writing(c)' BY <3>12, <1>2 DEF NoCall, Served, Writing, workers
      <4>6. InHands(c, n)' BY <3>10, <3>11, <4>4, <4>5 DEF InHands
      <4>7. QED BY <1>2, <3>9, <3>11, <4>6 DEF InTurn
    <3>16. QED BY <3>9, <3>14, <3>15
  <2>7. QED BY <2>5, <2>6
<1>13. QED BY <1>11, <1>12

\* An overlap is never forgotten.
LEMMA OverlapsGrow ==
  ASSUME [Next]_vars
  PROVE  overlapped \subseteq overlapped'
<1>1. ASSUME NEW w \in Workers, Worker(w) PROVE overlapped \subseteq overlapped'
  BY <1>1 DEF Worker, TakeLetter, Return, Defer, Resume, SetResponse, CutIntoFd, StoreIndex, Answer
<1>2. ASSUME NEW r \in Readers, Reader(r) PROVE UNCHANGED workers
  BY <1>2 DEF Reader, ReadSignal, Take, TakeMiss, ReadEvent, ReadSome, ReadAgain, ReadEnd
<1>3. ASSUME NEW c \in Clients, Connect(c) \/ Send(c) \/ Finish(c) \/ Accept(c)
      PROVE  UNCHANGED workers
  BY <1>3 DEF Connect, Send, Finish, Accept
<1>4. AcceptNext => UNCHANGED workers BY DEF AcceptNext
<1>5. UNCHANGED vars => UNCHANGED workers BY DEF vars
<1>6. UNCHANGED workers => overlapped \subseteq overlapped' BY DEF workers
<1>7. QED BY <1>1, <1>2, <1>3, <1>4, <1>5, <1>6 DEF Next

\* Every step leaves every client that waits its turn.
LEMMA TurnsStep ==
  ASSUME TypeOK, TypeOK', Held, OwnInput, SoleAnswers, SoleAnswers', Turns, [Next]_vars
  PROVE  Turns'
<1> SUFFICES ASSUME NEW c \in Clients \ Hasty, c \notin overlapped'
             PROVE  \E k \in 0 .. MaxRequests : InTurn(c, k)'
  BY DEF Turns
<1>0. c \notin overlapped /\ Sole(c) /\ Sole(c)'
  <2>1. overlapped \subseteq overlapped' BY OverlapsGrow
  <2>2. QED BY <2>1 DEF SoleAnswers, Sole
<1>1. PICK n \in 0 .. MaxRequests : InTurn(c, n) BY <1>0 DEF Turns
<1>2. n \in Int BY <1>1, ServerAssumption
<1>3. CASE UNCHANGED <<sent, inbox, i_buffer, message, received, letters, workers>>
  <2>1. InTurn(c, n)' BY <1>1, <1>2, <1>3, <1>0, OtherTurn
  <2>2. QED BY <2>1
<1>4. CASE UNCHANGED vars BY <1>3, <1>4 DEF vars, clients, readers
<1>5. ASSUME NEW d \in Clients, Connect(d) \/ Accept(d)
      PROVE  \E k \in 0 .. MaxRequests : InTurn(c, k)'
  BY <1>3, <1>5 DEF Connect, Accept, clients, readers
<1>6. ASSUME NEW d \in Clients, Send(d) PROVE \E k \in 0 .. MaxRequests : InTurn(c, k)'
  BY <1>1, <1>6, <1>0, SendTurn
<1>7. ASSUME NEW d \in Clients, Finish(d) PROVE \E k \in 0 .. MaxRequests : InTurn(c, k)'
  <2>1. InTurn(c, n)' BY <1>1, <1>2, <1>7, <1>0, FinishTurn
  <2>2. QED BY <2>1
<1>8. CASE AcceptNext BY <1>3, <1>8 DEF AcceptNext, clients, readers
<1>9. ASSUME NEW r \in Readers,
             ReadSignal(r) \/ Take(r) \/ TakeMiss(r) \/ ReadEvent(r) \/ ReadEnd(r)
      PROVE  \E k \in 0 .. MaxRequests : InTurn(c, k)'
  BY <1>3, <1>9 DEF ReadSignal, Take, TakeMiss, ReadEvent, ReadEnd, clients
<1>10. ASSUME NEW r \in Readers, ReadSome(r) PROVE \E k \in 0 .. MaxRequests : InTurn(c, k)'
  <2>1. InTurn(c, n)' BY <1>1, <1>2, <1>10, <1>0, ReadSomeTurn
  <2>2. QED BY <2>1
<1>11. ASSUME NEW r \in Readers, ReadAgain(r) PROVE \E k \in 0 .. MaxRequests : InTurn(c, k)'
  <2>1. InTurn(c, n)' BY <1>1, <1>2, <1>11, <1>0, ReadAgainTurn
  <2>2. QED BY <2>1
<1>12. ASSUME NEW w \in Workers, TakeLetter(w) \/ Return(w) \/ Defer(w) \/ Resume(w)
       PROVE  \E k \in 0 .. MaxRequests : InTurn(c, k)'
  <2>1. UNCHANGED <<sent, inbox, i_buffer, message, received, o_buffer, written>>
    BY <1>12 DEF TakeLetter, Return, Defer, Resume, clients, readers
  <2>2. SameData(c)
    <3>1. phase[w] # "store" /\ phase'[w] # "store"
          /\ \A v \in Workers \ {w} : phase'[v] = phase[v] /\ serving'[v] = serving[v]
      <4>1. PICK a : a \in {"idle", "call", "answer"} /\ phase' = [phase EXCEPT ![w] = a]
        BY <1>12 DEF TakeLetter, Return, Defer, Resume, Answer
      <4>2. phase[w] \in {"idle", "call"} BY <1>12 DEF TakeLetter, Return, Defer, Resume
      <4>3. serving' = serving \/ \E l : serving' = [serving EXCEPT ![w] = l]
        BY <1>12 DEF TakeLetter, Return, Defer, Resume
      <4>4. \A v \in Workers \ {w} : serving'[v] = serving[v] BY <4>3 DEF TypeOK
      <4>5. QED BY <4>1, <4>2, <4>4 DEF TypeOK
    <3>2. \A v \in Workers : Storing(v, c)' <=> Storing(v, c) BY <3>1 DEF Storing
    <3>3. Kept(c)' = Kept(c) BY <1>0, <2>1, <3>2, KeptSame
    <3>4. QED BY <2>1, <3>3 DEF SameData, Unparsed
  <2>3. CallsKept(c)
    BY <1>12, TakeLetterCalls, ReturnCalls, DeferCalls, ResumeCalls
  <2>4. InTurn(c, n)' BY <1>1, <1>2, <2>2, <2>3, TurnFrame
  <2>5. QED BY <2>4
<1>13. ASSUME NEW w \in Workers, SetResponse(w) PROVE \E k \in 0 .. MaxRequests : InTurn(c, k)'
  <2>1. InTurn(c, n)' BY <1>1, <1>2, <1>13, <1>0, SetResponseTurn
  <2>2. QED BY <2>1
<1>14. ASSUME NEW w \in Workers, CutIntoFd(w) PROVE \E k \in 0 .. MaxRequests : InTurn(c, k)'
  <2>1. InTurn(c, n)' BY <1>1, <1>2, <1>14, <1>0, CutIntoFdTurn
  <2>2. QED BY <2>1
<1>15. ASSUME NEW w \in Workers, StoreIndex(w) PROVE \E k \in 0 .. MaxRequests : InTurn(c, k)'
  <2>1. InTurn(c, n)' BY <1>0, <1>1, <1>2, <1>15, StoreIndexTurn
  <2>2. QED BY <2>1
<1>16. QED
  BY <1>4, <1>5, <1>6, <1>7, <1>8, <1>9, <1>10, <1>11, <1>12, <1>13, <1>14, <1>15
  DEF Next, Reader, Worker

\* Before the first request nothing has been asked or answered.
LEMMA InitTurns ==
  ASSUME Init
  PROVE  Turns
<1>1. 0 \in 0 .. MaxRequests BY ServerAssumption
<1>2. ASSUME NEW c \in Clients PROVE InTurn(c, 0)
  <2>1. /\ sent[c] = << >> /\ inbox[c] = << >> /\ i_buffer[c] = << >> /\ received[c] = << >>
        /\ o_buffer[c] = << >> /\ message[c] = NewMessage /\ letters = << >>
        /\ \A w \in Workers : phase[w] = "idle" /\ deferred[w] = {}
    BY DEF Init
  <2>2. << >> \o << >> = << >> /\ Len(<< >>) = 0 /\ 1 .. 0 = {} OBVIOUS
  <2>3. ~ NewMessage.completed /\ ~ NewMessage.failed /\ NewMessage.pieces = << >>
    BY DEF NewMessage
  <2>4. Requests(c) = {} BY <2>1, <2>2 DEF Requests
  <2>5. ~ MidRequest(c) /\ Unparsed(c) = << >> /\ Replied(c) = << >>
    <3>1. Kept(c) = << >> BY <2>1, KeptIdle DEF Storing
    <3>2. QED BY <2>1, <2>2, <2>3, <3>1 DEF MidRequest, Unparsed, Replied
  <2>6. NoCall(c) BY <2>1, <2>2 DEF NoCall, Served, Deferred
  <2>7. OneByOne(<< >>) BY <2>2 DEF OneByOne
  <2>8. Range(<< >>) = {} BY DEF Range
  <2>9. Settled(c, 0) BY <2>2, <2>5, <2>6 DEF Settled
  <2>10. QED BY <2>1, <2>2, <2>3, <2>4, <2>5, <2>7, <2>8, <2>9 DEF InTurn
<1>3. QED BY <1>1, <1>2 DEF Turns

\* A second worker comes to answer a client which waits only when the first one has
\* written all there was in the buffer.
LEMMA OverlapMoment ==
  ASSUME TypeOK, SoleAnswers, Turns, NEW c \in Clients \ Hasty, c \notin overlapped,
         NEW w \in Workers, Served(w, c) \/ Deferred(w, c),
         NEW v \in Workers \ {w}, Answering(v, c)
  PROVE  Storing(v, c) /\ written[v] = Len(o_buffer[c])
<1>1. PICK n \in 0 .. MaxRequests : InTurn(c, n) BY DEF Turns
<1>2. n \in Int /\ Sole(c) BY <1>1, ServerAssumption DEF SoleAnswers, Sole
<1>3. InHands(c, n)
  BY <1>1 DEF InTurn, Underway, Settled, NoCall
<1>4. \A u \in Workers : Served(u, c) => u = w
  BY <1>3 DEF InHands, OneCall
<1>5. Storing(v, c) BY <1>4 DEF Storing, Answering, Served
<1>6. ~ Writing(c)
  <2>1. ASSUME NEW u \in Workers, phase[u] = "write", serving[u].conn = c PROVE FALSE
    <3>1. Answering(u, c) BY <2>1 DEF Answering
    <3>2. u = v BY <1>2, <3>1 DEF Sole
    <3>3. QED BY <1>5, <2>1, <3>2 DEF Storing
  <2>2. QED BY <2>1 DEF Writing
<1>7. Len(Replied(c)) = 2 * n - 2 /\ Len(received[c]) >= 2 * n - 2
  BY <1>1, <1>3, <1>6 DEF InHands, InTurn
<1>8. Len(Kept(c)) = 0
  <2>1. /\ Len(received[c]) \in Nat /\ Len(Kept(c)) \in Nat
        /\ Len(Replied(c)) = Len(received[c]) + Len(Kept(c))
    BY <1>2, RepliedFacts
  <2>2. \A r, o \in Nat : \A z \in Int : r + o = z /\ r >= z => o = 0 OBVIOUS
  <2>3. 2 * n - 2 \in Int BY <1>2
  <2>4. QED BY <1>7, <2>1, <2>2, <2>3
<1>9. Kept(c) = SubSeq(o_buffer[c], written[v] + 1, Len(o_buffer[c]))
  BY <1>2, <1>5, KeptStoring
<1>10. /\ o_buffer[c] \in Seq(Replies) /\ Len(o_buffer[c]) \in Nat /\ written[v] \in Nat
       /\ written[v] <= Len(o_buffer[c])
  BY <1>2, <1>5, ServerAssumption, LenProperties DEF TypeOK, Sole
<1>11. Len(Kept(c)) = Len(o_buffer[c]) - written[v]
  BY <1>9, <1>10
<1>12. QED BY <1>5, <1>8, <1>10, <1>11

LEMMA OverlapStep ==
  ASSUME TypeOK, SoleAnswers, Turns, [Next]_vars,
         NEW c \in Clients \ Hasty, c \in overlapped', c \notin overlapped
  PROVE  \E v \in Workers : Storing(v, c) /\ written[v] = Len(o_buffer[c])
<1>1. PICK w \in Workers : Return(w) \/ Resume(w)
  <2>1. ASSUME NEW w \in Workers,
               TakeLetter(w) \/ Defer(w) \/ SetResponse(w) \/ CutIntoFd(w) \/ StoreIndex(w)
        PROVE  overlapped' = overlapped
    BY <2>1 DEF TakeLetter, Defer, SetResponse, CutIntoFd, StoreIndex
  <2>2. ASSUME NEW r \in Readers, Reader(r) PROVE UNCHANGED workers
    BY <2>2 DEF Reader, ReadSignal, Take, TakeMiss, ReadEvent, ReadSome, ReadAgain, ReadEnd
  <2>3. ASSUME NEW d \in Clients, Connect(d) \/ Send(d) \/ Finish(d) \/ Accept(d)
        PROVE  UNCHANGED workers
    BY <2>3 DEF Connect, Send, Finish, Accept
  <2>4. AcceptNext => UNCHANGED workers BY DEF AcceptNext
  <2>5. UNCHANGED vars => UNCHANGED workers BY DEF vars
  <2>6. UNCHANGED workers => overlapped' = overlapped BY DEF workers
  <2>7. QED BY <2>1, <2>2, <2>3, <2>4, <2>5, <2>6 DEF Next, Worker
<1>2. CASE Return(w)
  <2>1. /\ phase[w] = "call" /\ serving' = serving /\ Answer(w, serving[w].conn)
    BY <1>2 DEF Return
  <2>2. serving[w].conn = c /\ \E v \in Workers \ {w} : Answering(v, c)
    BY <2>1 DEF Answer
  <2>3. PICK v \in Workers \ {w} : Answering(v, c) BY <2>2
  <2>4. Served(w, c) BY <2>1, <2>2 DEF Served
  <2>5. Storing(v, c) /\ written[v] = Len(o_buffer[c])
    BY <2>3, <2>4, OverlapMoment
  <2>6. QED BY <2>5
<1>3. CASE Resume(w)
  <2>1. PICK l \in deferred[w] : serving' = [serving EXCEPT ![w] = l] /\ Answer(w, l.conn)
    BY <1>3 DEF Resume
  <2>2. phase[w] = "idle" /\ serving'[w] = l BY <1>3, <2>1 DEF Resume, TypeOK
  <2>3. l.conn = c /\ \E v \in Workers \ {w} : Answering(v, c)
    BY <2>1 DEF Answer
  <2>4. Deferred(w, c) BY <2>1, <2>3 DEF Deferred
  <2>5. PICK v \in Workers \ {w} : Answering(v, c) BY <2>3
  <2>6. Storing(v, c) /\ written[v] = Len(o_buffer[c])
    BY <2>4, <2>5, OverlapMoment
  <2>7. QED BY <2>6
<1>4. QED BY <1>1, <1>2, <1>3

LEMMA TurnsRepliesInOrder ==
  ASSUME TypeOK, SoleAnswers, Turns
  PROVE  RepliesInOrder
<1>1. SUFFICES ASSUME NEW c \in Clients \ Hasty, c \notin overlapped PROVE OneByOne(received[c])
  BY DEF RepliesInOrder
<1>2. PICK n \in 0 .. MaxRequests : InTurn(c, n) BY <1>1 DEF Turns
<1>3. OneByOne(Replied(c)) BY <1>2 DEF InTurn
<1>4. Sole(c) BY <1>1 DEF SoleAnswers, Sole
<1>5. QED BY <1>3, <1>4, ReceivedInOrder

-----------------------------------------------------------------------------
(* The invariant holds initially *)

LEMMA InitInvariant ==
  ASSUME Init
  PROVE  IInv
<1>1. << >> \in Seq(Pieces) /\ << >> \in Seq(Replies) /\ << >> \in Seq(Clients)
      /\ << >> \in Seq(Letters) /\ Len(<< >>) = 0
  OBVIOUS
<1>2. NewMessage \in Messages /\ ~ NewMessage.failed /\ NewMessage.pieces = << >>
  BY DEF NewMessage, Messages
<1>3. Range(<< >>) = {} BY DEF Range
<1>4. InSize \in Nat /\ OutSize \in Nat BY ServerAssumption
<1>5. TypeOK
  <2>1. missed \in BOOLEAN BY Zenon DEF Init
  <2>2. written \in [Workers -> 0 .. OutSize] /\ overlapped \subseteq Clients
    BY <1>4 DEF Init
  <2>3. \A w \in Workers : phase[w] # "idle" => serving[w] \in Letters BY DEF Init
  <2>4. QED BY <1>1, <1>2, <1>4, <2>1, <2>2, <2>3 DEF Init, TypeOK
<1>6. Referenced = {}
  BY <1>1, <1>3, ServerAssumption DEF Init, Referenced
<1>7. Held /\ Numbers /\ QueueFresh /\ OwnReplies /\ SoleAnswers
  BY <1>1, <1>6 DEF Init, Held, Numbers, QueueFresh, OwnReplies, SoleAnswers, Answering, Storing
<1>8. \A c \in Clients : /\ sent[c] = << >> /\ inbox[c] = << >> /\ i_buffer[c] = << >>
                         /\ handed[c] = << >> /\ message[c] = NewMessage
  BY DEF Init
<1>9. << >> = << >> \o << >> \o << >> \o << >> OBVIOUS
<1>10. OwnInput /\ PiecesAccounted
  BY <1>2, <1>3, <1>8, <1>9 DEF OwnInput, PiecesAccounted
<1>11. Turns BY InitTurns
<1>12. QED BY <1>5, <1>7, <1>10, <1>11 DEF IInv

-----------------------------------------------------------------------------
(* The theorems *)

\* The inductive invariant: what something refers to is open under its own number,
\* which holds in every step because IO::~IO is the only place that closes.
THEOREM Invariance == Spec => []IInv
<1>1. Init => IInv BY InitInvariant
<1>2. IInv /\ [Next]_vars => IInv'
  <2>1. SUFFICES ASSUME IInv, [Next]_vars PROVE IInv' OBVIOUS
  <2>2. TypeOK' BY <2>1, TypeStep DEF IInv
  <2>3. (Held /\ Numbers /\ QueueFresh)'
    BY <2>1, <2>2, ReferencesStep DEF IInv, References
  <2>4. OwnReplies' BY <2>1, <2>2, OwnRepliesStep DEF IInv
  <2>5. (OwnInput /\ PiecesAccounted)' BY <2>1, InputStep DEF IInv, Input
  <2>6. SoleAnswers' BY <2>1, <2>2, SoleAnswersStep DEF IInv
  <2>7. Turns' BY <2>1, <2>2, <2>6, TurnsStep DEF IInv
  <2>8. QED BY <2>2, <2>3, <2>4, <2>5, <2>6, <2>7 DEF IInv
<1>3. QED BY <1>1, <1>2, PTL DEF Spec

\* Every variable keeps its type, and neither buffer of a connection ever holds more
\* than its capacity, whatever reads and appends are asked of them.
THEOREM TypeCorrect == Spec => []TypeOK
<1>1. IInv => TypeOK BY DEF IInv
<1>2. QED BY <1>1, Invariance, PTL

\* A reply reaches the client that asked, also when the connection has left its
\* reader's map long before Control::~Control writes, for any number of clients,
\* descriptors and threads.
THEOREM ReplyOwner == Spec => []RepliesToTheirClient
<1>1. IInv => RepliesToTheirClient BY DEF IInv, OwnReplies, RepliesToTheirClient
<1>2. QED BY <1>1, Invariance, PTL

\* The keys of the readers' maps are current, and _conn_map.emplace of a popped
\* connection never finds its key taken.
THEOREM Keys == Spec => []KeysCurrent
<1>1. ASSUME IInv PROVE KeysCurrent
  <2>1. TypeOK /\ Held /\ Numbers /\ QueueFresh BY <1>1 DEF IInv
  <2>2. ASSUME NEW r \in Readers, NEW f \in Fds, conn_map[r][f] # None
        PROVE  fds[f] = conn_map[r][f] /\ fd[conn_map[r][f]] = f
    <3>1. conn_map[r][f] \in Clients BY <2>1, <2>2 DEF TypeOK
    <3>2. conn_map[r][f] \in Referenced BY <3>1 DEF Referenced
    <3>3. fds[fd[conn_map[r][f]]] = conn_map[r][f] BY <2>1, <3>2 DEF Held
    <3>4. fd[conn_map[r][f]] = f BY <2>1, <2>2 DEF Numbers
    <3>5. QED BY <3>3, <3>4
  <2>3. ASSUME NEW c \in Range(queue)
        PROVE  fds[fd[c]] = c /\ \A r \in Readers : conn_map[r][fd[c]] = None
    <3>1. queue \in Seq(Clients) BY <2>1 DEF TypeOK
    <3>2. PICK i \in 1 .. Len(queue) : queue[i] = c BY <3>1, RangeOf
    <3>3. c \in Clients BY <3>1, <3>2, ElementOfSeq
    <3>4. c \in Referenced BY <3>3 DEF Referenced
    <3>5. fd[c] \in Fds /\ fds[fd[c]] = c BY <2>1, <3>4 DEF Held
    <3>6. ASSUME NEW r \in Readers, conn_map[r][fd[c]] # None PROVE FALSE
      <4>1. conn_map[r][fd[c]] = c BY <2>2, <3>5, <3>6
      <4>2. QED BY <2>1, <3>2, <3>5, <4>1 DEF QueueFresh
    <3>7. QED BY <3>5, <3>6
  <2>4. QED BY <2>2, <2>3 DEF KeysCurrent
<1>2. QED BY <1>1, Invariance, PTL

\* Nothing a client has sent is lost, duplicated or reordered on its way through
\* append_from_fd, parse and cut, for any lengths of reads and places of the ring's
\* end.
THEOREM Accounted == Spec => []PiecesAccounted
<1>1. IInv => PiecesAccounted BY DEF IInv
<1>2. QED BY <1>1, Invariance, PTL

\* When a client waits for its answers, two workers use its o_buffer at the same time only
\* from the moment in which one has written the whole reply, and not yet stored _read_index,
\* however letters and Controls are spread over any number of workers.
THEOREM SoleWriter == Spec => OneWriter
<1>1. IInv /\ [Next]_vars
        => [\A c \in Clients \ Hasty : c \in overlapped' \ overlapped =>
              \E w \in Workers : Storing(w, c) /\ written[w] = Len(o_buffer[c])]_vars
  BY OverlapStep DEF IInv
<1>2. QED BY <1>1, Invariance, PTL DEF Spec, OneWriter

\* A client that waits receives the replies to its requests in their order, each once
\* and complete up to what it has received, however the kernel takes o_buffer in parts,
\* whatever OutSize is and although full queues lose letters: always, but for the client
\* two workers have answered at the same time.
THEOREM OrderedReplies == Spec => []RepliesInOrder
<1>1. IInv => RepliesInOrder BY TurnsRepliesInOrder DEF IInv
<1>2. QED BY <1>1, Invariance, PTL

=============================================================================
