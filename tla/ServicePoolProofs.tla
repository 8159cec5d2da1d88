-------------------------- MODULE ServicePoolProofs --------------------------
(***************************************************************************)
(* No wake-up of ServicePool is lost, for any number of readers, workers   *)
(* and requests and any size of the queue.                                 *)
(***************************************************************************)
EXTENDS ServicePool, FiniteSetTheorems, TLAPS

-----------------------------------------------------------------------------
(* Sequences *)

LEMMA HeadTail ==
  ASSUME NEW S, NEW q \in Seq(S), q # << >>
  PROVE  /\ Head(q) \in S /\ Head(q) = q[1] /\ Tail(q) \in Seq(S)
         /\ Len(q) \in Nat /\ Len(q) >= 1 /\ Len(Tail(q)) = Len(q) - 1
         /\ \A i \in 1 .. Len(Tail(q)) : Tail(q)[i] = q[i + 1]
OBVIOUS

LEMMA Appended ==
  ASSUME NEW S, NEW q \in Seq(S), NEW x \in S
  PROVE  /\ Append(q, x) \in Seq(S) /\ Len(q) \in Nat /\ Len(Append(q, x)) = Len(q) + 1
         /\ \A i \in 1 .. Len(Append(q, x)) :
              Append(q, x)[i] = IF i <= Len(q) THEN q[i] ELSE x
OBVIOUS

-----------------------------------------------------------------------------
(* Counts *)

\* The counts of senders se, of an eventfd that stands at si, and of workers that still
\* mean to pop p[w] letters.
Tokens(se, si, p) ==
  (se \X {0}) \cup ({None} \X (1 .. si)) \cup UNION {{w} \X (1 .. p[w]) : w \in Workers}

Left == [w \in Workers |-> Pops(w)]

LEMMA CountsAre ==
  /\ Counts = Tokens(sending, signal, Left)
  /\ Counts' = Tokens(sending', signal', Left')
<1>1. {{w} \X (1 .. Pops(w)) : w \in Workers} = {{w} \X (1 .. Left[w]) : w \in Workers}
  BY DEF Left
<1>2. {{w} \X (1 .. Pops(w)') : w \in Workers} = {{w} \X (1 .. (Left')[w]) : w \in Workers}
  BY DEF Left
<1>3. QED BY <1>1, <1>2 DEF Counts, Tokens

LEMMA TokenIn ==
  ASSUME NEW se, NEW si, NEW p, NEW t
  PROVE  t \in Tokens(se, si, p) <=>
           \/ \E s \in se : t = <<s, 0>>
           \/ \E i \in 1 .. si : t = <<None, i>>
           \/ \E w \in Workers : \E i \in 1 .. p[w] : t = <<w, i>>
<1>1. t \in UNION {{w} \X (1 .. p[w]) : w \in Workers}
        <=> \E w \in Workers : t \in {w} \X (1 .. p[w])
  OBVIOUS
<1>2. \A w \in Workers : t \in {w} \X (1 .. p[w]) <=> \E i \in 1 .. p[w] : t = <<w, i>>
  OBVIOUS
<1>3. QED BY <1>1, <1>2 DEF Tokens

LEMMA TokensFinite ==
  ASSUME NEW se \in SUBSET Senders, NEW si \in Nat, NEW p \in [Workers -> Int]
  PROVE  IsFiniteSet(Tokens(se, si, p)) /\ Cardinality(Tokens(se, si, p)) \in Nat
<1>1. IsFiniteSet(se \X {0})
  <2>1. IsFiniteSet(se)
    BY FS_Subset, PoolAssumption
  <2> QED BY <2>1, FS_Singleton, FS_Product
<1>2. IsFiniteSet({None} \X (1 .. si))
  <2>1. IsFiniteSet(1 .. si)
    BY FS_Interval
  <2>2. IsFiniteSet({None})
    BY FS_Singleton
  <2> QED BY <2>1, <2>2, FS_Product
<1>3. \A w \in Workers : IsFiniteSet({w} \X (1 .. p[w]))
  <2> SUFFICES ASSUME NEW w \in Workers PROVE IsFiniteSet({w} \X (1 .. p[w]))
    OBVIOUS
  <2>1. p[w] \in Int
    OBVIOUS
  <2>2. IsFiniteSet(1 .. p[w])
    BY <2>1, FS_Interval
  <2>3. IsFiniteSet({w})
    BY FS_Singleton
  <2> QED BY <2>2, <2>3, FS_Product
<1>4. IsFiniteSet({{w} \X (1 .. p[w]) : w \in Workers})
  <2> DEFINE f == [w \in Workers |-> {w} \X (1 .. p[w])]
             T == {{w} \X (1 .. p[w]) : w \in Workers}
  <2>1. f \in Surjection(Workers, T)
    BY DEF Surjection
  <2>2. IsFiniteSet(Workers)
    BY PoolAssumption
  <2> HIDE DEF f, T
  <2>3. IsFiniteSet(T)
    BY <2>1, <2>2, FS_Surjection
  <2> QED BY <2>3 DEF T
<1>5. IsFiniteSet(UNION {{w} \X (1 .. p[w]) : w \in Workers})
  BY <1>3, <1>4, FS_UNION
<1>6. IsFiniteSet(Tokens(se, si, p))
  BY <1>1, <1>2, <1>5, FS_Union DEF Tokens
<1>7. QED BY <1>6, FS_CardinalityType

\* A sender is about to write.
LEMMA SenderCounts ==
  ASSUME NEW se \in SUBSET Senders, NEW si \in Nat, NEW p \in [Workers -> Int],
         NEW s \in Senders \ se
  PROVE  Cardinality(Tokens(se \cup {s}, si, p)) = Cardinality(Tokens(se, si, p)) + 1
<1> DEFINE A == Tokens(se, si, p)
           B == Tokens(se \cup {s}, si, p)
<1>1. \A t : t \in B <=> t \in A \/ t = <<s, 0>>
  <2> SUFFICES ASSUME NEW t PROVE t \in B <=> t \in A \/ t = <<s, 0>>
    OBVIOUS
  <2>1. t \in A <=> \/ \E x \in se : t = <<x, 0>>
                    \/ \E i \in 1 .. si : t = <<None, i>>
                    \/ \E w \in Workers : \E i \in 1 .. p[w] : t = <<w, i>>
    BY TokenIn
  <2>2. t \in B <=> \/ \E x \in se \cup {s} : t = <<x, 0>>
                    \/ \E i \in 1 .. si : t = <<None, i>>
                    \/ \E w \in Workers : \E i \in 1 .. p[w] : t = <<w, i>>
    BY TokenIn
  <2> HIDE DEF A, B
  <2>3. QED BY <2>1, <2>2
<1>2. <<s, 0>> \notin A
  BY TokenIn
<1>3. IsFiniteSet(A) /\ Cardinality(A) \in Nat
  BY TokensFinite
<1> HIDE DEF A, B
<1>4. B = A \cup {<<s, 0>>}
  BY <1>1
<1>5. Cardinality(B) = Cardinality(A) + 1
  BY <1>2, <1>3, <1>4, FS_AddElement
<1>6. QED BY <1>5 DEF A, B

\* The eventfd counts one more.
LEMMA EventfdCounts ==
  ASSUME NEW se \in SUBSET Senders, NEW si \in Nat, NEW p \in [Workers -> Int]
  PROVE  Cardinality(Tokens(se, si + 1, p)) = Cardinality(Tokens(se, si, p)) + 1
<1> DEFINE A == Tokens(se, si, p)
           B == Tokens(se, si + 1, p)
           x == <<None, si + 1>>
<1>1. \A t : t \in B <=> t \in A \/ t = x
  <2> SUFFICES ASSUME NEW t PROVE t \in B <=> t \in A \/ t = x
    OBVIOUS
  <2>1. t \in A <=> \/ \E y \in se : t = <<y, 0>>
                    \/ \E i \in 1 .. si : t = <<None, i>>
                    \/ \E w \in Workers : \E i \in 1 .. p[w] : t = <<w, i>>
    BY TokenIn
  <2>2. t \in B <=> \/ \E y \in se : t = <<y, 0>>
                    \/ \E i \in 1 .. (si + 1) : t = <<None, i>>
                    \/ \E w \in Workers : \E i \in 1 .. p[w] : t = <<w, i>>
    BY TokenIn
  <2> HIDE DEF A, B
  <2>3. \A i : i \in 1 .. (si + 1) <=> i \in 1 .. si \/ i = si + 1
    OBVIOUS
  <2>4. QED BY <2>1, <2>2, <2>3
<1>2. x \notin A
  <2>1. None \notin Workers
    BY PoolAssumption
  <2>2. QED BY <2>1, TokenIn
<1>3. IsFiniteSet(A) /\ Cardinality(A) \in Nat
  BY TokensFinite
<1> HIDE DEF A, B, x
<1>4. B = A \cup {x}
  BY <1>1
<1>5. Cardinality(B) = Cardinality(A) + 1
  BY <1>2, <1>3, <1>4, FS_AddElement
<1>6. QED BY <1>5 DEF A, B

\* A worker pops: one count less.
OneLess(p, q, w) ==
  /\ p[w] > 0
  /\ q \in [Workers -> Int]
  /\ \A v \in Workers : q[v] = IF v = w THEN p[w] - 1 ELSE p[v]

LEMMA PopCounts ==
  ASSUME NEW se \in SUBSET Senders, NEW si \in Nat, NEW p \in [Workers -> Int],
         NEW w \in Workers, NEW q, OneLess(p, q, w)
  PROVE  Cardinality(Tokens(se, si, q)) = Cardinality(Tokens(se, si, p)) - 1
<1> DEFINE A == Tokens(se, si, p)
           B == Tokens(se, si, q)
           x == <<w, p[w]>>
<1>0. /\ p[w] > 0 /\ q \in [Workers -> Int]
      /\ \A v \in Workers : q[v] = IF v = w THEN p[w] - 1 ELSE p[v]
  BY DEF OneLess
<1>1. \A t : t \in B <=> t \in A /\ t # x
  <2> SUFFICES ASSUME NEW t PROVE t \in B <=> t \in A /\ t # x
    OBVIOUS
  <2>1. t \in A <=> \/ \E y \in se : t = <<y, 0>>
                    \/ \E i \in 1 .. si : t = <<None, i>>
                    \/ \E v \in Workers : \E i \in 1 .. p[v] : t = <<v, i>>
    BY TokenIn
  <2>2. t \in B <=> \/ \E y \in se : t = <<y, 0>>
                    \/ \E i \in 1 .. si : t = <<None, i>>
                    \/ \E v \in Workers : \E i \in 1 .. q[v] : t = <<v, i>>
    BY <1>0, TokenIn
  <2> HIDE DEF A, B
  <2>3. \A v \in Workers : \A i : i \in 1 .. q[v] <=> i \in 1 .. p[v] /\ (v = w => i # p[w])
    BY <1>0
  <2>4. (\E v \in Workers : \E i \in 1 .. q[v] : t = <<v, i>>)
          <=> (\E v \in Workers : \E i \in 1 .. p[v] : t = <<v, i>>) /\ t # x
    BY <2>3
  <2>5. (\E y \in se : t = <<y, 0>>) => t # x
    BY <1>0
  <2>6. (\E i \in 1 .. si : t = <<None, i>>) => t # x
    BY PoolAssumption
  <2> HIDE DEF x
  <2>7. QED BY <2>1, <2>2, <2>4, <2>5, <2>6
<1>2. x \in A
  <2>1. p[w] \in 1 .. p[w]
    BY <1>0
  <2>2. QED BY <2>1, TokenIn
<1>3. IsFiniteSet(A) /\ Cardinality(A) \in Nat
  BY TokensFinite
<1> HIDE DEF A, B, x
<1>4. B = A \ {x}
  BY <1>1
<1>5. Cardinality(B) = Cardinality(A) - 1
  BY <1>2, <1>3, <1>4, FS_RemoveElement
<1>6. QED BY <1>5 DEF A, B

\* The worker that reads the eventfd takes its counts over.
LEMMA ReadCounts ==
  ASSUME NEW se \in SUBSET Senders, NEW si \in Nat, NEW p \in [Workers -> Int],
         NEW w \in Workers, p[w] = 0
  PROVE  Cardinality(Tokens(se, si, p)) <= Cardinality(Tokens(se, 0, [p EXCEPT ![w] = si]))
<1> DEFINE q == [p EXCEPT ![w] = si]
           A == Tokens(se, si, p)
           B == Tokens(se, 0, q)
           f == [t \in A |-> IF t[1] = None /\ t[2] # 0 THEN <<w, t[2]>> ELSE t]
<1>0. \A v \in Workers : q[v] = IF v = w THEN si ELSE p[v]
  OBVIOUS
<1>1. \A t \in A : \/ \E y \in se : t = <<y, 0>>
                   \/ \E i \in 1 .. si : t = <<None, i>>
                   \/ \E v \in Workers : v # w /\ \E i \in 1 .. p[v] : t = <<v, i>>
  BY TokenIn
<1>2. /\ \A y \in se : <<y, 0>> \in B
      /\ \A i \in 1 .. si : <<w, i>> \in B
      /\ \A v \in Workers : v # w => \A i \in 1 .. p[v] : <<v, i>> \in B
  BY <1>0, TokenIn
<1>3. IsFiniteSet(B)
  <2>1. q \in [Workers -> Int]
    OBVIOUS
  <2> HIDE DEF q
  <2>2. QED BY <2>1, TokensFinite
<1> HIDE DEF A, B, q
<1>4. f \in [A -> B]
  <2> SUFFICES ASSUME NEW t \in A PROVE f[t] \in B
    OBVIOUS
  <2>1. CASE \E y \in se : t = <<y, 0>>
    BY <1>2, <2>1
  <2>2. CASE \E i \in 1 .. si : t = <<None, i>>
    BY <1>2, <2>2
  <2>3. CASE \E v \in Workers : v # w /\ \E i \in 1 .. p[v] : t = <<v, i>>
    BY <1>2, <2>3, PoolAssumption
  <2>4. QED BY <1>1, <2>1, <2>2, <2>3
<1>5. \A t, u \in A : f[t] = f[u] => t = u
  BY <1>1, PoolAssumption
<1> HIDE DEF f
<1>6. f \in Injection(A, B)
  BY <1>4, <1>5 DEF Injection, IsInjective
<1>7. Cardinality(A) <= Cardinality(B)
  BY <1>3, <1>6, FS_Injection
<1>8. QED BY <1>7 DEF A, B, q

-----------------------------------------------------------------------------
(* Types *)

LEMMA TypeStep ==
  ASSUME TypeOK, PoolState, [Next]_vars
  PROVE  TypeOK'
<1> USE PoolAssumption
<1>1. CASE \E s \in Senders : \E l \in Letters : SendPush(s, l)
  <2> PICK s \in Senders, l \in Letters : SendPush(s, l)
    BY <1>1
  <2>1. queue' \in Seq(Letters) /\ Len(queue') < Size
    BY Appended DEF SendPush, TypeOK
  <2>2. deferred \in [Workers -> SUBSET called] /\ called \subseteq sent'
    BY DEF SendPush, TypeOK
  <2>3. QED BY <2>1, <2>2 DEF TypeOK, SendPush, work, stop
<1>2. CASE \E s \in Senders : \E l \in Letters : SendLost(s, l)
  BY <1>2 DEF TypeOK, SendLost, work, stop
<1>3. CASE \E s \in Senders : SendNotify(s)
  BY <1>3 DEF TypeOK, SendNotify, work, stop
<1>4. CASE \E w \in Workers : Wake(w)
  BY <1>4 DEF TypeOK, Wake, pool, stop
<1>5. CASE \E w \in Workers : ReadSignal(w)
  BY <1>5 DEF TypeOK, ReadSignal, stop
<1>6. CASE \E w \in Workers : PopTake(w)
  <2> PICK w \in Workers : PopTake(w)
    BY <1>6
  <2>1. queue' \in Seq(Letters) /\ Len(queue') < Size /\ Head(queue) \in Letters
    BY HeadTail DEF PopTake, TypeOK
  <2>2. lag' \in [Workers -> 0 .. Size - 1]
    BY DEF PopTake, TypeOK
  <2>3. job' \in [Workers -> Letters \cup {None}]
    BY <2>1 DEF PopTake, TypeOK
  <2>4. \A v \in Workers : job'[v] # None <=> at'[v] = "call"
    BY <2>1 DEF PopTake, TypeOK
  <2>5. QED BY <2>1, <2>2, <2>3, <2>4 DEF TypeOK, PopTake, stop
<1>7. CASE \E w \in Workers : PopRetry(w)
  BY <1>7 DEF TypeOK, PopRetry, pool, stop
<1>8. CASE \E w \in Workers : PopMiss(w)
  BY <1>8 DEF TypeOK, PopMiss, pool, stop
<1>9. CASE \E w \in Workers : Call(w)
  <2> PICK w \in Workers : Call(w)
    BY <1>9
  <2>1. job[w] \in Letters /\ job[w] \in sent /\ left[w] - 1 \in Nat
    BY DEF Call, TypeOK, PoolState
  <2>2. called' \subseteq sent' /\ sent' \subseteq Letters
    BY <2>1 DEF Call, TypeOK, pool
  <2>3. deferred' \in [Workers -> SUBSET called']
    <3>1. called' = called \cup {job[w]} /\ deferred \in [Workers -> SUBSET called]
      BY DEF Call, TypeOK
    <3>2. \/ deferred' = deferred
          \/ deferred' = [deferred EXCEPT ![w] = @ \cup {job[w]}]
      BY DEF Call
    <3>3. QED BY <3>1, <3>2
  <2>4. left' \in [Workers -> Nat] /\ lag' \in [Workers -> 0 .. Size - 1]
    BY <2>1 DEF Call, TypeOK
  <2>5. \A v \in Workers : job'[v] # None <=> at'[v] = "call"
    BY DEF Call, TypeOK
  <2>6. QED BY <2>2, <2>3, <2>4, <2>5 DEF TypeOK, Call, pool, stop
<1>10. CASE \E w \in Workers : \E l \in Letters : Reply(w, l)
  BY <1>10 DEF TypeOK, Reply, pool, stop
<1>11. CASE \E w \in Workers : StopProc(w)
  BY <1>11 DEF TypeOK, StopProc, pool, work
<1>12. CASE \E w \in Workers : LoopEnds(w)
  BY <1>12 DEF TypeOK, LoopEnds, pool
<1>13. CASE Close
  BY <1>13 DEF TypeOK, Close, work
<1>14. CASE UNCHANGED vars
  BY <1>14 DEF TypeOK, vars, pool, work, stop
<1>15. QED
  BY <1>1, <1>2, <1>3, <1>4, <1>5, <1>6, <1>7, <1>8, <1>9, <1>10, <1>11, <1>12, <1>13, <1>14 DEF Next, Worker

-----------------------------------------------------------------------------
(* Who counts, and who has gone *)

LEMMA StateStep ==
  ASSUME TypeOK, PoolState, [Next]_vars
  PROVE  PoolState'
<1> USE PoolAssumption
<1>1. CASE \E s \in Senders : \E l \in Letters : SendPush(s, l)
  <2> PICK s \in Senders, l \in Letters : SendPush(s, l)
    BY <1>1
  <2>1. \A i \in 1 .. Len(queue') : queue'[i] \in sent'
    BY Appended DEF SendPush, TypeOK, PoolState
  <2>2. QED BY <2>1 DEF PoolState, SendPush, work, stop
<1>2. CASE \E s \in Senders : \E l \in Letters : SendLost(s, l)
  BY <1>2 DEF PoolState, SendLost, work, stop
<1>3. CASE \E s \in Senders : SendNotify(s)
  BY <1>3 DEF PoolState, SendNotify, work, stop
<1>4. CASE \E w \in Workers : Wake(w)
  BY <1>4 DEF TypeOK, PoolState, Wake, pool, stop
<1>5. CASE \E w \in Workers : ReadSignal(w)
  BY <1>5 DEF TypeOK, PoolState, ReadSignal, stop
<1>6. CASE \E w \in Workers : PopTake(w)
  <2> PICK w \in Workers : PopTake(w)
    BY <1>6
  <2>1. Head(queue) \in sent /\ \A i \in 1 .. Len(queue') : queue'[i] \in sent'
    BY HeadTail DEF PopTake, TypeOK, PoolState
  <2>2. QED BY <2>1 DEF TypeOK, PoolState, PopTake, stop
<1>7. CASE \E w \in Workers : PopRetry(w)
  BY <1>7 DEF PoolState, PopRetry, pool, stop
<1>8. CASE \E w \in Workers : PopMiss(w)
  BY <1>8 DEF TypeOK, PoolState, PopMiss, pool, stop
<1>9. CASE \E w \in Workers : Call(w)
  <2> PICK w \in Workers : Call(w)
    BY <1>9
  <2>1. \A v \in Workers : IF at'[v] \in {"pop", "call"} THEN left'[v] > 0 ELSE left'[v] = 0
    BY DEF TypeOK, PoolState, Call
  <2>2. QED BY <2>1 DEF TypeOK, PoolState, Call, pool, stop
<1>10. CASE \E w \in Workers : \E l \in Letters : Reply(w, l)
  BY <1>10 DEF PoolState, Reply, pool, stop
<1>11. CASE \E w \in Workers : StopProc(w)
  BY <1>11 DEF PoolState, StopProc, pool, work
<1>12. CASE \E w \in Workers : LoopEnds(w)
  BY <1>12 DEF TypeOK, PoolState, LoopEnds, pool
<1>13. CASE Close
  BY <1>13 DEF PoolState, Close, work
<1>14. CASE UNCHANGED vars
  BY <1>14 DEF PoolState, vars, pool, work, stop
<1>15. QED
  BY <1>1, <1>2, <1>3, <1>4, <1>5, <1>6, <1>7, <1>8, <1>9, <1>10, <1>11, <1>12, <1>13, <1>14 DEF Next, Worker

-----------------------------------------------------------------------------
(* No lost wake-up *)

LEMMA LeftIs ==
  ASSUME TypeOK
  PROVE  /\ Left \in [Workers -> Int]
         /\ \A w \in Workers : Left[w] = IF at[w] = "call" THEN left[w] - 1 ELSE left[w]
<1>1. \A w \in Workers : Pops(w) = IF at[w] = "call" THEN left[w] - 1 ELSE left[w]
  BY DEF Pops
<1>2. \A w \in Workers : left[w] \in Int
  BY DEF TypeOK
<1>3. QED BY <1>1, <1>2 DEF Left

LEMMA LeftNext ==
  Left' = [w \in Workers |-> IF at'[w] = "call" THEN left'[w] - 1 ELSE left'[w]]
BY DEF Left, Pops

\* Counts stay as they are when nothing they are made of changes.
LEMMA SameCounts ==
  ASSUME NoLetterStranded, UNCHANGED <<queue, signal, sending, missed, stopping>>, Left' = Left
  PROVE  NoLetterStranded'
<1>1. Counts' = Counts
  BY CountsAre
<1>2. QED BY <1>1 DEF NoLetterStranded

LEMMA StrandedStep ==
  ASSUME TypeOK, PoolState, NoLetterStranded, [Next]_vars, TypeOK', PoolState'
  PROVE  NoLetterStranded'
<1> SUFFICES ASSUME ~ missed', ~ stopping' PROVE Len(queue') <= Cardinality(Counts')
  BY DEF NoLetterStranded
<1>a. sending \in SUBSET Senders /\ signal \in Nat /\ Len(queue) \in Nat
  BY DEF TypeOK
<1>b. sending' \in SUBSET Senders /\ signal' \in Nat
  BY DEF TypeOK
<1>c. /\ Left \in [Workers -> Int]
      /\ \A w \in Workers : Left[w] = IF at[w] = "call" THEN left[w] - 1 ELSE left[w]
  BY LeftIs
<1>d. Counts = Tokens(sending, signal, Left) /\ Counts' = Tokens(sending', signal', Left')
  BY CountsAre
<1>e. Cardinality(Counts) \in Nat
  BY <1>a, <1>c, <1>d, TokensFinite
<1>f. Left' \in [Workers -> Int]
  <2>1. left' \in [Workers -> Nat]
    BY DEF TypeOK
  <2>2. \A w \in Workers : left'[w] \in Int
    BY <2>1
  <2>3. QED BY <2>2, LeftNext
<1>g. Cardinality(Counts') \in Nat
  BY <1>b, <1>d, <1>f, TokensFinite
<1>h. ~ missed /\ ~ stopping => Len(queue) <= Cardinality(Counts)
  BY DEF NoLetterStranded
<1>1. CASE \E s \in Senders : \E l \in Letters : SendPush(s, l)
  <2> PICK s \in Senders, l \in Letters : SendPush(s, l)
    BY <1>1
  <2>1. Left' = Left /\ signal' = signal /\ sending' = sending \cup {s} /\ s \in Senders \ sending
    BY LeftNext, <1>c DEF SendPush, work
  <2>2. Len(queue') = Len(queue) + 1
    BY Appended DEF SendPush, TypeOK
  <2>3. Cardinality(Counts') = Cardinality(Counts) + 1
    BY <1>a, <1>c, <1>d, <2>1, SenderCounts
  <2>4. ~ missed /\ ~ stopping
    BY DEF SendPush, work, stop
  <2>5. QED BY <1>a, <1>e, <1>h, <2>2, <2>3, <2>4
<1>2. CASE \E s \in Senders : \E l \in Letters : SendLost(s, l)
  <2> PICK s \in Senders, l \in Letters : SendLost(s, l)
    BY <1>2
  <2>1. Left' = Left /\ signal' = signal /\ sending' = sending \cup {s} /\ s \in Senders \ sending
    BY LeftNext, <1>c DEF SendLost, work
  <2>2. Cardinality(Counts') = Cardinality(Counts) + 1
    BY <1>a, <1>c, <1>d, <2>1, SenderCounts
  <2>3. queue' = queue /\ ~ missed /\ ~ stopping
    BY DEF SendLost, work, stop
  <2>4. QED BY <1>a, <1>e, <1>h, <2>2, <2>3
<1>3. CASE \E s \in Senders : SendNotify(s)
  <2> PICK s \in Senders : SendNotify(s)
    BY <1>3
  <2>1. ~ missed /\ ~ stopping /\ queue' = queue /\ ~ closed
    BY DEF SendNotify, work, stop, PoolState
  <2>2. /\ Left' = Left /\ signal' = signal + 1
        /\ sending' = sending \ {s} /\ sending = sending' \cup {s} /\ s \in Senders \ sending'
    BY <2>1, LeftNext, <1>c DEF SendNotify, work
  <2>3. Cardinality(Tokens(sending' \cup {s}, signal, Left)) = Cardinality(Tokens(sending', signal, Left)) + 1
    BY <1>a, <1>b, <1>c, <2>2, SenderCounts
  <2>4. Cardinality(Tokens(sending', signal + 1, Left)) = Cardinality(Tokens(sending', signal, Left)) + 1
    BY <1>a, <1>b, <1>c, EventfdCounts
  <2>5. Cardinality(Counts') = Cardinality(Counts)
    BY <1>d, <2>2, <2>3, <2>4
  <2>6. QED BY <1>h, <2>1, <2>5
<1>4. CASE \E w \in Workers : Wake(w)
  <2> PICK w \in Workers : Wake(w)
    BY <1>4
  <2>1. \A v \in Workers : at'[v] = "call" <=> at[v] = "call"
    BY DEF Wake, TypeOK
  <2>2. Left' = Left
    BY <2>1, <1>c, LeftNext DEF Wake
  <2>3. QED BY <2>2, SameCounts DEF Wake, pool, stop, NoLetterStranded
<1>5. CASE \E w \in Workers : ReadSignal(w)
  <2> PICK w \in Workers : ReadSignal(w)
    BY <1>5
  <2>1. Left[w] = 0
    BY <1>c DEF ReadSignal, PoolState
  <2>2. \A v \in Workers : at'[v] = "call" <=> v # w /\ at[v] = "call"
    BY DEF ReadSignal, TypeOK
  <2>3. \A v \in Workers : left'[v] = IF v = w THEN signal ELSE left[v]
    BY DEF ReadSignal, TypeOK
  <2>4. Left' = [Left EXCEPT ![w] = signal]
    BY <1>c, <2>2, <2>3, LeftNext
  <2>5. Cardinality(Tokens(sending, signal, Left))
          <= Cardinality(Tokens(sending, 0, [Left EXCEPT ![w] = signal]))
    BY <1>a, <1>c, <2>1, ReadCounts
  <2>6. signal' = 0 /\ sending' = sending /\ queue' = queue /\ ~ missed /\ ~ stopping
    BY DEF ReadSignal, stop
  <2>7. Cardinality(Counts) <= Cardinality(Counts')
    BY <1>d, <2>4, <2>5, <2>6
  <2>8. QED BY <1>a, <1>e, <1>g, <1>h, <2>6, <2>7
<1>6. CASE \E w \in Workers : PopTake(w)
  <2> PICK w \in Workers : PopTake(w)
    BY <1>6
  <2>1. Left[w] = left[w] /\ Left[w] > 0
    BY <1>c DEF PopTake, PoolState
  <2>2. \A v \in Workers : at'[v] = "call" <=> v = w \/ at[v] = "call"
    BY DEF PopTake, TypeOK
  <2>3. Left' = [Left EXCEPT ![w] = @ - 1]
    BY <1>c, <2>1, <2>2, LeftNext DEF PopTake
  <2>4. Cardinality(Tokens(sending, signal, Left')) = Cardinality(Tokens(sending, signal, Left)) - 1
    <3>1. Left \in [Workers -> Int] /\ Left[w] > 0
      BY <1>c, <2>1
    <3>2. PICK p, q : p = Left /\ q = Left'
      OBVIOUS
    <3>3. p \in [Workers -> Int] /\ p[w] > 0 /\ q = [p EXCEPT ![w] = @ - 1]
      BY <2>3, <3>1, <3>2
    <3>4. OneLess(p, q, w)
      BY <3>3 DEF OneLess
    <3>5. Cardinality(Tokens(sending, signal, q)) = Cardinality(Tokens(sending, signal, p)) - 1
      BY <1>a, <3>3, <3>4, PopCounts
    <3>6. QED BY <3>2, <3>5
  <2>5. signal' = signal /\ sending' = sending /\ ~ missed /\ ~ stopping
    BY DEF PopTake, stop
  <2>6. Len(queue') = Len(queue) - 1
    BY HeadTail DEF PopTake, TypeOK
  <2>7. Cardinality(Counts') = Cardinality(Counts) - 1
    BY <1>d, <2>4, <2>5
  <2>8. QED BY <1>a, <1>e, <1>h, <2>5, <2>6, <2>7
<1>7. CASE \E w \in Workers : PopRetry(w)
  <2>1. Left' = Left
    BY <1>7, <1>c, LeftNext DEF PopRetry
  <2>2. QED BY <1>7, <2>1, SameCounts DEF PopRetry, pool, stop, NoLetterStranded
<1>8. CASE \E w \in Workers : PopMiss(w)
  <2>1. queue' = << >>
    BY <1>8 DEF PopMiss, pool
  <2>2. Len(queue') = 0
    BY <2>1
  <2>3. QED BY <1>g, <2>2
<1>9. CASE \E w \in Workers : Call(w)
  <2> PICK w \in Workers : Call(w)
    BY <1>9
  <2>1. \A v \in Workers : at'[v] = "call" <=> v # w /\ at[v] = "call"
    BY DEF Call, TypeOK
  <2>2. \A v \in Workers : left'[v] = IF v = w THEN left[w] - 1 ELSE left[v]
    BY DEF Call, TypeOK
  <2>3. at[w] = "call"
    BY DEF Call
  <2>4. Left' = Left
    BY <1>c, <2>1, <2>2, <2>3, LeftNext
  <2>5. QED BY <2>4, SameCounts DEF Call, pool, stop, NoLetterStranded
<1>10. CASE \E w \in Workers : \E l \in Letters : Reply(w, l)
  <2>1. Left' = Left
    BY <1>10, <1>c, LeftNext DEF Reply
  <2>2. QED BY <1>10, <2>1, SameCounts DEF Reply, pool, stop, NoLetterStranded
<1>11. CASE \E w \in Workers : StopProc(w)
  BY <1>11 DEF StopProc
<1>12. CASE \E w \in Workers : LoopEnds(w)
  BY <1>12 DEF LoopEnds, PoolState
<1>13. CASE Close
  <2>1. closed'
    BY <1>13 DEF Close
  <2>2. QED BY <2>1 DEF PoolState
<1>14. CASE UNCHANGED vars
  <2>1. Left' = Left
    BY <1>14, <1>c, LeftNext DEF vars, work
  <2>2. QED BY <1>14, <2>1, SameCounts DEF vars, pool, work, stop, NoLetterStranded
<1>15. QED
  BY <1>1, <1>2, <1>3, <1>4, <1>5, <1>6, <1>7, <1>8, <1>9, <1>10, <1>11, <1>12, <1>13, <1>14 DEF Next, Worker

-----------------------------------------------------------------------------
LEMMA InitHolds == Init => IInv
<1> SUFFICES ASSUME Init PROVE IInv
  OBVIOUS
<1> USE PoolAssumption
<1>1. TypeOK
  <2>1. << >> \in Seq(Letters) /\ Len(<< >>) = 0
    OBVIOUS
  <2>2. lag \in [Workers -> 0 .. Size - 1]
    BY DEF Init
  <2>3. queue \in Seq(Letters) /\ Len(queue) < Size
    BY <2>1 DEF Init
  <2>4. /\ at \in [Workers -> {"wait", "read", "pop", "call", "gone"}]
        /\ left \in [Workers -> Nat]
        /\ job \in [Workers -> Letters \cup {None}]
        /\ \A w \in Workers : job[w] # None <=> at[w] = "call"
        /\ deferred \in [Workers -> SUBSET called]
    BY DEF Init
  <2>5. QED BY <2>2, <2>3, <2>4 DEF Init, TypeOK
<1>2. PoolState
  BY DEF Init, PoolState
<1>3. NoLetterStranded
  <2>1. Left \in [Workers -> Int] /\ sending \in SUBSET Senders /\ signal \in Nat
    BY <1>1, LeftIs DEF TypeOK
  <2>2. Cardinality(Counts) \in Nat
    BY <2>1, CountsAre, TokensFinite
  <2>3. Len(queue) = 0
    BY DEF Init
  <2>4. QED BY <2>2, <2>3 DEF NoLetterStranded
<1>4. QED BY <1>1, <1>2, <1>3 DEF IInv

\* Whatever readers send and workers pop: the ring is never filled past its capacity, a
\* worker has a letter exactly while it calls its method, and counts match letters.
THEOREM Invariance == Spec => []IInv
<1>1. Init => IInv
  BY InitHolds
<1>2. IInv /\ [Next]_vars => IInv'
  BY TypeStep, StateStep, StrandedStep DEF IInv
<1>3. QED BY <1>1, <1>2, PTL DEF Spec

\* The types of ServicePool's state: the queue below its capacity, methods called only
\* for letters that were sent, replies kept only for methods that were called.
THEOREM TypeCorrect == Spec => []TypeOK
<1>1. IInv => TypeOK
  BY DEF IInv
<1>2. QED BY <1>1, Invariance, PTL

\* on_read of ServProc::prepare takes the whole eventfd and send writes it after each
\* push: while nothing has been missed and nobody stops the pool, no letter is in the
\* queue without a count that will make some worker pop it.
THEOREM WakeUps == Spec => []NoLetterStranded
<1>1. IInv => NoLetterStranded
  BY DEF IInv
<1>2. QED BY <1>1, Invariance, PTL

=============================================================================
