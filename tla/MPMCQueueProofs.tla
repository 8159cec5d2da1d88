--------------------------- MODULE MPMCQueueProofs ---------------------------
(***************************************************************************)
(* MPMCQueue is safe for every ring size, every number of threads and      *)
(* every schedule, until a claim overruns the ring; and that takes a       *)
(* thread that has been overtaken a full lap between the load of an index  *)
(* and its compare-and-swap.                                               *)
(***************************************************************************)
EXTENDS MPMCQueue, Sequences, TLAPS

-----------------------------------------------------------------------------
(* Index arithmetic. *)

\* Indices wrap inside the ring, distances are smaller than the ring.
LEMMA IndexType ==
  /\ \A i \in Slots : Inc(i) \in Slots
  /\ \A i, j \in Slots : Dist(i, j) \in Slots /\ (Dist(i, j) = 0 <=> i = j)
BY QueueAssumption DEF Slots, Inc, Dist

\* Advancing the end of an interval adds the slot it stood on.
LEMMA Grow ==
  ASSUME NEW a \in Slots, NEW b \in Slots, Inc(b) # a
  PROVE  /\ Dist(a, Inc(b)) = Dist(a, b) + 1
         /\ \A s \in Slots : Within(a, s, Inc(b)) <=> Within(a, s, b) \/ s = b
BY QueueAssumption DEF Slots, Inc, Dist, Within

\* Advancing the start of an interval removes the slot it stood on.
LEMMA Shrink ==
  ASSUME NEW a \in Slots, NEW b \in Slots, a # b
  PROVE  /\ Dist(Inc(a), b) = Dist(a, b) - 1
         /\ \A s \in Slots : Within(Inc(a), s, b) <=> Within(a, s, b) /\ s # a
         /\ Within(a, a, b)
BY QueueAssumption DEF Slots, Inc, Dist, Within

\* Each of the four cursors may advance while it does not stand on the next.
LEMMA OrderSteps ==
  ASSUME NEW a \in Slots, NEW b \in Slots, NEW c \in Slots, NEW d \in Slots,
         InOrder(a, b, c, d)
  PROVE  /\ a # b => InOrder(Inc(a), b, c, d)
         /\ b # c => InOrder(a, Inc(b), c, d) /\ Inc(b) # a
         /\ c # d => InOrder(a, b, Inc(c), d) /\ Inc(c) # b
         /\ Inc(d) # a => InOrder(a, b, c, Inc(d)) /\ Inc(d) # c
BY QueueAssumption DEF Slots, Inc, Dist, InOrder

\* The three sections between the cursors partition what lies between the
\* first and the last.
LEMMA Sections ==
  ASSUME NEW a \in Slots, NEW b \in Slots, NEW c \in Slots, NEW d \in Slots,
         InOrder(a, b, c, d), NEW s \in Slots
  PROVE  /\ Within(a, s, d) <=> Within(a, s, b) \/ Within(b, s, c) \/ Within(c, s, d)
         /\ ~ (Within(a, s, b) /\ Within(b, s, c))
         /\ ~ (Within(a, s, b) /\ Within(c, s, d))
         /\ ~ (Within(b, s, c) /\ Within(c, s, d))
         /\ ~ Within(a, d, d)
BY QueueAssumption DEF Slots, Dist, Within, InOrder

-----------------------------------------------------------------------------
(* The four kinds of step a thread takes, whichever operation it is in. *)

\* The invariant as it is before an overrun.
Whole ==
  /\ TypeOK /\ RoleOK /\ CursorOrder /\ RingState
  /\ ProducersOwn /\ ConsumersOwn /\ ChecksHold

OthersKeep(t) == \A u \in Threads \ {t} : pc'[u] = pc[u] /\ cur'[u] = cur[u]

Layout == CursorOrder /\ RingState /\ ProducersOwn /\ ConsumersOwn

\* Steps of producers leave the consumers' claims alone ...
LEMMA ConsumersFrame ==
  ASSUME ConsumersOwn, TypeOK, NEW p \in Producers, OthersKeep(p),
         UNCHANGED <<read_index, read_commit_index>>,
         \A s \in Slots : Within(read_commit_index, s, read_index) => ring'[s] = ring[s]
  PROVE  ConsumersOwn'
<1>1. \A c \in Consumers : pc'[c] = pc[c] /\ cur'[c] = cur[c] /\ cur[c] \in Slots
  BY QueueAssumption DEF OthersKeep, Threads, TypeOK
<1>2. QED
  BY <1>1 DEF ConsumersOwn, Taking, Within, Dist

\* ... and the other way round.
LEMMA ProducersFrame ==
  ASSUME ProducersOwn, TypeOK, NEW c \in Consumers, OthersKeep(c),
         UNCHANGED <<write_index, write_commit_index>>,
         \A s \in Slots : Within(write_commit_index, s, write_index) => ring'[s] = ring[s]
  PROVE  ProducersOwn'
<1>1. \A p \in Producers : pc'[p] = pc[p] /\ cur'[p] = cur[p] /\ cur[p] \in Slots
  BY QueueAssumption DEF OthersKeep, Threads, TypeOK
<1>2. QED
  BY <1>1 DEF ProducersOwn, Building, Within, Dist

\* Loading, checking, giving up: no slot changes hands.
LEMMA ProducerLocal ==
  ASSUME Whole, NEW p \in Producers, OthersKeep(p), ~ Building(p), ~ Building(p)',
         UNCHANGED <<indices, ring>>
  PROVE  Layout'
<1> USE DEF Whole, indices
<1>1. CursorOrder' /\ RingState'
  BY DEF CursorOrder, InOrder, RingState, Within, Dist
<1>2. \A q \in Producers : q # p => pc'[q] = pc[q] /\ cur'[q] = cur[q]
  BY DEF OthersKeep, Threads
<1>3. \A q \in Producers : (Building(q)' <=> Building(q)) /\ (Building(q) => q # p)
  BY <1>2 DEF Building
<1>4. ProducersOwn'
  BY <1>2, <1>3 DEF ProducersOwn, Within, Dist
<1>5. ConsumersOwn'
  BY ConsumersFrame
<1>6. QED BY <1>1, <1>4, <1>5 DEF Layout

\* A successful claim moves write_index over a raw slot.
LEMMA ProducerClaims ==
  ASSUME Whole, NEW p \in Producers, OthersKeep(p), ~ Building(p),
         ~ full, cur[p] = write_index, cur'[p] = cur[p],
         pc'[p] \in {"build", "sp_build"}, write_index' = Inc(cur[p]),
         UNCHANGED <<read_index, read_commit_index, write_commit_index, ring>>
  PROVE  Layout'
<1>0. /\ write_index \in Slots /\ write_commit_index \in Slots
      /\ read_index \in Slots /\ read_commit_index \in Slots
      /\ \A q \in Producers : cur[q] \in Slots
  BY DEF Whole, TypeOK, Threads
<1>1. CursorOrder' /\ write_index' # write_commit_index
  BY <1>0, OrderSteps DEF Whole, CursorOrder, full
<1>2. \A s \in Slots :
        /\ Within(write_commit_index, s, write_index')
             <=> Within(write_commit_index, s, write_index) \/ s = write_index
        /\ Within(read_commit_index, s, write_index')
             <=> Within(read_commit_index, s, write_index) \/ s = write_index
  BY <1>0, <1>1, Grow DEF full
<1>3. ring[write_index] = Raw /\ ~ Within(write_commit_index, write_index, write_index)
  BY <1>0, Sections DEF Whole, RingState, CursorOrder
<1>4. RingState'
  BY <1>2 DEF Whole, RingState, Within
<1>5. \A q \in Producers : q # p => pc'[q] = pc[q] /\ cur'[q] = cur[q]
  BY DEF OthersKeep, Threads
<1>6. ProducersOwn'
  <2>1. \A q \in Producers :
          /\ Building(q)' <=> Building(q) \/ q = p
          /\ cur'[q] = cur[q]
          /\ Building(q) => q # p
    BY <1>5 DEF Building
  <2>2. ASSUME NEW q \in Producers, Building(q)'
        PROVE  /\ Within(write_commit_index, cur[q], write_index')
               /\ ring[cur[q]] = Raw <=> pc'[q] \in {"build", "sp_build"}
    BY <2>1, <2>2, <1>0, <1>2, <1>3, <1>5 DEF Whole, ProducersOwn
  <2>3. ASSUME NEW q \in Producers, NEW r \in Producers, q # r, Building(q)', Building(r)'
        PROVE  cur[q] # cur[r]
    BY <2>1, <2>3, <1>3 DEF Whole, ProducersOwn
  <2>4. ASSUME NEW s \in Slots, Within(write_commit_index, s, write_index')
        PROVE  \E q \in Producers : Building(q)' /\ cur[q] = s
    BY <2>1, <2>4, <1>2 DEF Whole, ProducersOwn
  <2>5. QED BY <2>1, <2>2, <2>3, <2>4 DEF ProducersOwn, Within, Dist
<1>7. ConsumersOwn'
  BY ConsumersFrame DEF Whole
<1>8. QED BY <1>1, <1>4, <1>6, <1>7 DEF Layout

\* Constructing the element fills a slot that only this producer may touch.
LEMMA ProducerBuilds ==
  ASSUME Whole, NEW p \in Producers, OthersKeep(p),
         pc[p] \in {"build", "sp_build"}, pc'[p] \in {"commit", "sp_commit"},
         cur'[p] = cur[p], ring' = [ring EXCEPT ![cur[p]] = val[p]], val[p] # Raw,
         UNCHANGED indices
  PROVE  Layout'
<1> USE DEF indices
<1>0. /\ write_index \in Slots /\ write_commit_index \in Slots
      /\ read_index \in Slots /\ read_commit_index \in Slots
      /\ \A q \in Producers : cur[q] \in Slots
      /\ \A s \in Slots : s # cur[p] => ring'[s] = ring[s]
      /\ ring'[cur[p]] # Raw
  BY DEF Whole, TypeOK, Threads
<1>1. CursorOrder'
  BY DEF Whole, CursorOrder, InOrder, Dist
<1>2. /\ Within(write_commit_index, cur[p], write_index)
      /\ Within(read_commit_index, cur[p], write_index)
      /\ ~ Within(read_commit_index, cur[p], read_index)
  BY <1>0, Sections DEF Whole, ProducersOwn, Building, CursorOrder
<1>3. RingState'
  BY <1>0, <1>2 DEF Whole, RingState, Within, Dist
<1>4. \A q \in Producers :
        /\ cur'[q] = cur[q]
        /\ Building(q)' <=> Building(q)
        /\ q # p => pc'[q] = pc[q]
  BY DEF OthersKeep, Threads, Building
<1>5. ProducersOwn'
  <2>1. ASSUME NEW q \in Producers, Building(q), q # p
        PROVE  cur[q] # cur[p] /\ ring'[cur[q]] = ring[cur[q]]
    BY <2>1, <1>0 DEF Whole, ProducersOwn, Building
  <2>2. ASSUME NEW q \in Producers, Building(q)
        PROVE  ring'[cur[q]] = Raw <=> pc'[q] \in {"build", "sp_build"}
    <3>1. CASE q = p
      BY <3>1, <1>0
    <3>2. CASE q # p
      BY <3>2, <2>1, <2>2, <1>4 DEF Whole, ProducersOwn
    <3>3. QED BY <3>1, <3>2
  <2>3. QED BY <2>2, <1>4 DEF Whole, ProducersOwn, Within, Dist
<1>6. ConsumersOwn'
  BY <1>0, <1>2, ConsumersFrame DEF Whole
<1>7. QED BY <1>1, <1>3, <1>5, <1>6 DEF Layout

\* The oldest claim commits: its slot, by now constructed, becomes an element.
LEMMA ProducerCommits ==
  ASSUME Whole, NEW p \in Producers, OthersKeep(p),
         pc[p] \in {"commit", "sp_commit"}, ~ Building(p)',
         write_commit_index = cur[p], write_commit_index' = Inc(cur[p]),
         UNCHANGED <<read_index, read_commit_index, write_index, ring>>
  PROVE  Layout'
<1>0. /\ write_index \in Slots /\ write_commit_index \in Slots
      /\ read_index \in Slots /\ read_commit_index \in Slots
      /\ \A q \in Producers : cur[q] \in Slots
  BY DEF Whole, TypeOK, Threads
<1>1. ring[cur[p]] # Raw /\ write_commit_index # write_index
  <2>1. /\ Within(write_commit_index, cur[p], write_index)
        /\ ring[cur[p]] = Raw <=> pc[p] \in {"build", "sp_build"}
    BY DEF Whole, ProducersOwn, Building
  <2>2. write_commit_index # write_index
    BY <2>1, <1>0, QueueAssumption DEF Within, Dist, Slots
  <2>3. QED BY <2>1, <2>2
<1>2. CursorOrder' /\ write_commit_index' # read_index
  BY <1>0, <1>1, OrderSteps DEF Whole, CursorOrder
<1>3. \A s \in Slots :
        /\ Within(write_commit_index', s, write_index)
             <=> Within(write_commit_index, s, write_index) /\ s # cur[p]
        /\ Within(read_index, s, write_commit_index')
             <=> Within(read_index, s, write_commit_index) \/ s = cur[p]
  BY <1>0, <1>1, <1>2, Grow, Shrink
<1>4. RingState'
  BY <1>1, <1>3 DEF Whole, RingState, Within, Dist
<1>5. \A q \in Producers :
        /\ Building(q)' <=> Building(q) /\ q # p
        /\ q # p => pc'[q] = pc[q] /\ cur'[q] = cur[q]
  BY DEF OthersKeep, Threads, Building
<1>6. Building(p)
  BY DEF Building
<1>7. ProducersOwn'
  <2>1. ASSUME NEW q \in Producers, Building(q)'
        PROVE  /\ Within(write_commit_index', cur'[q], write_index)
               /\ ring[cur'[q]] = Raw <=> pc'[q] \in {"build", "sp_build"}
    BY <2>1, <1>0, <1>3, <1>5, <1>6 DEF Whole, ProducersOwn
  <2>2. ASSUME NEW s \in Slots, Within(write_commit_index', s, write_index)
        PROVE  \E q \in Producers : Building(q)' /\ cur'[q] = s
    BY <2>2, <1>3, <1>5 DEF Whole, ProducersOwn
  <2>3. QED BY <2>1, <2>2, <1>5 DEF Whole, ProducersOwn, Within, Dist
<1>8. ConsumersOwn'
  BY ConsumersFrame DEF Whole
<1>9. QED BY <1>2, <1>4, <1>7, <1>8 DEF Layout

\* Loading, checking, giving up on the other side.
LEMMA ConsumerLocal ==
  ASSUME Whole, NEW c \in Consumers, OthersKeep(c), ~ Taking(c), ~ Taking(c)',
         UNCHANGED <<indices, ring>>
  PROVE  Layout'
<1> USE DEF Whole, indices
<1>1. CursorOrder' /\ RingState'
  BY DEF CursorOrder, InOrder, RingState, Within, Dist
<1>2. \A d \in Consumers : d # c => pc'[d] = pc[d] /\ cur'[d] = cur[d]
  BY DEF OthersKeep, Threads
<1>3. \A d \in Consumers : (Taking(d)' <=> Taking(d)) /\ (Taking(d) => d # c)
  BY <1>2 DEF Taking
<1>4. ConsumersOwn'
  BY <1>2, <1>3 DEF ConsumersOwn, Within, Dist
<1>5. ProducersOwn'
  BY ProducersFrame
<1>6. QED BY <1>1, <1>4, <1>5 DEF Layout

\* A successful claim moves read_index over an element.
LEMMA ConsumerClaims ==
  ASSUME Whole, NEW c \in Consumers, OthersKeep(c), ~ Taking(c),
         ~ empty, cur[c] = read_index, cur'[c] = cur[c],
         pc'[c] \in {"take", "sc_take"}, read_index' = Inc(cur[c]),
         UNCHANGED <<write_index, read_commit_index, write_commit_index, ring>>
  PROVE  Layout'
<1>0. /\ write_index \in Slots /\ write_commit_index \in Slots
      /\ read_index \in Slots /\ read_commit_index \in Slots
      /\ \A d \in Consumers : cur[d] \in Slots
  BY DEF Whole, TypeOK, Threads
<1>1. CursorOrder' /\ read_index' # read_commit_index
  BY <1>0, OrderSteps DEF Whole, CursorOrder, empty
<1>2. \A s \in Slots :
        /\ Within(read_commit_index, s, read_index')
             <=> Within(read_commit_index, s, read_index) \/ s = read_index
        /\ Within(read_index', s, write_commit_index)
             <=> Within(read_index, s, write_commit_index) /\ s # read_index
  BY <1>0, <1>1, Grow, Shrink DEF empty
<1>3. /\ ring[read_index] # Raw
      /\ ~ Within(read_commit_index, read_index, read_index)
  <2>1. Within(read_index, read_index, write_commit_index)
    BY <1>0, Shrink DEF empty
  <2>2. QED
    BY <2>1, <1>0, Sections DEF Whole, RingState, CursorOrder
<1>4. RingState'
  BY <1>2 DEF Whole, RingState, Within, Dist
<1>5. \A d \in Consumers : d # c => pc'[d] = pc[d] /\ cur'[d] = cur[d]
  BY DEF OthersKeep, Threads
<1>6. ConsumersOwn'
  <2>1. \A d \in Consumers :
          /\ Taking(d)' <=> Taking(d) \/ d = c
          /\ cur'[d] = cur[d]
          /\ Taking(d) => d # c
    BY <1>5 DEF Taking
  <2>2. ASSUME NEW d \in Consumers, Taking(d)'
        PROVE  /\ Within(read_commit_index, cur[d], read_index')
               /\ ring[cur[d]] # Raw <=> pc'[d] \in {"take", "sc_take"}
    BY <2>1, <2>2, <1>0, <1>2, <1>3, <1>5 DEF Whole, ConsumersOwn
  <2>3. ASSUME NEW d \in Consumers, NEW e \in Consumers, d # e, Taking(d)', Taking(e)'
        PROVE  cur[d] # cur[e]
    BY <2>1, <2>3, <1>3 DEF Whole, ConsumersOwn
  <2>4. ASSUME NEW s \in Slots, Within(read_commit_index, s, read_index')
        PROVE  \E d \in Consumers : Taking(d)' /\ cur[d] = s
    BY <2>1, <2>4, <1>2 DEF Whole, ConsumersOwn
  <2>5. QED BY <2>1, <2>2, <2>3, <2>4 DEF ConsumersOwn, Within, Dist
<1>7. ProducersOwn'
  BY ProducersFrame DEF Whole
<1>8. QED BY <1>1, <1>4, <1>6, <1>7 DEF Layout

\* Moving the element out and destroying it empties the consumer's own slot.
LEMMA ConsumerTakes ==
  ASSUME Whole, NEW c \in Consumers, OthersKeep(c),
         pc[c] \in {"take", "sc_take"}, pc'[c] \in {"commit", "sc_commit"},
         cur'[c] = cur[c], ring' = [ring EXCEPT ![cur[c]] = Raw],
         UNCHANGED indices
  PROVE  Layout'
<1> USE DEF indices
<1>0. /\ write_index \in Slots /\ write_commit_index \in Slots
      /\ read_index \in Slots /\ read_commit_index \in Slots
      /\ \A d \in Consumers : cur[d] \in Slots
      /\ \A s \in Slots : s # cur[c] => ring'[s] = ring[s]
      /\ ring'[cur[c]] = Raw
  BY DEF Whole, TypeOK, Threads
<1>1. CursorOrder'
  BY DEF Whole, CursorOrder, InOrder, Dist
<1>2. /\ Within(read_commit_index, cur[c], read_index)
      /\ ~ Within(read_index, cur[c], write_commit_index)
      /\ ~ Within(write_commit_index, cur[c], write_index)
  BY <1>0, Sections DEF Whole, ConsumersOwn, Taking, CursorOrder
<1>3. RingState'
  BY <1>0, <1>2 DEF Whole, RingState, Within, Dist
<1>4. \A d \in Consumers :
        /\ cur'[d] = cur[d]
        /\ Taking(d)' <=> Taking(d)
        /\ d # c => pc'[d] = pc[d]
  BY DEF OthersKeep, Threads, Taking
<1>5. ConsumersOwn'
  <2>1. ASSUME NEW d \in Consumers, Taking(d), d # c
        PROVE  cur[d] # cur[c] /\ ring'[cur[d]] = ring[cur[d]]
    BY <2>1, <1>0 DEF Whole, ConsumersOwn, Taking
  <2>2. ASSUME NEW d \in Consumers, Taking(d)
        PROVE  ring'[cur[d]] # Raw <=> pc'[d] \in {"take", "sc_take"}
    <3>1. CASE d = c
      BY <3>1, <1>0
    <3>2. CASE d # c
      BY <3>2, <2>1, <2>2, <1>4 DEF Whole, ConsumersOwn
    <3>3. QED BY <3>1, <3>2
  <2>3. QED BY <2>2, <1>4 DEF Whole, ConsumersOwn, Within, Dist
<1>6. ProducersOwn'
  BY <1>0, <1>2, ProducersFrame DEF Whole
<1>7. QED BY <1>1, <1>3, <1>5, <1>6 DEF Layout

\* The oldest claim commits: its slot, by now destroyed, is free again.
LEMMA ConsumerCommits ==
  ASSUME Whole, NEW c \in Consumers, OthersKeep(c),
         pc[c] \in {"commit", "sc_commit"}, ~ Taking(c)',
         read_commit_index = cur[c], read_commit_index' = Inc(cur[c]),
         UNCHANGED <<read_index, write_commit_index, write_index, ring>>
  PROVE  Layout'
<1>0. /\ write_index \in Slots /\ write_commit_index \in Slots
      /\ read_index \in Slots /\ read_commit_index \in Slots
      /\ \A d \in Consumers : cur[d] \in Slots
  BY DEF Whole, TypeOK, Threads
<1>1. ring[cur[c]] = Raw /\ read_commit_index # read_index
  <2>1. /\ Within(read_commit_index, cur[c], read_index)
        /\ ring[cur[c]] # Raw <=> pc[c] \in {"take", "sc_take"}
    BY DEF Whole, ConsumersOwn, Taking
  <2>2. read_commit_index # read_index
    BY <2>1, <1>0, QueueAssumption DEF Within, Dist, Slots
  <2>3. QED BY <2>1, <2>2
<1>2. CursorOrder' /\ read_commit_index # write_index
  <2>1. CursorOrder'
    BY <1>0, <1>1, OrderSteps DEF Whole, CursorOrder
  <2>2. QED
    BY <2>1, <1>0, <1>1, QueueAssumption DEF Whole, CursorOrder, InOrder, Dist, Slots
<1>3. \A s \in Slots :
        /\ Within(read_commit_index', s, read_index)
             <=> Within(read_commit_index, s, read_index) /\ s # cur[c]
        /\ Within(read_commit_index', s, write_index)
             <=> Within(read_commit_index, s, write_index) /\ s # cur[c]
  BY <1>0, <1>1, <1>2, Shrink
<1>4. RingState'
  BY <1>1, <1>3 DEF Whole, RingState, Within, Dist
<1>5. \A d \in Consumers :
        /\ Taking(d)' <=> Taking(d) /\ d # c
        /\ d # c => pc'[d] = pc[d] /\ cur'[d] = cur[d]
  BY DEF OthersKeep, Threads, Taking
<1>6. Taking(c)
  BY DEF Taking
<1>7. ConsumersOwn'
  <2>1. ASSUME NEW d \in Consumers, Taking(d)'
        PROVE  /\ Within(read_commit_index', cur'[d], read_index)
               /\ ring[cur'[d]] # Raw <=> pc'[d] \in {"take", "sc_take"}
    BY <2>1, <1>0, <1>3, <1>5, <1>6 DEF Whole, ConsumersOwn
  <2>2. ASSUME NEW s \in Slots, Within(read_commit_index', s, read_index)
        PROVE  \E d \in Consumers : Taking(d)' /\ cur'[d] = s
    BY <2>2, <1>3, <1>5 DEF Whole, ConsumersOwn
  <2>3. QED BY <2>1, <2>2, <1>5 DEF Whole, ConsumersOwn, Within, Dist
<1>8. ProducersOwn'
  BY ProducersFrame DEF Whole
<1>9. QED BY <1>2, <1>4, <1>7, <1>8 DEF Layout

-----------------------------------------------------------------------------
(* One lemma per action. *)

\* A producer that is alone and has claimed a slot has claimed the next one to
\* commit: sp_push may store _write_commit_index without comparing.
LEMMA SoleProducer ==
  ASSUME Whole, NEW p \in Producers, Alone(Producers, p), Building(p)
  PROVE  write_commit_index = cur[p]
<1>0. write_commit_index \in Slots /\ write_index \in Slots /\ cur[p] \in Slots
  BY DEF Whole, TypeOK, Threads
<1>1. Within(write_commit_index, cur[p], write_index)
  BY DEF Whole, ProducersOwn
<1>2. Within(write_commit_index, write_commit_index, write_index)
  BY <1>0, <1>1, QueueAssumption DEF Within, Dist, Slots
<1>3. QED BY <1>0, <1>2 DEF Whole, ProducersOwn, Building, Alone

\* The same for sc_pop and _read_commit_index.
LEMMA SoleConsumer ==
  ASSUME Whole, NEW c \in Consumers, Alone(Consumers, c), Taking(c)
  PROVE  read_commit_index = cur[c]
<1>0. read_commit_index \in Slots /\ read_index \in Slots /\ cur[c] \in Slots
  BY DEF Whole, TypeOK, Threads
<1>1. Within(read_commit_index, cur[c], read_index)
  BY DEF Whole, ConsumersOwn
<1>2. Within(read_commit_index, read_commit_index, read_index)
  BY <1>0, <1>1, QueueAssumption DEF Within, Dist, Slots
<1>3. QED BY <1>0, <1>2 DEF Whole, ConsumersOwn, Taking, Alone

\* A call that has claimed a slot keeps the commit index from the claim index.
LEMMA ProducerClaimed ==
  ASSUME Whole, NEW p \in Producers, Building(p)
  PROVE  write_commit_index # write_index
<1>1. /\ write_commit_index \in Slots /\ write_index \in Slots /\ cur[p] \in Slots
      /\ Within(write_commit_index, cur[p], write_index)
  BY DEF Whole, TypeOK, Threads, ProducersOwn
<1>2. QED BY <1>1, QueueAssumption DEF Within, Dist, Slots

\* The same for consumers.
LEMMA ConsumerClaimed ==
  ASSUME Whole, NEW c \in Consumers, Taking(c)
  PROVE  read_commit_index # read_index
<1>1. /\ read_commit_index \in Slots /\ read_index \in Slots /\ cur[c] \in Slots
      /\ Within(read_commit_index, cur[c], read_index)
  BY DEF Whole, TypeOK, Threads, ConsumersOwn
<1>2. QED BY <1>1, QueueAssumption DEF Within, Dist, Slots

\* The checks of one side survive the steps of the other.
LEMMA ConsumerChecksFrame ==
  ASSUME Whole, NEW p \in Producers, OthersKeep(p),
         \A c \in Consumers : overtaken'[c] = overtaken[c],
         UNCHANGED read_index, ~ empty => ~ empty'
  PROVE  ConsumerChecks'
<1>1. \A c \in Consumers :
        pc'[c] = pc[c] /\ cur'[c] = cur[c] /\ overtaken'[c] = overtaken[c]
  BY QueueAssumption DEF OthersKeep, Threads
<1>2. QED
  BY <1>1 DEF Whole, ChecksHold, ConsumerChecks, Dist

\* The same the other way round.
LEMMA ProducerChecksFrame ==
  ASSUME Whole, NEW c \in Consumers, OthersKeep(c),
         \A p \in Producers : overtaken'[p] = overtaken[p],
         UNCHANGED write_index, ~ full => ~ full'
  PROVE  ProducerChecks'
<1>1. \A p \in Producers :
        pc'[p] = pc[p] /\ cur'[p] = cur[p] /\ overtaken'[p] = overtaken[p]
  BY QueueAssumption DEF OthersKeep, Threads
<1>2. QED
  BY <1>1 DEF Whole, ChecksHold, ProducerChecks, Dist

\* Committing an element cannot make the queue look empty, nor freeing a slot
\* make it look full.
LEMMA CommitKeeps ==
  ASSUME Whole
  PROVE  /\ write_commit_index # write_index => Inc(write_commit_index) # read_index
         /\ read_commit_index # read_index /\ ~ full
              => Inc(write_index) # Inc(read_commit_index)
<1>0. /\ write_index \in Slots /\ write_commit_index \in Slots
      /\ read_index \in Slots /\ read_commit_index \in Slots
  BY DEF Whole, TypeOK
<1>1. QED
  BY <1>0, QueueAssumption DEF Whole, CursorOrder, InOrder, Dist, Inc, Slots, full

\* push loads write_index.
LEMMA PushLoadStep ==
  ASSUME Whole, NEW p \in Producers, NEW v \in Values, PushLoad(p, v)
  PROVE  Orderly'
<1> USE QueueAssumption DEF PushLoad, Goto, Load, Whole, TypeOK, RoleOK, Threads, indices
<1>2. OthersKeep(p)
  BY DEF OthersKeep
<1>4. Layout'
  BY <1>2, ProducerLocal DEF Building
<1>5. ProducerChecks'
  BY IndexType DEF ChecksHold, ProducerChecks, full
<1>6. ConsumerChecks'
  BY <1>2, ConsumerChecksFrame DEF empty
<1>7. QED BY <1>4, <1>5, <1>6 DEF Layout, ChecksHold, Orderly

\* push finds next_write at read_commit_index and returns false.
LEMMA PushFullStep ==
  ASSUME Whole, NEW p \in Producers, PushFull(p)
  PROVE  Orderly'
<1> USE QueueAssumption DEF PushFull, Goto, Return, Whole, TypeOK, RoleOK, Threads, indices
<1>2. OthersKeep(p)
  BY DEF OthersKeep
<1>4. Layout'
  BY <1>2, ProducerLocal DEF Building
<1>5. ProducerChecks'
  BY IndexType DEF ChecksHold, ProducerChecks, full
<1>6. ConsumerChecks'
  BY <1>2, ConsumerChecksFrame DEF empty
<1>7. QED BY <1>4, <1>5, <1>6 DEF Layout, ChecksHold, Orderly

\* push finds a free slot ahead of its index.
LEMMA PushNotFullStep ==
  ASSUME Whole, NEW p \in Producers, PushNotFull(p)
  PROVE  Orderly'
<1> USE QueueAssumption DEF PushNotFull, Goto, Whole, TypeOK, RoleOK, Threads, indices
<1>2. OthersKeep(p)
  BY DEF OthersKeep
<1>4. Layout'
  BY <1>2, ProducerLocal DEF Building
<1>5. ProducerChecks'
  BY IndexType DEF ChecksHold, ProducerChecks, full
<1>6. ConsumerChecks'
  BY <1>2, ConsumerChecksFrame DEF empty
<1>7. QED BY <1>4, <1>5, <1>6 DEF Layout, ChecksHold, Orderly

\* push loses the compare-and-swap and reloads.
LEMMA PushRetryStep ==
  ASSUME Whole, NEW p \in Producers, PushRetry(p)
  PROVE  Orderly'
<1> USE QueueAssumption DEF PushRetry, Goto, Load, Whole, TypeOK, RoleOK, Threads, indices
<1>2. OthersKeep(p)
  BY DEF OthersKeep
<1>4. Layout'
  BY <1>2, ProducerLocal DEF Building
<1>5. ProducerChecks'
  BY IndexType DEF ChecksHold, ProducerChecks, full
<1>6. ConsumerChecks'
  BY <1>2, ConsumerChecksFrame DEF empty
<1>7. QED BY <1>4, <1>5, <1>6 DEF Layout, ChecksHold, Orderly

\* sp_push finds a free slot.
LEMMA SpPushCheckStep ==
  ASSUME Whole, NEW p \in Producers, NEW v \in Values, SpPushCheck(p, v)
  PROVE  Orderly'
<1> USE QueueAssumption DEF SpPushCheck, Goto, Load, Whole, TypeOK, RoleOK, Threads, indices
<1>2. OthersKeep(p)
  BY DEF OthersKeep
<1>4. Layout'
  BY <1>2, ProducerLocal DEF Building
<1>5. ProducerChecks'
  BY IndexType DEF ChecksHold, ProducerChecks, full
<1>6. ConsumerChecks'
  BY <1>2, ConsumerChecksFrame DEF empty
<1>7. QED BY <1>4, <1>5, <1>6 DEF Layout, ChecksHold, Orderly

\* push wins the compare-and-swap on write_index.
LEMMA PushClaimStep ==
  ASSUME Whole, NEW p \in Producers, PushClaim(p), ~ overrun'
  PROVE  Orderly'
<1> USE QueueAssumption DEF PushClaim, Goto, Overtake, Whole, TypeOK, RoleOK, Threads, indices
<1>2. OthersKeep(p)
  BY DEF OthersKeep
<1>3. cur[p] = write_index /\ ~ full
  BY IndexType DEF ChecksHold, ProducerChecks, full
<1>4. Layout'
  BY <1>2, <1>3, ProducerClaims DEF Building
<1>5. ProducerChecks'
  <2>1. ASSUME NEW q \in Producers, pc'[q] \in {"check", "claim"}
        PROVE  /\ overtaken'[q] < Size => Dist(cur'[q], write_index') = overtaken'[q]
               /\ overtaken'[q] # 0
    <3>1. /\ pc[q] \in {"check", "claim"} /\ q # p
          /\ overtaken'[q] = IF overtaken[q] < Size THEN overtaken[q] + 1 ELSE overtaken[q]
          /\ cur'[q] = cur[q] /\ write_index' = Inc(write_index)
          /\ cur[q] \in Slots /\ write_index \in Slots /\ overtaken[q] \in 0 .. Size
      BY <2>1
    <3>2. overtaken[q] < Size => Dist(cur[q], write_index) = overtaken[q]
      BY <3>1 DEF ChecksHold, ProducerChecks
    <3>3. overtaken[q] + 1 < Size => Inc(write_index) # cur[q]
      BY <3>1, <3>2 DEF Dist, Inc, Slots
    <3>4. overtaken[q] + 1 < Size => Dist(cur[q], Inc(write_index)) = overtaken[q] + 1
      BY <3>1, <3>2, <3>3, Grow
    <3>5. QED BY <3>1, <3>4
  <2>2. \A q \in Producers : pc'[q] # "sp_claim"
    BY DEF Alone, Solo
  <2>3. QED BY <2>1, <2>2 DEF ProducerChecks
<1>6. ConsumerChecks'
  BY <1>2, ConsumerChecksFrame DEF empty
<1>7. QED BY <1>4, <1>5, <1>6 DEF Layout, ChecksHold, Orderly

\* sp_push stores write_index.
LEMMA SpPushClaimStep ==
  ASSUME Whole, NEW p \in Producers, SpPushClaim(p)
  PROVE  Orderly'
<1> USE QueueAssumption DEF SpPushClaim, Goto, Whole, TypeOK, RoleOK, Threads, indices
<1>2. OthersKeep(p)
  BY DEF OthersKeep
<1>3. cur[p] = write_index /\ ~ full
  BY IndexType DEF ChecksHold, ProducerChecks, full
<1>4. Layout'
  BY <1>2, <1>3, ProducerClaims DEF Building
<1>5. ProducerChecks'
  <2>1. \A q \in Producers : pc'[q] \notin {"check", "claim", "sp_claim"}
    BY DEF Alone, Solo
  <2>2. QED BY <2>1 DEF ProducerChecks
<1>6. ConsumerChecks'
  BY <1>2, ConsumerChecksFrame DEF empty
<1>7. QED BY <1>4, <1>5, <1>6 DEF Layout, ChecksHold, Orderly

\* push constructs its element.
LEMMA PushBuildStep ==
  ASSUME Whole, NEW p \in Producers, PushBuild(p)
  PROVE  Orderly'
<1> USE QueueAssumption DEF PushBuild, Goto, Whole, TypeOK, RoleOK, Threads, indices
<1>2. OthersKeep(p)
  BY DEF OthersKeep
<1>4. Layout'
  BY <1>2, ProducerBuilds DEF Building
<1>5. ProducerChecks'
  BY DEF ChecksHold, ProducerChecks, full, Dist
<1>6. ConsumerChecks'
  BY <1>2, ConsumerChecksFrame DEF empty
<1>7. QED BY <1>4, <1>5, <1>6 DEF Layout, ChecksHold, Orderly

\* sp_push constructs its element.
LEMMA SpPushBuildStep ==
  ASSUME Whole, NEW p \in Producers, SpPushBuild(p)
  PROVE  Orderly'
<1> USE QueueAssumption DEF SpPushBuild, Goto, Whole, TypeOK, RoleOK, Threads, indices
<1>2. OthersKeep(p)
  BY DEF OthersKeep
<1>4. Layout'
  BY <1>2, ProducerBuilds DEF Building
<1>5. ProducerChecks'
  BY DEF ChecksHold, ProducerChecks, full, Dist
<1>6. ConsumerChecks'
  BY <1>2, ConsumerChecksFrame DEF empty
<1>7. QED BY <1>4, <1>5, <1>6 DEF Layout, ChecksHold, Orderly

\* push commits after every earlier claim.
LEMMA PushCommitStep ==
  ASSUME Whole, NEW p \in Producers, PushCommit(p)
  PROVE  Orderly'
<1> USE QueueAssumption DEF PushCommit, Goto, Return, Whole, TypeOK, RoleOK, Threads, indices
<1>2. OthersKeep(p)
  BY DEF OthersKeep
<1>3. write_commit_index = cur[p] /\ write_commit_index # write_index
  BY ProducerClaimed DEF Building
<1>4. Layout'
  BY <1>2, <1>3, ProducerCommits DEF Building
<1>5. ProducerChecks'
  BY DEF ChecksHold, ProducerChecks, full, Dist
<1>6. ConsumerChecks'
  BY <1>2, <1>3, CommitKeeps, ConsumerChecksFrame DEF empty
<1>7. QED BY <1>4, <1>5, <1>6 DEF Layout, ChecksHold, Orderly

\* sp_push commits.
LEMMA SpPushCommitStep ==
  ASSUME Whole, NEW p \in Producers, SpPushCommit(p)
  PROVE  Orderly'
<1> USE QueueAssumption DEF SpPushCommit, Goto, Return, Whole, TypeOK, RoleOK, Threads, indices
<1>2. OthersKeep(p)
  BY DEF OthersKeep
<1>3. write_commit_index = cur[p] /\ write_commit_index # write_index
  BY ProducerClaimed, SoleProducer DEF Building, Solo
<1>4. Layout'
  BY <1>2, <1>3, ProducerCommits DEF Building
<1>5. ProducerChecks'
  BY DEF ChecksHold, ProducerChecks, full, Dist
<1>6. ConsumerChecks'
  BY <1>2, <1>3, CommitKeeps, ConsumerChecksFrame DEF empty
<1>7. QED BY <1>4, <1>5, <1>6 DEF Layout, ChecksHold, Orderly

\* pop loads read_index.
LEMMA PopLoadStep ==
  ASSUME Whole, NEW c \in Consumers, PopLoad(c)
  PROVE  Orderly'
<1> USE QueueAssumption DEF PopLoad, Goto, Load, Whole, TypeOK, RoleOK, Threads, indices
<1>2. OthersKeep(c)
  BY DEF OthersKeep
<1>4. Layout'
  BY <1>2, ConsumerLocal DEF Taking
<1>5. ConsumerChecks'
  BY IndexType DEF ChecksHold, ConsumerChecks, empty
<1>6. ProducerChecks'
  BY <1>2, ProducerChecksFrame DEF full
<1>7. QED BY <1>4, <1>5, <1>6 DEF Layout, ChecksHold, Orderly

\* pop finds its index at write_commit_index and returns false.
LEMMA PopEmptyStep ==
  ASSUME Whole, NEW c \in Consumers, PopEmpty(c)
  PROVE  Orderly'
<1> USE QueueAssumption DEF PopEmpty, Goto, Return, Whole, TypeOK, RoleOK, Threads, indices
<1>2. OthersKeep(c)
  BY DEF OthersKeep
<1>4. Layout'
  BY <1>2, ConsumerLocal DEF Taking
<1>5. ConsumerChecks'
  BY IndexType DEF ChecksHold, ConsumerChecks, empty
<1>6. ProducerChecks'
  BY <1>2, ProducerChecksFrame DEF full
<1>7. QED BY <1>4, <1>5, <1>6 DEF Layout, ChecksHold, Orderly

\* pop finds an element at its index.
LEMMA PopNotEmptyStep ==
  ASSUME Whole, NEW c \in Consumers, PopNotEmpty(c)
  PROVE  Orderly'
<1> USE QueueAssumption DEF PopNotEmpty, Goto, Whole, TypeOK, RoleOK, Threads, indices
<1>2. OthersKeep(c)
  BY DEF OthersKeep
<1>4. Layout'
  BY <1>2, ConsumerLocal DEF Taking
<1>5. ConsumerChecks'
  BY IndexType DEF ChecksHold, ConsumerChecks, empty
<1>6. ProducerChecks'
  BY <1>2, ProducerChecksFrame DEF full
<1>7. QED BY <1>4, <1>5, <1>6 DEF Layout, ChecksHold, Orderly

\* pop loses the compare-and-swap and reloads.
LEMMA PopRetryStep ==
  ASSUME Whole, NEW c \in Consumers, PopRetry(c)
  PROVE  Orderly'
<1> USE QueueAssumption DEF PopRetry, Goto, Load, Whole, TypeOK, RoleOK, Threads, indices
<1>2. OthersKeep(c)
  BY DEF OthersKeep
<1>4. Layout'
  BY <1>2, ConsumerLocal DEF Taking
<1>5. ConsumerChecks'
  BY IndexType DEF ChecksHold, ConsumerChecks, empty
<1>6. ProducerChecks'
  BY <1>2, ProducerChecksFrame DEF full
<1>7. QED BY <1>4, <1>5, <1>6 DEF Layout, ChecksHold, Orderly

\* sc_pop finds an element.
LEMMA ScPopCheckStep ==
  ASSUME Whole, NEW c \in Consumers, ScPopCheck(c)
  PROVE  Orderly'
<1> USE QueueAssumption DEF ScPopCheck, Goto, Load, Whole, TypeOK, RoleOK, Threads, indices
<1>2. OthersKeep(c)
  BY DEF OthersKeep
<1>4. Layout'
  BY <1>2, ConsumerLocal DEF Taking
<1>5. ConsumerChecks'
  BY IndexType DEF ChecksHold, ConsumerChecks, empty
<1>6. ProducerChecks'
  BY <1>2, ProducerChecksFrame DEF full
<1>7. QED BY <1>4, <1>5, <1>6 DEF Layout, ChecksHold, Orderly

\* sc_pop finds the queue empty and returns false.
LEMMA ScPopEmptyStep ==
  ASSUME Whole, NEW c \in Consumers, ScPopEmpty(c)
  PROVE  Orderly'
<1> USE QueueAssumption DEF ScPopEmpty, Whole, TypeOK, RoleOK, Threads, indices
<1>2. OthersKeep(c)
  BY DEF OthersKeep
<1>4. Layout'
  BY <1>2, ConsumerLocal DEF Taking
<1>5. ConsumerChecks'
  BY IndexType DEF ChecksHold, ConsumerChecks, empty
<1>6. ProducerChecks'
  BY <1>2, ProducerChecksFrame DEF full
<1>7. QED BY <1>4, <1>5, <1>6 DEF Layout, ChecksHold, Orderly

\* pop wins the compare-and-swap on read_index.
LEMMA PopClaimStep ==
  ASSUME Whole, NEW c \in Consumers, PopClaim(c), ~ overrun'
  PROVE  Orderly'
<1> USE QueueAssumption DEF PopClaim, Goto, Overtake, Whole, TypeOK, RoleOK, Threads, indices
<1>2. OthersKeep(c)
  BY DEF OthersKeep
<1>3. cur[c] = read_index /\ ~ empty
  BY IndexType DEF ChecksHold, ConsumerChecks, empty
<1>4. Layout'
  BY <1>2, <1>3, ConsumerClaims DEF Taking
<1>5. ConsumerChecks'
  <2>1. ASSUME NEW d \in Consumers, pc'[d] \in {"check", "claim"}
        PROVE  /\ overtaken'[d] < Size => Dist(cur'[d], read_index') = overtaken'[d]
               /\ overtaken'[d] # 0
    <3>1. /\ pc[d] \in {"check", "claim"} /\ d # c
          /\ overtaken'[d] = IF overtaken[d] < Size THEN overtaken[d] + 1 ELSE overtaken[d]
          /\ cur'[d] = cur[d] /\ read_index' = Inc(read_index)
          /\ cur[d] \in Slots /\ read_index \in Slots /\ overtaken[d] \in 0 .. Size
      BY <2>1
    <3>2. overtaken[d] < Size => Dist(cur[d], read_index) = overtaken[d]
      BY <3>1 DEF ChecksHold, ConsumerChecks
    <3>3. overtaken[d] + 1 < Size => Inc(read_index) # cur[d]
      BY <3>1, <3>2 DEF Dist, Inc, Slots
    <3>4. overtaken[d] + 1 < Size => Dist(cur[d], Inc(read_index)) = overtaken[d] + 1
      BY <3>1, <3>2, <3>3, Grow
    <3>5. QED BY <3>1, <3>4
  <2>2. \A d \in Consumers : pc'[d] # "sc_claim"
    BY DEF Alone, Solo
  <2>3. QED BY <2>1, <2>2 DEF ConsumerChecks
<1>6. ProducerChecks'
  BY <1>2, ProducerChecksFrame DEF full
<1>7. QED BY <1>4, <1>5, <1>6 DEF Layout, ChecksHold, Orderly

\* sc_pop stores read_index.
LEMMA ScPopClaimStep ==
  ASSUME Whole, NEW c \in Consumers, ScPopClaim(c)
  PROVE  Orderly'
<1> USE QueueAssumption DEF ScPopClaim, Goto, Whole, TypeOK, RoleOK, Threads, indices
<1>2. OthersKeep(c)
  BY DEF OthersKeep
<1>3. cur[c] = read_index /\ ~ empty
  BY IndexType DEF ChecksHold, ConsumerChecks, empty
<1>4. Layout'
  BY <1>2, <1>3, ConsumerClaims DEF Taking
<1>5. ConsumerChecks'
  <2>1. \A d \in Consumers : pc'[d] \notin {"check", "claim", "sc_claim"}
    BY DEF Alone, Solo
  <2>2. QED BY <2>1 DEF ConsumerChecks
<1>6. ProducerChecks'
  BY <1>2, ProducerChecksFrame DEF full
<1>7. QED BY <1>4, <1>5, <1>6 DEF Layout, ChecksHold, Orderly

\* pop moves the element out and destroys it.
LEMMA PopTakeStep ==
  ASSUME Whole, NEW c \in Consumers, PopTake(c)
  PROVE  Orderly'
<1> USE QueueAssumption DEF PopTake, Goto, Whole, TypeOK, RoleOK, Threads, indices
<1>2. OthersKeep(c)
  BY DEF OthersKeep
<1>4. Layout'
  BY <1>2, ConsumerTakes DEF Taking
<1>5. ConsumerChecks'
  BY DEF ChecksHold, ConsumerChecks, empty, Dist
<1>6. ProducerChecks'
  BY <1>2, ProducerChecksFrame DEF full
<1>7. QED BY <1>4, <1>5, <1>6 DEF Layout, ChecksHold, Orderly

\* sc_pop moves the element out and destroys it.
LEMMA ScPopTakeStep ==
  ASSUME Whole, NEW c \in Consumers, ScPopTake(c)
  PROVE  Orderly'
<1> USE QueueAssumption DEF ScPopTake, Goto, Whole, TypeOK, RoleOK, Threads, indices
<1>2. OthersKeep(c)
  BY DEF OthersKeep
<1>4. Layout'
  BY <1>2, ConsumerTakes DEF Taking
<1>5. ConsumerChecks'
  BY DEF ChecksHold, ConsumerChecks, empty, Dist
<1>6. ProducerChecks'
  BY <1>2, ProducerChecksFrame DEF full
<1>7. QED BY <1>4, <1>5, <1>6 DEF Layout, ChecksHold, Orderly

\* pop commits after every earlier claim.
LEMMA PopCommitStep ==
  ASSUME Whole, NEW c \in Consumers, PopCommit(c)
  PROVE  Orderly'
<1> USE QueueAssumption DEF PopCommit, Goto, Return, Whole, TypeOK, RoleOK, Threads, indices
<1>2. OthersKeep(c)
  BY DEF OthersKeep
<1>3. read_commit_index = cur[c] /\ read_commit_index # read_index
  BY ConsumerClaimed DEF Taking
<1>4. Layout'
  BY <1>2, <1>3, ConsumerCommits DEF Taking
<1>5. ConsumerChecks'
  BY DEF ChecksHold, ConsumerChecks, empty, Dist
<1>6. ProducerChecks'
  BY <1>2, <1>3, CommitKeeps, ProducerChecksFrame DEF full
<1>7. QED BY <1>4, <1>5, <1>6 DEF Layout, ChecksHold, Orderly

\* sc_pop commits.
LEMMA ScPopCommitStep ==
  ASSUME Whole, NEW c \in Consumers, ScPopCommit(c)
  PROVE  Orderly'
<1> USE QueueAssumption DEF ScPopCommit, Goto, Return, Whole, TypeOK, RoleOK, Threads, indices
<1>2. OthersKeep(c)
  BY DEF OthersKeep
<1>3. read_commit_index = cur[c] /\ read_commit_index # read_index
  BY ConsumerClaimed, SoleConsumer DEF Taking, Solo
<1>4. Layout'
  BY <1>2, <1>3, ConsumerCommits DEF Taking
<1>5. ConsumerChecks'
  BY DEF ChecksHold, ConsumerChecks, empty, Dist
<1>6. ProducerChecks'
  BY <1>2, <1>3, CommitKeeps, ProducerChecksFrame DEF full
<1>7. QED BY <1>4, <1>5, <1>6 DEF Layout, ChecksHold, Orderly

\* A new queue satisfies the invariant.
LEMMA InitIInv == Init => TypeOK /\ RoleOK /\ Whole /\ ~ overrun
<1>1. SUFFICES ASSUME Init PROVE Whole /\ ~ overrun
  BY DEF Whole
<1>2. TypeOK /\ RoleOK /\ ~ overrun
  <2>1. TypeOK
    <3>1. 0 \in Slots /\ 0 \in 0 .. Size /\ "idle" \in Stages
      BY QueueAssumption DEF Slots, Stages
    <3>2. overrun \in BOOLEAN
      BY <1>1, Zenon DEF Init
    <3>3. QED BY <1>1, <3>1, <3>2 DEF Init, TypeOK
  <2>2. RoleOK /\ ~ overrun
    BY <1>1 DEF Init, RoleOK, Threads, Solo
  <2>3. QED BY <2>1, <2>2
<1>3. CursorOrder /\ RingState
  BY <1>1, QueueAssumption DEF Init, CursorOrder, InOrder, Dist, Slots, RingState, Within
<1>4. ProducersOwn /\ ConsumersOwn
  BY <1>1, QueueAssumption
     DEF Init, ProducersOwn, ConsumersOwn, Building, Taking, Threads, Within, Dist, Slots
<1>5. ChecksHold
  BY <1>1, QueueAssumption DEF Init, ChecksHold, ProducerChecks, ConsumerChecks, Threads, Dist
<1>6. QED BY <1>2, <1>3, <1>4, <1>5 DEF Whole

\* A step that changes nothing keeps it.
LEMMA StutterOrderly == Whole /\ UNCHANGED vars => Orderly'
<1>1. SUFFICES ASSUME Whole, UNCHANGED vars PROVE Orderly'
  OBVIOUS
<1> USE DEF vars, indices, Whole, Orderly
<1>2. CursorOrder' /\ RingState'
  BY <1>1 DEF CursorOrder, InOrder, RingState, Within, Dist
<1>3. ProducersOwn' /\ ConsumersOwn'
  BY <1>1 DEF ProducersOwn, ConsumersOwn, Building, Taking, Within, Dist
<1>4. ChecksHold'
  BY <1>1 DEF ChecksHold, ProducerChecks, ConsumerChecks, full, empty, Dist
<1>5. QED BY <1>2, <1>3, <1>4

\* Types and roles hold whatever has happened, and an overrun is not forgotten.
LEMMA ProducerTypes ==
  ASSUME TypeOK, RoleOK, NEW p \in Producers, ProducerStep(p)
  PROVE  TypeOK' /\ RoleOK' /\ (overrun => overrun')
<1> USE QueueAssumption, IndexType DEF TypeOK, RoleOK, Threads, Stages, Goto, Load, Return,
        indices, Solo, Alone, Shared
<1>1. CASE PushStart(p)
  BY <1>1 DEF PushStart, PushLoad, SpPushFull, SpPushCheck, vars
<1>2. CASE PushCompete(p)
  <2>1. CASE PushFull(p) \/ PushNotFull(p) \/ PushRetry(p)
    BY <2>1 DEF PushFull, PushNotFull, PushRetry
  <2>2. CASE PushClaim(p)
    BY <2>2 DEF PushClaim, Overtake
  <2>3. QED BY <1>2, <2>1, <2>2 DEF PushCompete
<1>3. CASE PushFinish(p)
  BY <1>3 DEF PushFinish, PushBuild, PushCommit
<1>4. CASE SpPushRest(p)
  BY <1>4 DEF SpPushRest, SpPushClaim, SpPushBuild, SpPushCommit
<1>5. QED BY <1>1, <1>2, <1>3, <1>4 DEF ProducerStep

LEMMA ConsumerTypes ==
  ASSUME TypeOK, RoleOK, NEW c \in Consumers, ConsumerStep(c)
  PROVE  TypeOK' /\ RoleOK' /\ (overrun => overrun')
<1> USE QueueAssumption, IndexType DEF TypeOK, RoleOK, Threads, Stages, Goto, Load, Return,
        indices, Solo, Alone, Shared
<1>1. CASE PopStart(c)
  BY <1>1 DEF PopStart, PopLoad, ScPopEmpty, ScPopCheck
<1>2. CASE PopCompete(c)
  <2>1. CASE PopEmpty(c) \/ PopNotEmpty(c) \/ PopRetry(c)
    BY <2>1 DEF PopEmpty, PopNotEmpty, PopRetry
  <2>2. CASE PopClaim(c)
    BY <2>2 DEF PopClaim, Overtake
  <2>3. QED BY <1>2, <2>1, <2>2 DEF PopCompete
<1>3. CASE PopFinish(c)
  BY <1>3 DEF PopFinish, PopTake, PopCommit
<1>4. CASE ScPopRest(c)
  BY <1>4 DEF ScPopRest, ScPopClaim, ScPopTake, ScPopCommit
<1>5. QED BY <1>1, <1>2, <1>3, <1>4 DEF ConsumerStep

LEMMA NextTypes ==
  ASSUME TypeOK, RoleOK, [Next]_vars
  PROVE  TypeOK' /\ RoleOK' /\ (overrun => overrun')
<1>1. CASE UNCHANGED vars
  BY <1>1 DEF vars, indices, TypeOK, RoleOK, Alone
<1>2. QED BY <1>1, ProducerTypes, ConsumerTypes DEF Next

\* Every step of every thread that is not an overrun keeps the ring in order.
LEMMA NextOrderly ==
  ASSUME Whole, [Next]_vars, ~ overrun'
  PROVE  Orderly'
<1>1. ASSUME NEW p \in Producers, ProducerStep(p)
      PROVE  Orderly'
  <2>1. CASE SpPushFull(p)
    BY <2>1, StutterOrderly DEF SpPushFull
  <2>2. CASE \E v \in Values : PushLoad(p, v) \/ SpPushCheck(p, v)
    BY <2>2, PushLoadStep, SpPushCheckStep
  <2>3. CASE PushCompete(p)
    BY <2>3, PushFullStep, PushNotFullStep, PushClaimStep, PushRetryStep DEF PushCompete
  <2>4. CASE PushFinish(p)
    BY <2>4, PushBuildStep, PushCommitStep DEF PushFinish
  <2>5. CASE SpPushRest(p)
    BY <2>5, SpPushClaimStep, SpPushBuildStep, SpPushCommitStep DEF SpPushRest
  <2>6. QED BY <1>1, <2>1, <2>2, <2>3, <2>4, <2>5 DEF ProducerStep, PushStart
<1>2. ASSUME NEW c \in Consumers, ConsumerStep(c)
      PROVE  Orderly'
  <2>1. CASE PopStart(c)
    BY <2>1, PopLoadStep, ScPopEmptyStep, ScPopCheckStep DEF PopStart
  <2>2. CASE PopCompete(c)
    BY <2>2, PopEmptyStep, PopNotEmptyStep, PopClaimStep, PopRetryStep DEF PopCompete
  <2>3. CASE PopFinish(c)
    BY <2>3, PopTakeStep, PopCommitStep DEF PopFinish
  <2>4. CASE ScPopRest(c)
    BY <2>4, ScPopClaimStep, ScPopTakeStep, ScPopCommitStep DEF ScPopRest
  <2>5. QED BY <1>2, <2>1, <2>2, <2>3, <2>4 DEF ConsumerStep
<1>3. CASE UNCHANGED vars
  BY <1>3, StutterOrderly
<1>4. QED BY <1>1, <1>2, <1>3 DEF Next

\* Until an overrun the invariant is the whole one.
LEMMA UntilThen == IInv /\ ~ overrun => Whole
BY DEF IInv, Orderly, Whole

LEMMA NextIInv == IInv /\ [Next]_vars => IInv' /\ (overrun => overrun')
BY NextTypes, NextOrderly, UntilThen DEF IInv

-----------------------------------------------------------------------------
(* The theorems. *)

\* The ring is partitioned between its cursors in every reachable state up to an overrun,
\* whatever the sizes and the schedule.
THEOREM Inductive == Spec => []IInv
<1>1. Init => IInv
  BY InitIInv DEF IInv, Orderly, Whole
<1>2. IInv /\ [Next]_vars => IInv'
  BY NextIInv
<1>3. QED BY <1>1, <1>2, PTL DEF Spec

\* Indices stay inside the ring; slots and locals hold what they may hold; always.
THEOREM TypeCorrect == Spec => []TypeOK
<1>1. IInv => TypeOK
  BY DEF IInv
<1>2. QED BY <1>1, Inductive, PTL

\* A claim that finds the ring full or empty comes from a call that has been overtaken by
\* at least a whole lap since it loaded its index.
LEMMA LateClaim ==
  ASSUME Whole, [Next]_vars, overrun', ~ overrun
  PROVE  \E t \in Threads : pc[t] = "claim" /\ overtaken[t] = Size
<1> USE DEF Goto
<1>1. ASSUME NEW p \in Producers, ProducerStep(p)
      PROVE  pc[p] = "claim" /\ overtaken[p] = Size
  <2>1. PushClaim(p) /\ full
    BY <1>1 DEF Load, Return, ProducerStep, PushStart, PushCompete, PushFinish, SpPushRest,
       PushLoad, SpPushFull, SpPushCheck, PushFull, PushNotFull, PushClaim, PushRetry,
       PushBuild, PushCommit, SpPushClaim, SpPushBuild, SpPushCommit, vars
  <2>2. /\ overtaken[p] \in 0 .. Size /\ cur[p] \in Slots /\ write_index \in Slots
        /\ pc[p] = "claim" /\ write_index = cur[p]
    BY <2>1 DEF PushClaim, Whole, TypeOK, Threads
  <2>3. overtaken[p] < Size => Dist(cur[p], write_index) = overtaken[p]
    BY <2>2 DEF Whole, ChecksHold, ProducerChecks
  <2>4. overtaken[p] # 0
    BY <2>1, <2>2 DEF Whole, ChecksHold, ProducerChecks
  <2>5. QED BY <2>2, <2>3, <2>4, IndexType, QueueAssumption
<1>2. ASSUME NEW c \in Consumers, ConsumerStep(c)
      PROVE  pc[c] = "claim" /\ overtaken[c] = Size
  <2>1. PopClaim(c) /\ empty
    BY <1>2 DEF Load, Return, ConsumerStep, PopStart, PopCompete, PopFinish, ScPopRest,
       PopLoad, ScPopEmpty, ScPopCheck, PopEmpty, PopNotEmpty, PopClaim, PopRetry,
       PopTake, PopCommit, ScPopClaim, ScPopTake, ScPopCommit
  <2>2. /\ overtaken[c] \in 0 .. Size /\ cur[c] \in Slots /\ read_index \in Slots
        /\ pc[c] = "claim" /\ read_index = cur[c]
    BY <2>1 DEF PopClaim, Whole, TypeOK, Threads
  <2>3. overtaken[c] < Size => Dist(cur[c], read_index) = overtaken[c]
    BY <2>2 DEF Whole, ChecksHold, ConsumerChecks
  <2>4. overtaken[c] # 0
    BY <2>1, <2>2 DEF Whole, ChecksHold, ConsumerChecks
  <2>5. QED BY <2>2, <2>3, <2>4, IndexType, QueueAssumption
<1>3. CASE UNCHANGED vars
  BY <1>3 DEF vars
<1>4. QED BY <1>1, <1>2, <1>3 DEF Next, Threads

\* Nothing short of a whole lap makes the ring overrun.
THEOREM OverrunsTakeALap == Spec => OverrunTakesALap
<1>1. IInv /\ [Next]_vars =>
        [overrun' /\ ~ overrun => \E t \in Threads : pc[t] = "claim" /\ overtaken[t] = Size]_vars
  BY LateClaim, UntilThen
<1>2. QED BY <1>1, Inductive, PTL DEF Spec, OverrunTakesALap

\* Until an overrun no cursor passes the one in front of it.
THEOREM CursorsOrdered == Spec => [](overrun \/ CursorOrder)
<1>1. IInv => overrun \/ CursorOrder
  BY DEF IInv, Orderly
<1>2. QED BY <1>1, Inductive, PTL

\* Slots that producers have claimed lie behind those that consumers have.
LEMMA OwnsExclusive ==
  ASSUME Whole
  PROVE  \A t, u \in Threads : t # u /\ Owns(t) /\ Owns(u) => cur[t] # cur[u]
<1>0. /\ write_index \in Slots /\ write_commit_index \in Slots
      /\ read_index \in Slots /\ read_commit_index \in Slots
      /\ \A t \in Threads : cur[t] \in Slots
  BY DEF Whole, TypeOK
<1>1. /\ \A p \in Producers : Owns(p) => Building(p)
      /\ \A c \in Consumers : Owns(c) => Taking(c)
  BY DEF Whole, RoleOK, Owns, Building, Taking
<1>2. \A p \in Producers, c \in Consumers : Owns(p) /\ Owns(c) => cur[p] # cur[c]
  <2>1. SUFFICES ASSUME NEW p \in Producers, NEW c \in Consumers, Owns(p), Owns(c)
                 PROVE  cur[p] # cur[c]
    OBVIOUS
  <2>2. /\ Within(write_commit_index, cur[p], write_index)
        /\ Within(read_commit_index, cur[c], read_index)
    BY <1>1, <2>1 DEF Whole, ProducersOwn, ConsumersOwn
  <2>3. cur[p] \in Slots
    BY <1>0 DEF Threads
  <2>4. ~ Within(read_commit_index, cur[p], read_index)
    BY <1>0, <2>2, <2>3, Sections DEF Whole, CursorOrder
  <2>5. QED BY <2>2, <2>4
<1>3. QED
  BY <1>1, <1>2 DEF Whole, ProducersOwn, ConsumersOwn, Threads

\* Until an overrun two calls in progress never touch the same slot.
THEOREM Exclusive == Spec => []SlotsExclusive
<1>1. IInv => SlotsExclusive
  BY OwnsExclusive, UntilThen DEF SlotsExclusive
<1>2. QED BY <1>1, Inductive, PTL

\* Until an overrun elements are constructed in raw storage only and moved from live ones
\* only.
THEOREM ValidAccesses == Spec => []AccessesValid
<1>1. IInv => AccessesValid
  BY DEF IInv, Orderly, AccessesValid, ProducersOwn, ConsumersOwn, Building, Taking
<1>2. QED BY <1>1, Inductive, PTL

\* With no call in progress the destructor destroys exactly the live objects, unless there
\* has been an overrun.
THEOREM ExactDestructor == Spec => []DestructorExact
<1>1. ASSUME Whole, \A t \in Threads : pc[t] = "idle"
      PROVE  \A s \in Slots : ring[s] # Raw <=> Within(read_index, s, write_index)
  <2>0. /\ write_index \in Slots /\ write_commit_index \in Slots
        /\ read_index \in Slots /\ read_commit_index \in Slots
    BY <1>1 DEF Whole, TypeOK
  <2>1. \A s \in Slots : ~ Within(write_commit_index, s, write_index)
    BY <1>1 DEF Whole, ProducersOwn, Building, Threads
  <2>2. \A s \in Slots : ~ Within(read_commit_index, s, read_index)
    BY <1>1 DEF Whole, ConsumersOwn, Taking, Threads
  <2>3. write_commit_index = write_index /\ read_commit_index = read_index
    BY <2>0, <2>1, <2>2, Shrink
  <2>4. QED BY <1>1, <2>3 DEF Whole, RingState
<1>2. IInv => DestructorExact
  BY <1>1, UntilThen DEF DestructorExact
<1>3. QED BY <1>2, Inductive, PTL

\* A call under way gives up only in the two tests for a full or empty queue.
LEMMA OnlyTheTestsGiveUp ==
  ASSUME TypeOK, [Next]_vars, NEW t \in Threads, GaveUp(t)
  PROVE  \/ t \in Producers /\ PushFull(t)
         \/ t \in Consumers /\ PopEmpty(t)
<1> USE DEF GaveUp, TypeOK, Threads, Goto
<1>1. CASE UNCHANGED vars
  BY <1>1 DEF vars
<1>2. ASSUME NEW p \in Producers, ProducerStep(p)
      PROVE  PushFull(p) /\ p = t
  BY <1>2 DEF ProducerStep, PushStart, PushCompete, PushFinish, SpPushRest,
       PushLoad, SpPushFull, SpPushCheck, PushFull, PushNotFull, PushClaim, PushRetry,
       PushBuild, PushCommit, SpPushClaim, SpPushBuild, SpPushCommit, vars
<1>3. ASSUME NEW c \in Consumers, ConsumerStep(c)
      PROVE  PopEmpty(c) /\ c = t
  BY <1>3 DEF ConsumerStep, PopStart, PopCompete, PopFinish, ScPopRest,
       PopLoad, ScPopEmpty, ScPopCheck, PopEmpty, PopNotEmpty, PopClaim, PopRetry,
       PopTake, PopCommit, ScPopClaim, ScPopTake, ScPopCommit
<1>4. QED BY <1>1, <1>2, <1>3 DEF Next

\* A call that nobody has overtaken still holds the index it has loaded, whatever has
\* happened to the ring.
Current ==
  /\ TypeOK /\ RoleOK
  /\ \A p \in Producers : pc[p] = "check" /\ overtaken[p] = 0 => cur[p] = write_index
  /\ \A c \in Consumers : pc[c] = "check" /\ overtaken[c] = 0 => cur[c] = read_index

LEMMA CurrentStep == Current /\ [Next]_vars => Current'
<1>1. SUFFICES ASSUME Current, [Next]_vars PROVE Current'
  OBVIOUS
<1>2. TypeOK' /\ RoleOK'
  BY <1>1, NextTypes DEF Current
<1> USE QueueAssumption DEF Current, TypeOK, RoleOK, Threads, Goto, Load, Return, indices,
        Solo, Alone, Overtake
<1>3. ASSUME NEW p \in Producers, ProducerStep(p)
      PROVE  Current'
  <2>1. CASE PushStart(p)
    BY <1>1, <1>2, <2>1 DEF PushStart, PushLoad, SpPushFull, SpPushCheck, vars
  <2>2. CASE PushFull(p) \/ PushNotFull(p) \/ PushRetry(p)
    BY <1>1, <1>2, <2>2 DEF PushFull, PushNotFull, PushRetry
  <2>3. CASE PushClaim(p)
    BY <1>1, <1>2, <2>3 DEF PushClaim
  <2>4. CASE PushFinish(p)
    BY <1>1, <1>2, <2>4 DEF PushFinish, PushBuild, PushCommit
  <2>5. CASE SpPushRest(p)
    BY <1>1, <1>2, <2>5 DEF SpPushRest, SpPushClaim, SpPushBuild, SpPushCommit
  <2>6. QED BY <1>3, <2>1, <2>2, <2>3, <2>4, <2>5 DEF ProducerStep, PushCompete
<1>4. ASSUME NEW c \in Consumers, ConsumerStep(c)
      PROVE  Current'
  <2>1. CASE PopStart(c)
    BY <1>1, <1>2, <2>1 DEF PopStart, PopLoad, ScPopEmpty, ScPopCheck
  <2>2. CASE PopEmpty(c) \/ PopNotEmpty(c) \/ PopRetry(c)
    BY <1>1, <1>2, <2>2 DEF PopEmpty, PopNotEmpty, PopRetry
  <2>3. CASE PopClaim(c)
    BY <1>1, <1>2, <2>3 DEF PopClaim
  <2>4. CASE PopFinish(c)
    BY <1>1, <1>2, <2>4 DEF PopFinish, PopTake, PopCommit
  <2>5. CASE ScPopRest(c)
    BY <1>1, <1>2, <2>5 DEF ScPopRest, ScPopClaim, ScPopTake, ScPopCommit
  <2>6. QED BY <1>4, <2>1, <2>2, <2>3, <2>4, <2>5 DEF ConsumerStep, PopCompete
<1>5. CASE UNCHANGED vars
  BY <1>1, <1>2, <1>5 DEF vars
<1>6. QED BY <1>1, <1>3, <1>4, <1>5 DEF Next

\* push and pop fail without cause only under competition for their index, in every
\* schedule.
THEOREM JustifiedFailures == Spec => FailuresJustified
<1>1. Init => Current
  BY InitIInv, QueueAssumption DEF Init, Current, Threads
<1>2. ASSUME Current, [Next]_vars, NEW p \in Producers, GaveUp(p)
      PROVE  full \/ overtaken[p] > 0
  <2>1. PushFull(p) /\ pc[p] = "check"
    BY <1>2, OnlyTheTestsGiveUp, QueueAssumption DEF Threads, Current, GaveUp
  <2>2. overtaken[p] \in Nat
    BY <1>2, QueueAssumption DEF Current, TypeOK, Threads
  <2>3. QED BY <1>2, <2>1, <2>2 DEF PushFull, full, Current
<1>3. ASSUME Current, [Next]_vars, NEW c \in Consumers, GaveUp(c)
      PROVE  empty \/ overtaken[c] > 0
  <2>1. PopEmpty(c) /\ pc[c] = "check"
    BY <1>3, OnlyTheTestsGiveUp, QueueAssumption DEF Threads, Current, GaveUp
  <2>2. overtaken[c] \in Nat
    BY <1>3, QueueAssumption DEF Current, TypeOK, Threads
  <2>3. QED BY <1>3, <2>1, <2>2 DEF PopEmpty, empty, Current
<1>4. Current /\ [Next]_vars =>
        [/\ \A p \in Producers : GaveUp(p) => full \/ overtaken[p] > 0
         /\ \A c \in Consumers : GaveUp(c) => empty \/ overtaken[c] > 0]_vars
  BY <1>2, <1>3
<1>5. QED BY <1>1, <1>4, CurrentStep, PTL DEF Spec, FailuresJustified

\* A thread that is alone on its side finds its index where it has loaded it, because only
\* its own claim moves it. This needs no bound on how long it is suspended in between.
Fresh ==
  /\ pc \in [Threads -> Stages] /\ cur = [t \in Threads |-> cur[t]]
  /\ \A p \in Producers : pc[p] = "check" => cur[p] = write_index
  /\ \A c \in Consumers : pc[c] = "check" => cur[c] = read_index

\* The step of a lone producer: what it has loaded is its index, and it gives up when the
\* queue is full.
LEMMA LoneProducer ==
  ASSUME Fresh, NEW p \in Producers, Producers = {p}, ProducerStep(p)
  PROVE  /\ Fresh'
         /\ GaveUp(p) => full
         /\ \A c \in Consumers : ~ GaveUp(c)
<1> USE DEF Fresh, GaveUp, Threads, Stages, Goto, Load, Return, indices
<1>0. p \notin Consumers BY QueueAssumption
<1>1. CASE PushStart(p)
  BY <1>0, <1>1 DEF PushStart, PushLoad, SpPushFull, SpPushCheck, vars
<1>2. CASE PushCompete(p)
  BY <1>0, <1>2 DEF PushCompete, PushFull, PushNotFull, PushClaim, PushRetry, full
<1>3. CASE PushFinish(p)
  BY <1>0, <1>3 DEF PushFinish, PushBuild, PushCommit
<1>4. CASE SpPushRest(p)
  BY <1>0, <1>4 DEF SpPushRest, SpPushClaim, SpPushBuild, SpPushCommit
<1>5. QED BY <1>1, <1>2, <1>3, <1>4 DEF ProducerStep

\* The step of a lone consumer, likewise.
LEMMA LoneConsumer ==
  ASSUME Fresh, NEW c \in Consumers, Consumers = {c}, ConsumerStep(c)
  PROVE  /\ Fresh'
         /\ GaveUp(c) => empty
         /\ \A p \in Producers : ~ GaveUp(p)
<1> USE DEF Fresh, GaveUp, Threads, Stages, Goto, Load, Return, indices
<1>0. c \notin Producers BY QueueAssumption
<1>1. CASE PopStart(c)
  BY <1>0, <1>1 DEF PopStart, PopLoad, ScPopEmpty, ScPopCheck
<1>2. CASE PopCompete(c)
  BY <1>0, <1>2 DEF PopCompete, PopEmpty, PopNotEmpty, PopClaim, PopRetry, empty
<1>3. CASE PopFinish(c)
  BY <1>0, <1>3 DEF PopFinish, PopTake, PopCommit
<1>4. CASE ScPopRest(c)
  BY <1>0, <1>4 DEF ScPopRest, ScPopClaim, ScPopTake, ScPopCommit
<1>5. QED BY <1>1, <1>2, <1>3, <1>4 DEF ConsumerStep

\* With one producer and one consumer, which may mix push with sp_push and pop with sc_pop,
\* push returns false only when the queue is full and pop only when it is empty at that moment.
THEOREM ExactFailures ==
  ASSUME NEW a, NEW b, Producers = {a}, Consumers = {b}
  PROVE  Spec => SingleFailuresExact
<1>1. Init => Fresh
  BY DEF Init, Fresh, Threads, Stages
<1>2. ASSUME Fresh, [Next]_vars
      PROVE  /\ Fresh'
             /\ [/\ \A p \in Producers : GaveUp(p) => full
                 /\ \A c \in Consumers : GaveUp(c) => empty]_vars
  <2>1. CASE UNCHANGED vars
    BY <1>2, <2>1 DEF vars, indices, Fresh
  <2>2. CASE ProducerStep(a)
    BY <1>2, <2>2, LoneProducer
  <2>3. CASE ConsumerStep(b)
    BY <1>2, <2>3, LoneConsumer
  <2>4. QED BY <1>2, <2>1, <2>2, <2>3 DEF Next
<1>3. Fresh /\ [Next]_vars => Fresh'
  BY <1>2
<1>4. Fresh /\ [Next]_vars =>
        [/\ \A p \in Producers : GaveUp(p) => full
         /\ \A c \in Consumers : GaveUp(c) => empty]_vars
  BY <1>2
<1>5. QED BY <1>1, <1>3, <1>4, PTL DEF Spec, SingleFailuresExact

-----------------------------------------------------------------------------
(* The queue its callers see. *)

\* The elements from r up to w.
Content(r, w, g) == [k \in 1 .. Dist(r, w) |-> g[At(r, k - 1)]]

LEMMA ContentIs ==
  /\ content = Content(read_index, write_commit_index, ring)
  /\ content' = Content(read_index', write_commit_index', ring')
BY DEF content, Content

LEMMA AtSlot ==
  ASSUME NEW r \in Slots, NEW w \in Slots, NEW k \in 1 .. Dist(r, w)
  PROVE  At(r, k - 1) \in Slots /\ Within(r, At(r, k - 1), w)
BY QueueAssumption DEF Slots, Dist, At, Within

\* Only the slots between r and w matter.
LEMMA SameContent ==
  ASSUME NEW r \in Slots, NEW w \in Slots, NEW g, NEW h,
         \A s \in Slots : Within(r, s, w) => h[s] = g[s]
  PROVE  Content(r, w, h) = Content(r, w, g)
BY AtSlot DEF Content

Contained(S, r, w, g) ==
  /\ Content(r, w, g) \in Seq(S) /\ Len(Content(r, w, g)) = Dist(r, w)
  /\ Dist(r, w) \in Nat
  /\ \A k \in 1 .. Dist(r, w) : Content(r, w, g)[k] = g[At(r, k - 1)]

LEMMA ContentType ==
  ASSUME NEW S, NEW g \in [Slots -> S], NEW r \in Slots, NEW w \in Slots
  PROVE  Contained(S, r, w, g)
<1>1. Dist(r, w) \in Nat
  BY QueueAssumption DEF Slots, Dist
<1>2. \A k \in 1 .. Dist(r, w) : g[At(r, k - 1)] \in S
  BY AtSlot
<1>3. QED BY <1>1, <1>2 DEF Content, Contained

\* An element more at the end ...
LEMMA ContentGrows ==
  ASSUME NEW S, NEW g \in [Slots -> S], NEW r \in Slots, NEW w \in Slots, Inc(w) # r
  PROVE  Content(r, Inc(w), g) = Append(Content(r, w, g), g[w])
<1>1. Inc(w) \in Slots /\ Dist(r, Inc(w)) = Dist(r, w) + 1 /\ g[w] \in S
  BY IndexType, Grow
<1>2. At(r, Dist(r, w)) = w
  BY QueueAssumption DEF Slots, Dist, At
<1>3. /\ Content(r, w, g) \in Seq(S) /\ Len(Content(r, w, g)) = Dist(r, w) /\ Dist(r, w) \in Nat
      /\ \A k \in 1 .. Dist(r, w) : Content(r, w, g)[k] = g[At(r, k - 1)]
  <2>1. Contained(S, r, w, g) BY ContentType, Zenon
  <2>2. QED BY <2>1 DEF Contained
<1>4. /\ Content(r, Inc(w), g) \in Seq(S) /\ Len(Content(r, Inc(w), g)) = Dist(r, w) + 1
      /\ \A k \in 1 .. Dist(r, w) + 1 : Content(r, Inc(w), g)[k] = g[At(r, k - 1)]
  <2>1. Contained(S, r, Inc(w), g) BY <1>1, ContentType, Zenon
  <2>2. QED BY <1>1, <2>1 DEF Contained
<1>5. \A k \in 1 .. Dist(r, w) + 1 :
        Append(Content(r, w, g), g[w])[k] = IF k <= Dist(r, w) THEN g[At(r, k - 1)] ELSE g[w]
  BY <1>1, <1>3
<1>6. \A k \in 1 .. Dist(r, w) + 1 : Append(Content(r, w, g), g[w])[k] = Content(r, Inc(w), g)[k]
  BY <1>2, <1>3, <1>4, <1>5
<1>7. Append(Content(r, w, g), g[w]) \in Seq(S)
      /\ Len(Append(Content(r, w, g), g[w])) = Dist(r, w) + 1
  BY <1>1, <1>3
<1>8. QED BY <1>4, <1>6, <1>7

\* ... and one less at the front.
LEMMA ContentShrinks ==
  ASSUME NEW S, NEW g \in [Slots -> S], NEW r \in Slots, NEW w \in Slots, r # w
  PROVE  /\ Content(r, w, g) # << >> /\ Head(Content(r, w, g)) = g[r]
         /\ Tail(Content(r, w, g)) = Content(Inc(r), w, g)
<1>1. Inc(r) \in Slots /\ Dist(Inc(r), w) = Dist(r, w) - 1 /\ Dist(r, w) # 0
  BY IndexType, Shrink
<1>2. At(r, 0) = r /\ \A k \in 1 .. Dist(r, w) - 1 : At(Inc(r), k - 1) = At(r, k)
  BY QueueAssumption DEF Slots, Dist, At, Inc
<1>3. /\ Content(r, w, g) \in Seq(S) /\ Len(Content(r, w, g)) = Dist(r, w) /\ Dist(r, w) \in Nat
      /\ \A k \in 1 .. Dist(r, w) : Content(r, w, g)[k] = g[At(r, k - 1)]
  <2>1. Contained(S, r, w, g) BY ContentType, Zenon
  <2>2. QED BY <2>1 DEF Contained
<1>4. /\ Content(Inc(r), w, g) \in Seq(S) /\ Len(Content(Inc(r), w, g)) = Dist(r, w) - 1
      /\ \A k \in 1 .. Dist(r, w) - 1 : Content(Inc(r), w, g)[k] = g[At(Inc(r), k - 1)]
  <2>1. Contained(S, Inc(r), w, g) BY <1>1, ContentType, Zenon
  <2>2. QED BY <1>1, <2>1 DEF Contained
<1>5. Content(r, w, g) # << >> /\ Head(Content(r, w, g)) = g[r]
  BY <1>1, <1>2, <1>3
<1>6. /\ Tail(Content(r, w, g)) \in Seq(S) /\ Len(Tail(Content(r, w, g))) = Dist(r, w) - 1
      /\ \A k \in 1 .. Dist(r, w) - 1 : Tail(Content(r, w, g))[k] = g[At(r, k)]
  BY <1>1, <1>3, <1>5
<1>7. \A k \in 1 .. Dist(r, w) - 1 : Tail(Content(r, w, g))[k] = Content(Inc(r), w, g)[k]
  BY <1>2, <1>4, <1>6
<1>8. QED BY <1>4, <1>5, <1>6, <1>7

-----------------------------------------------------------------------------
(* What calls hold. *)

\* An argument goes with its call, and a pop holds nothing before it has claimed.
Hands ==
  /\ \A p \in Producers : pc[p] = "idle" => val[p] = Raw
  /\ \A c \in Consumers : pc[c] \in {"check", "claim", "sc_claim"} => val[c] = Raw

LEMMA HandsStep ==
  ASSUME TypeOK, Hands, [Next]_vars
  PROVE  Hands'
<1> USE QueueAssumption DEF Hands, TypeOK, Threads, Goto
<1>1. ASSUME NEW p \in Producers, ProducerStep(p)
      PROVE  Hands'
  BY <1>1 DEF ProducerStep, PushStart, PushCompete, PushFinish, SpPushRest,
       PushLoad, SpPushFull, SpPushCheck, PushFull, PushNotFull, PushClaim, PushRetry,
       PushBuild, PushCommit, SpPushClaim, SpPushBuild, SpPushCommit, vars
<1>2. ASSUME NEW c \in Consumers, ConsumerStep(c)
      PROVE  Hands'
  BY <1>2 DEF ConsumerStep, PopStart, PopCompete, PopFinish, ScPopRest,
       PopLoad, ScPopEmpty, ScPopCheck, PopEmpty, PopNotEmpty, PopClaim, PopRetry,
       PopTake, PopCommit, ScPopClaim, ScPopTake, ScPopCommit
<1>3. CASE UNCHANGED vars
  BY <1>3 DEF vars
<1>4. QED BY <1>1, <1>2, <1>3 DEF Next

\* What a producer is about to commit is its argument.
Built == \A p \in Producers : pc[p] \in {"commit", "sp_commit"} => ring[cur[p]] = val[p]

LEMMA BuiltStep ==
  ASSUME Whole, Built, [Next]_vars
  PROVE  Built'
<1> USE QueueAssumption DEF Goto
<1>1. ASSUME NEW t \in Threads, OthersKeep(t), \A u \in Threads \ {t} : val'[u] = val[u],
             ring' = ring \/ (Owns(t) /\ \A s \in Slots : s # cur[t] => ring'[s] = ring[s]),
             NEW p \in Producers, p # t, pc'[p] \in {"commit", "sp_commit"}
      PROVE  ring'[cur'[p]] = val'[p]
  <2>1. p \in Threads /\ pc'[p] = pc[p] /\ cur'[p] = cur[p] /\ val'[p] = val[p] /\ cur[p] \in Slots
    BY <1>1 DEF OthersKeep, Threads, Whole, TypeOK
  <2>2. Owns(p)
    BY <1>1, <2>1 DEF Owns
  <2>3. Owns(t) => cur[t] # cur[p]
    BY <1>1, <2>1, <2>2, OwnsExclusive
  <2>4. ring'[cur[p]] = ring[cur[p]]
    BY <1>1, <2>1, <2>3
  <2>5. QED BY <1>1, <2>1, <2>4 DEF Built
<1>2. ASSUME NEW q \in Producers, ProducerStep(q)
      PROVE  Built'
  <2>0. q \in Threads
    BY DEF Threads
  <2>1. OthersKeep(q) /\ \A u \in Threads \ {q} : val'[u] = val[u]
    BY <1>2 DEF ProducerStep, PushStart, PushCompete, PushFinish, SpPushRest,
       PushLoad, SpPushFull, SpPushCheck, PushFull, PushNotFull, PushClaim, PushRetry,
       PushBuild, PushCommit, SpPushClaim, SpPushBuild, SpPushCommit, vars,
       Load, Return, OthersKeep, Whole, TypeOK, Threads
  <2>2. ring' = ring \/ PushBuild(q) \/ SpPushBuild(q)
    BY <1>2 DEF ProducerStep, PushStart, PushCompete, PushFinish, SpPushRest,
       PushLoad, SpPushFull, SpPushCheck, PushFull, PushNotFull, PushClaim, PushRetry,
       PushCommit, SpPushClaim, SpPushCommit, vars
  <2>3. ring' = ring \/ (Owns(q) /\ \A s \in Slots : s # cur[q] => ring'[s] = ring[s])
    BY <2>2 DEF PushBuild, SpPushBuild, Owns, Whole, TypeOK
  <2>4. ASSUME pc'[q] \in {"commit", "sp_commit"}
        PROVE  ring'[cur'[q]] = val'[q]
    <3>1. PushBuild(q) \/ SpPushBuild(q) \/ UNCHANGED vars
      BY <1>2, <2>0, <2>4 DEF ProducerStep, PushStart, PushCompete, PushFinish, SpPushRest,
       PushLoad, SpPushFull, SpPushCheck, PushFull, PushNotFull, PushClaim, PushRetry,
       PushCommit, SpPushClaim, SpPushCommit, vars, Whole, TypeOK
    <3>2. CASE UNCHANGED vars
      BY <2>4, <3>2 DEF vars, Built
    <3>3. CASE PushBuild(q) \/ SpPushBuild(q)
      BY <2>0, <3>3 DEF PushBuild, SpPushBuild, Whole, TypeOK
    <3>4. QED BY <3>1, <3>2, <3>3
  <2>5. QED BY <1>1, <2>0, <2>1, <2>3, <2>4 DEF Built
<1>3. ASSUME NEW c \in Consumers, ConsumerStep(c)
      PROVE  Built'
  <2>0. c \in Threads /\ \A p \in Producers : p # c
    BY DEF Threads
  <2>1. OthersKeep(c) /\ \A u \in Threads \ {c} : val'[u] = val[u]
    BY <1>3 DEF ConsumerStep, PopStart, PopCompete, PopFinish, ScPopRest,
       PopLoad, ScPopEmpty, ScPopCheck, PopEmpty, PopNotEmpty, PopClaim, PopRetry,
       PopTake, PopCommit, ScPopClaim, ScPopTake, ScPopCommit,
       Load, Return, OthersKeep, Whole, TypeOK, Threads
  <2>2. ring' = ring \/ PopTake(c) \/ ScPopTake(c)
    BY <1>3 DEF ConsumerStep, PopStart, PopCompete, PopFinish, ScPopRest,
       PopLoad, ScPopEmpty, ScPopCheck, PopEmpty, PopNotEmpty, PopClaim, PopRetry,
       PopCommit, ScPopClaim, ScPopCommit
  <2>3. ring' = ring \/ (Owns(c) /\ \A s \in Slots : s # cur[c] => ring'[s] = ring[s])
    BY <2>2 DEF PopTake, ScPopTake, Owns, Whole, TypeOK
  <2>4. QED BY <1>1, <2>0, <2>1, <2>3 DEF Built
<1>4. CASE UNCHANGED vars
  BY <1>4 DEF vars, Built
<1>5. QED BY <1>2, <1>3, <1>4 DEF Next

\* What consumers have received does not change in the steps of producers, which build in
\* slots of their own ...
LEMMA ReceivedFrame ==
  ASSUME Whole, NEW p \in Producers, OthersKeep(p),
         \A c \in Consumers : val'[c] = val[c],
         \A s \in Slots : Within(read_commit_index, s, read_index) => ring'[s] = ring[s]
  PROVE  received' = received
<1>1. \A c \in Consumers : pc'[c] = pc[c] /\ cur'[c] = cur[c] /\ cur[c] \in Slots
  BY QueueAssumption DEF OthersKeep, Threads, Whole, TypeOK
<1>2. \A c \in Consumers : pc[c] \in {"take", "sc_take"} => ring'[cur[c]] = ring[cur[c]]
  BY <1>1 DEF Whole, ConsumersOwn, Taking
<1>3. QED BY <1>1, <1>2 DEF received

\* ... and in the steps of consumers it changes for one of them.
LEMMA ReceivedBy ==
  ASSUME Whole, NEW c \in Consumers, OthersKeep(c), NEW x,
         \A d \in Consumers \ {c} : val'[d] = val[d],
         \A s \in Slots : s # cur[c] => ring'[s] = ring[s],
         ring'[cur[c]] = ring[cur[c]] \/ Taking(c),
         x = IF pc'[c] \in {"take", "sc_take"} THEN ring'[cur'[c]] ELSE val'[c]
  PROVE  received' = [received EXCEPT ![c] = x]
<1>1. \A d \in Consumers \ {c} : pc'[d] = pc[d] /\ cur'[d] = cur[d] /\ cur[d] \in Slots
  BY DEF OthersKeep, Threads, Whole, TypeOK
<1>2. \A d \in Consumers \ {c} : pc[d] \in {"take", "sc_take"} => ring'[cur[d]] = ring[cur[d]]
  BY <1>1 DEF Whole, ConsumersOwn, Taking
<1>3. received' = [d \in Consumers |-> IF pc'[d] \in {"take", "sc_take"} THEN ring'[cur'[d]] ELSE val'[d]]
  BY DEF received
<1>4. \A d \in Consumers \ {c} :
        (IF pc'[d] \in {"take", "sc_take"} THEN ring'[cur'[d]] ELSE val'[d])
          = IF pc[d] \in {"take", "sc_take"} THEN ring[cur[d]] ELSE val[d]
  BY <1>1, <1>2
<1>5. \A d \in Consumers : received'[d] = IF d = c THEN x ELSE received[d]
  BY <1>3, <1>4 DEF received
<1>6. QED BY <1>3, <1>5 DEF received

-----------------------------------------------------------------------------
(* Each step is a step of the abstract queue. *)

LEMMA StutterRefines ==
  ASSUME UNCHANGED vars
  PROVE  UNCHANGED Fifo!vars
<1>1. content' = content
  BY ContentIs DEF vars, indices
<1>2. received' = received
  BY DEF received, vars
<1>3. QED BY <1>1, <1>2 DEF Fifo!vars, vars

\* push is called: the argument waits.
LEMMA CallRefines ==
  ASSUME Whole, Hands, NEW p \in Producers, NEW v \in Values, PushLoad(p, v) \/ SpPushCheck(p, v)
  PROVE  Fifo!Call(p, v)
<1> USE QueueAssumption DEF PushLoad, SpPushCheck, Goto
<1>1. OthersKeep(p)
  BY DEF OthersKeep, Load, Whole, TypeOK, Threads
<1>2. content' = content
  BY ContentIs DEF indices
<1>3. val' = [val EXCEPT ![p] = v] /\ val[p] = Raw /\ \A c \in Consumers : val'[c] = val[c]
  BY DEF Whole, TypeOK, Threads, Hands
<1>4. received' = received
  BY <1>1, <1>3, ReceivedFrame
<1>5. [q \in Producers |-> val'[q]] = [[q \in Producers |-> val[q]] EXCEPT ![p] = v]
  BY <1>3 DEF Whole, TypeOK, Threads
<1>6. QED BY <1>2, <1>3, <1>4, <1>5 DEF Fifo!Call

\* push returns false.
LEMMA RefuseRefines ==
  ASSUME Whole, NEW p \in Producers, PushFull(p)
  PROVE  Fifo!Refuse(p)
<1> USE QueueAssumption DEF PushFull, Goto
<1>1. OthersKeep(p)
  BY DEF OthersKeep, Return, Whole, TypeOK, Threads
<1>2. content' = content
  BY ContentIs DEF indices
<1>3. val' = [val EXCEPT ![p] = Raw] /\ val[p] # Raw /\ \A c \in Consumers : val'[c] = val[c]
  BY DEF Whole, TypeOK, RoleOK, Threads
<1>4. received' = received
  BY <1>1, <1>3, ReceivedFrame
<1>5. [q \in Producers |-> val'[q]] = [[q \in Producers |-> val[q]] EXCEPT ![p] = Raw]
  BY <1>3 DEF Whole, TypeOK, Threads
<1>6. QED BY <1>2, <1>3, <1>4, <1>5 DEF Fifo!Refuse

\* Checking, claiming and reloading are not seen.
LEMMA PushHidden ==
  ASSUME Whole, NEW p \in Producers,
         PushNotFull(p) \/ PushClaim(p) \/ PushRetry(p) \/ SpPushClaim(p)
  PROVE  UNCHANGED Fifo!vars
<1> USE QueueAssumption DEF PushNotFull, PushClaim, PushRetry, SpPushClaim, Goto
<1>1. OthersKeep(p)
  BY DEF OthersKeep, Load, Whole, TypeOK, Threads
<1>2. content' = content
  BY ContentIs DEF indices
<1>3. val' = val /\ ring' = ring
  OBVIOUS
<1>4. received' = received
  BY <1>1, <1>3, ReceivedFrame
<1>5. QED BY <1>2, <1>3, <1>4 DEF Fifo!vars

\* The element is built out of sight.
LEMMA BuildRefines ==
  ASSUME Whole, NEW p \in Producers, PushBuild(p) \/ SpPushBuild(p)
  PROVE  UNCHANGED Fifo!vars
<1> USE QueueAssumption DEF PushBuild, SpPushBuild, Goto
<1>0. /\ write_index \in Slots /\ write_commit_index \in Slots
      /\ read_index \in Slots /\ read_commit_index \in Slots /\ cur[p] \in Slots
      /\ \A s \in Slots : s # cur[p] => ring'[s] = ring[s]
  BY DEF Whole, TypeOK, Threads
<1>1. OthersKeep(p)
  BY DEF OthersKeep, Whole, TypeOK, Threads
<1>2. Within(write_commit_index, cur[p], write_index)
  BY DEF Whole, ProducersOwn, Building
<1>3. ~ Within(read_index, cur[p], write_commit_index) /\ ~ Within(read_commit_index, cur[p], read_index)
  BY <1>0, <1>2, Sections DEF Whole, CursorOrder
<1>4. /\ \A s \in Slots : Within(read_index, s, write_commit_index) => ring'[s] = ring[s]
      /\ \A s \in Slots : Within(read_commit_index, s, read_index) => ring'[s] = ring[s]
  BY <1>0, <1>3
<1>5. Content(read_index, write_commit_index, ring') = Content(read_index, write_commit_index, ring)
  BY <1>0, <1>4, SameContent
<1>6. content' = content
  BY <1>5, ContentIs DEF indices
<1>7. received' = received
  BY <1>1, <1>4, ReceivedFrame
<1>8. QED BY <1>6, <1>7 DEF Fifo!vars

\* The oldest claim commits: its element appears.
LEMMA CommitRefines ==
  ASSUME Whole, Built, NEW p \in Producers, PushCommit(p) \/ SpPushCommit(p)
  PROVE  Fifo!Enqueue(p)
<1> USE QueueAssumption DEF PushCommit, SpPushCommit, Goto
<1>0. /\ write_index \in Slots /\ write_commit_index \in Slots
      /\ read_index \in Slots /\ read_commit_index \in Slots /\ cur[p] \in Slots
      /\ ring \in [Slots -> Values \cup {Raw}]
  BY DEF Whole, TypeOK, Threads
<1>1. OthersKeep(p)
  BY DEF OthersKeep, Return, Whole, TypeOK, Threads
<1>2. Building(p) /\ write_commit_index = cur[p] /\ write_commit_index' = Inc(cur[p])
  BY SoleProducer DEF Building, Whole, RoleOK, Solo
<1>3. write_commit_index # write_index /\ Inc(write_commit_index) # read_index
  BY <1>2, ProducerClaimed, CommitKeeps
<1>4. content' = Append(content, ring[cur[p]])
  <2>1. Content(read_index, Inc(write_commit_index), ring)
          = Append(Content(read_index, write_commit_index, ring), ring[write_commit_index])
    BY <1>0, <1>3, ContentGrows
  <2>2. content' = Content(read_index, Inc(write_commit_index), ring)
    BY <1>2, ContentIs
  <2>3. content = Content(read_index, write_commit_index, ring)
    BY ContentIs
  <2>4. QED BY <1>2, <2>1, <2>2, <2>3
<1>5. Len(content) < Size - 1
  <2>1. Len(content) = Dist(read_index, write_commit_index)
    <3>1. Dist(read_index, write_commit_index) \in Nat
      BY <1>0 DEF Slots, Dist
    <3>2. QED BY <3>1 DEF content
  <2>2. Dist(read_index, Inc(write_commit_index)) = Dist(read_index, write_commit_index) + 1
    BY <1>0, <1>3, Grow
  <2>3. Dist(read_index, Inc(write_commit_index)) < Size /\ Dist(read_index, write_commit_index) \in Nat
    <3>1. PICK r, w : r = read_index /\ w = write_commit_index OBVIOUS
    <3>2. r \in Slots /\ w \in Slots BY <1>0, <3>1
    <3>3. Inc(w) \in Slots BY <3>2, IndexType
    <3>4. \A s, t \in Slots : Dist(s, t) < Size /\ Dist(s, t) \in Nat BY DEF Slots, Dist
    <3>5. QED BY <3>1, <3>2, <3>3, <3>4, Zenon
  <2>4. QED BY <2>1, <2>2, <2>3
<1>6. val' = [val EXCEPT ![p] = Raw] /\ val[p] # Raw /\ \A c \in Consumers : val'[c] = val[c]
  BY DEF Whole, TypeOK, RoleOK, Threads
<1>7. received' = received
  BY <1>1, <1>6, ReceivedFrame
<1>8. [q \in Producers |-> val'[q]] = [[q \in Producers |-> val[q]] EXCEPT ![p] = Raw]
  BY <1>6 DEF Whole, TypeOK, Threads
<1>9. ring[cur[p]] = val[p]
  BY DEF Built
<1>10. QED BY <1>4, <1>5, <1>6, <1>7, <1>8, <1>9 DEF Fifo!Enqueue

\* pop is called: it has received nothing so far.
LEMMA AskRefines ==
  ASSUME Whole, NEW c \in Consumers, PopLoad(c) \/ ScPopCheck(c) \/ ScPopEmpty(c)
  PROVE  Fifo!Ask(c)
<1> USE QueueAssumption DEF PopLoad, ScPopCheck, ScPopEmpty, Goto
<1>1. OthersKeep(c) /\ pc'[c] \notin {"take", "sc_take"}
  BY DEF OthersKeep, Load, Whole, TypeOK, Threads
<1>2. content' = content
  BY ContentIs DEF indices
<1>3. val' = [val EXCEPT ![c] = Raw] /\ ring' = ring
  OBVIOUS
<1>4. /\ val'[c] = Raw /\ \A d \in Consumers \ {c} : val'[d] = val[d]
      /\ \A p \in Producers : val'[p] = val[p]
  BY <1>3 DEF Whole, TypeOK, Threads
<1>5. received' = [received EXCEPT ![c] = Raw]
  <2>1. Raw = IF pc'[c] \in {"take", "sc_take"} THEN ring'[cur'[c]] ELSE val'[c]
    BY <1>1, <1>4
  <2>2. QED BY <1>1, <1>3, <1>4, <2>1, ReceivedBy
<1>6. QED BY <1>2, <1>4, <1>5 DEF Fifo!Ask

\* Checking, reloading, giving up and committing leave what was received.
LEMMA PopHidden ==
  ASSUME Whole, NEW c \in Consumers,
         PopEmpty(c) \/ PopNotEmpty(c) \/ PopRetry(c) \/ PopCommit(c) \/ ScPopCommit(c)
  PROVE  UNCHANGED Fifo!vars
<1> USE QueueAssumption DEF PopEmpty, PopNotEmpty, PopRetry, PopCommit, ScPopCommit, Goto
<1>1. /\ OthersKeep(c)
      /\ pc[c] \notin {"take", "sc_take"} /\ pc'[c] \notin {"take", "sc_take"}
  BY DEF OthersKeep, Load, Return, Whole, TypeOK, Threads
<1>2. val' = val /\ ring' = ring /\ read_index' = read_index /\ write_commit_index' = write_commit_index
  BY DEF indices
<1>3. content' = content
  BY <1>2, ContentIs
<1>4. received' = received
  <2>1. \A d \in Consumers :
          /\ pc'[d] \in {"take", "sc_take"} <=> pc[d] \in {"take", "sc_take"}
          /\ d # c => cur'[d] = cur[d]
    BY <1>1 DEF OthersKeep, Threads
  <2>2. QED BY <1>1, <1>2, <2>1 DEF received
<1>5. QED BY <1>2, <1>3, <1>4 DEF Fifo!vars

\* A pop claims its slot: it has the oldest element.
LEMMA ClaimRefines ==
  ASSUME Whole, Hands, NEW c \in Consumers, PopClaim(c) \/ ScPopClaim(c), ~ overrun'
  PROVE  Fifo!Dequeue(c)
<1> USE QueueAssumption DEF PopClaim, ScPopClaim, Goto
<1>0. /\ write_commit_index \in Slots /\ read_index \in Slots /\ cur[c] \in Slots
      /\ ring \in [Slots -> Values \cup {Raw}]
  BY DEF Whole, TypeOK, Threads
<1>1. OthersKeep(c) /\ pc'[c] \in {"take", "sc_take"} /\ pc[c] \in {"claim", "sc_claim"}
  BY DEF OthersKeep, Whole, TypeOK, Threads
<1>2. cur[c] = read_index /\ read_index # write_commit_index
  BY IndexType DEF Whole, TypeOK, Threads, ChecksHold, ConsumerChecks, empty
<1>3. /\ val' = val /\ ring' = ring /\ cur' = cur
      /\ read_index' = Inc(read_index) /\ write_commit_index' = write_commit_index
  BY <1>2
<1>4. /\ content # << >> /\ Head(content) = ring[read_index]
      /\ Tail(content) = content'
  <2>1. \A g \in [Slots -> Values \cup {Raw}], r, w \in Slots : r # w =>
          /\ Content(r, w, g) # << >> /\ Head(Content(r, w, g)) = g[r]
          /\ Tail(Content(r, w, g)) = Content(Inc(r), w, g)
    BY ContentShrinks
  <2>2. QED BY <1>0, <1>2, <1>3, <2>1, ContentIs
<1>5. received[c] = Raw
  BY <1>1 DEF received, Hands
<1>6. received' = [received EXCEPT ![c] = ring[read_index]]
  <2>1. ring[read_index] = IF pc'[c] \in {"take", "sc_take"} THEN ring'[cur'[c]] ELSE val'[c]
    BY <1>1, <1>2, <1>3
  <2>2. QED BY <1>1, <1>3, <2>1, ReceivedBy
<1>7. QED BY <1>3, <1>4, <1>5, <1>6 DEF Fifo!Dequeue

\* The element is moved out of the slot into the result.
LEMMA TakeRefines ==
  ASSUME Whole, NEW c \in Consumers, PopTake(c) \/ ScPopTake(c)
  PROVE  UNCHANGED Fifo!vars
<1> USE QueueAssumption DEF PopTake, ScPopTake, Goto
<1>0. /\ write_index \in Slots /\ write_commit_index \in Slots
      /\ read_index \in Slots /\ read_commit_index \in Slots /\ cur[c] \in Slots
      /\ \A s \in Slots : s # cur[c] => ring'[s] = ring[s]
  BY DEF Whole, TypeOK, Threads
<1>1. /\ OthersKeep(c) /\ Taking(c)
      /\ pc[c] \in {"take", "sc_take"} /\ pc'[c] \notin {"take", "sc_take"}
  BY DEF OthersKeep, Taking, Whole, TypeOK, Threads
<1>2. Within(read_commit_index, cur[c], read_index)
  BY <1>1 DEF Whole, ConsumersOwn
<1>3. ~ Within(read_index, cur[c], write_commit_index)
  BY <1>0, <1>2, Sections DEF Whole, CursorOrder
<1>4. \A s \in Slots : Within(read_index, s, write_commit_index) => ring'[s] = ring[s]
  BY <1>0, <1>3
<1>5. Content(read_index, write_commit_index, ring') = Content(read_index, write_commit_index, ring)
  BY <1>0, <1>4, SameContent
<1>6. content' = content
  BY <1>5, ContentIs DEF indices
<1>7. /\ val'[c] = ring[cur[c]] /\ \A d \in Consumers \ {c} : val'[d] = val[d]
      /\ \A p \in Producers : val'[p] = val[p]
  BY DEF Whole, TypeOK, Threads
<1>8. received' = received
  <2>1. ring[cur[c]] = IF pc'[c] \in {"take", "sc_take"} THEN ring'[cur'[c]] ELSE val'[c]
    BY <1>1, <1>7
  <2>2. received' = [received EXCEPT ![c] = ring[cur[c]]]
    BY <1>0, <1>1, <1>7, <2>1, ReceivedBy
  <2>3. received[c] = ring[cur[c]]
    BY <1>1 DEF received
  <2>4. QED BY <2>2, <2>3 DEF received
<1>9. QED BY <1>6, <1>7, <1>8 DEF Fifo!vars

\* Every step of a thread is a step of the abstract queue or is not seen.
LEMMA NextRefines ==
  ASSUME Whole, Hands, Built, [Next]_vars, ~ overrun'
  PROVE  [Fifo!Next]_(Fifo!vars)
<1>1. ASSUME NEW p \in Producers, ProducerStep(p)
      PROVE  \/ Fifo!Enqueue(p) \/ Fifo!Refuse(p) \/ \E v \in Values : Fifo!Call(p, v)
             \/ UNCHANGED Fifo!vars
  <2>1. CASE SpPushFull(p)
    BY <2>1, StutterRefines DEF SpPushFull
  <2>2. CASE \E v \in Values : PushLoad(p, v) \/ SpPushCheck(p, v)
    BY <2>2, CallRefines
  <2>3. CASE PushCompete(p)
    BY <2>3, RefuseRefines, PushHidden DEF PushCompete
  <2>4. CASE PushFinish(p)
    BY <2>4, BuildRefines, CommitRefines DEF PushFinish
  <2>5. CASE SpPushRest(p)
    BY <2>5, PushHidden, BuildRefines, CommitRefines DEF SpPushRest
  <2>6. QED BY <1>1, <2>1, <2>2, <2>3, <2>4, <2>5 DEF ProducerStep, PushStart
<1>2. ASSUME NEW c \in Consumers, ConsumerStep(c)
      PROVE  Fifo!Ask(c) \/ Fifo!Dequeue(c) \/ UNCHANGED Fifo!vars
  <2>1. CASE PopStart(c)
    BY <2>1, AskRefines DEF PopStart
  <2>2. CASE PopCompete(c)
    BY <2>2, PopHidden, ClaimRefines DEF PopCompete
  <2>3. CASE PopFinish(c)
    BY <2>3, TakeRefines, PopHidden DEF PopFinish
  <2>4. CASE ScPopRest(c)
    BY <2>4, ClaimRefines, TakeRefines, PopHidden DEF ScPopRest
  <2>5. QED BY <1>2, <2>1, <2>2, <2>3, <2>4 DEF ConsumerStep
<1>3. CASE UNCHANGED vars
  BY <1>3, StutterRefines
<1>4. QED BY <1>1, <1>2, <1>3 DEF Next, Fifo!Next

\* A new queue is empty and nobody holds anything.
LEMMA InitRefines == Init => Hands /\ Built /\ Fifo!Init
<1>1. SUFFICES ASSUME Init PROVE Hands /\ Built /\ Fifo!Init
  OBVIOUS
<1>2. Hands /\ Built
  BY <1>1, QueueAssumption DEF Init, Hands, Built, Threads
<1>3. content = << >>
  <2>1. Dist(read_index, write_commit_index) = 0
    BY <1>1 DEF Init, Dist
  <2>2. content = [k \in 1 .. 0 |-> ring[At(read_index, k - 1)]]
    BY <2>1 DEF content
  <2>3. QED BY <2>2
<1>4. received = [c \in Consumers |-> Raw] /\ [p \in Producers |-> val[p]] = [p \in Producers |-> Raw]
  BY <1>1, QueueAssumption DEF Init, received, Threads
<1>5. QED BY <1>2, <1>3, <1>4 DEF Fifo!Init

\* push and pop implement a bounded first-in-first-out queue for every ring size, any
\* number of threads and any schedule, up to the first overrun.
THEOREM Refinement == Spec => ImplementsFifo
<1>1. Init => IInv /\ Hands /\ (overrun \/ Built) /\ Fifo!Init
  BY InitRefines, InitIInv DEF IInv, Orderly, Whole
<1>2. IInv /\ Hands /\ [Next]_vars => IInv' /\ Hands' /\ (overrun => overrun')
  BY HandsStep, NextIInv DEF IInv
<1>3. IInv /\ Hands /\ (overrun \/ Built) /\ [Next]_vars => (overrun \/ Built)'
  BY BuiltStep, UntilThen, NextIInv
<1>4. IInv /\ Hands /\ (overrun \/ Built) /\ [Next]_vars => [Fifo!Next \/ overrun']_(Fifo!vars)
  BY NextRefines, UntilThen, NextIInv
<1>5. QED BY <1>1, <1>2, <1>3, <1>4, PTL DEF Spec, ImplementsFifo

=============================================================================
