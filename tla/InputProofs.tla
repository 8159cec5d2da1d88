---------------------------- MODULE InputProofs -----------------------------
(***************************************************************************)
(* What input passes through on its way to a method: Buffer is a byte      *)
(* queue for every capacity and every byte alphabet, and HttpMessage finds *)
(* in a request what the client has put into it, wherever the reads and    *)
(* the end of the ring have cut it.                                        *)
(***************************************************************************)
EXTENDS Buffer, HttpMessage, FiniteSetTheorems, SequenceTheorems, TLAPS

-----------------------------------------------------------------------------
(* Index arithmetic. *)

\* Readable and writable bytes add up to one less than the capacity.
LEMMA Counts ==
  ASSUME TypeOK
  PROVE  /\ readable_bytes \in Slots /\ writable_bytes \in Slots
         /\ readable_bytes + writable_bytes = Capacity - 1
BY BufferAssumption DEF TypeOK, readable_bytes, writable_bytes, Mask, Slots

\* The content ends where the next byte goes.
LEMMA EndOfContent ==
  ASSUME TypeOK, NEW n \in Nat, n <= writable_bytes
  PROVE  /\ Mask(write_index + n) \in Slots
         /\ Mask(Capacity + Mask(write_index + n) - read_index) = readable_bytes + n
BY BufferAssumption DEF TypeOK, readable_bytes, writable_bytes, Mask, Slots

\* After a cut of n bytes the content starts n bytes later (cut, cut_into_fd).
LEMMA StartOfContent ==
  ASSUME TypeOK, NEW n \in Nat, n <= readable_bytes
  PROVE  /\ Mask(read_index + n) \in Slots
         /\ Mask(Capacity + write_index - Mask(read_index + n)) = readable_bytes - n
         /\ \A k \in 0 .. readable_bytes - n - 1 :
              Mask(Mask(read_index + n) + k) = Mask(read_index + (n + k))
BY BufferAssumption DEF TypeOK, readable_bytes, Mask, Slots

\* What append is offered is a byte string.
LEMMA ChunkType ==
  ASSUME NEW data \in Chunks
  PROVE  data \in Seq(Bytes) /\ Len(data) \in Nat
<1>1. PICK n \in Sizes : data \in [1 .. n -> Bytes]
  BY DEF Chunks
<1>2. n \in Nat
  BY BufferAssumption DEF Sizes
<1>3. QED BY <1>1, <1>2

\* The content is a byte string of readable_bytes() bytes.
LEMMA ContentSeq ==
  ASSUME NEW mem \in [Slots -> Bytes], NEW r \in Slots, NEW w \in Slots
  PROVE  /\ Content(mem, r, w) \in Seq(Bytes)
         /\ Len(Content(mem, r, w)) = Mask(Capacity + w - r)
         /\ \A k \in 1 .. Mask(Capacity + w - r) :
              Content(mem, r, w)[k] = mem[Mask(r + (k - 1))]
<1> DEFINE n == Mask(Capacity + w - r)
<1>1. n \in Nat
  BY BufferAssumption DEF Mask, Slots
<1>2. \A k \in 1 .. n : Mask(r + (k - 1)) \in Slots
  BY BufferAssumption DEF Mask, Slots
<1>3. Content(mem, r, w) \in [1 .. n -> Bytes]
  BY <1>1, <1>2 DEF Content
<1>4. QED BY <1>1, <1>3 DEF Content

-----------------------------------------------------------------------------
(* Storing behind the content. *)

\* Storing n bytes keeps the content and puts the n bytes right behind it,
\* whether append and readv need one part or two.
LEMMA StoreAt ==
  ASSUME TypeOK, NEW data \in Seq(Bytes), NEW n \in Nat,
         n <= Len(data), n <= writable_bytes
  PROVE  /\ Store(data, n) \in [Slots -> Bytes]
         /\ \A k \in 0 .. readable_bytes - 1 :
              Store(data, n)[Mask(read_index + k)] = ring[Mask(read_index + k)]
         /\ \A j \in 0 .. n - 1 :
              Store(data, n)[Mask(read_index + (readable_bytes + j))] = data[j + 1]
<1> DEFINE tail == Capacity - write_index
           wraps == read_index <= write_index /\ tail < n
<1>0. /\ read_index \in Slots /\ write_index \in Slots /\ ring \in [Slots -> Bytes]
      /\ \A k \in 1 .. n : data[k] \in Bytes
      /\ readable_bytes \in Nat /\ writable_bytes \in Nat
  BY Counts, BufferAssumption DEF TypeOK, Slots
<1>1. CASE wraps
  <2>1. \A i \in Slots :
          Store(data, n)[i] = IF i < n - tail THEN data[tail + i + 1]
                              ELSE IF write_index <= i THEN data[(i - write_index) + 1]
                              ELSE ring[i]
    BY <1>0, <1>1, BufferAssumption DEF Store, MemMove, Slots
  <2>2. Store(data, n) = [i \in Slots |-> Store(data, n)[i]]
    BY <1>1 DEF Store, MemMove
  <2>3. \A i \in Slots : Store(data, n)[i] \in Bytes
    <3>1. SUFFICES ASSUME NEW i \in Slots PROVE Store(data, n)[i] \in Bytes
      OBVIOUS
    <3>2. CASE i < n - tail
      <4>1. tail + i + 1 \in 1 .. n
        BY <3>2, <1>0, BufferAssumption DEF Slots
      <4>2. QED BY <4>1, <3>2, <2>1, <1>0
    <3>3. CASE ~ (i < n - tail) /\ write_index <= i
      <4>1. (i - write_index) + 1 \in 1 .. n
        BY <3>3, <1>0, <1>1, BufferAssumption DEF Slots
      <4>2. QED BY <4>1, <3>3, <2>1, <1>0
    <3>4. QED BY <3>2, <3>3, <2>1, <1>0
  <2>4. \A k \in 0 .. readable_bytes - 1 :
          Store(data, n)[Mask(read_index + k)] = ring[Mask(read_index + k)]
    <3>1. SUFFICES ASSUME NEW k \in 0 .. readable_bytes - 1
                   PROVE  Store(data, n)[Mask(read_index + k)] = ring[Mask(read_index + k)]
      OBVIOUS
    <3>2. PICK i : i = Mask(read_index + k)
      OBVIOUS
    <3>3. i \in Slots /\ ~ (i < n - tail) /\ ~ (write_index <= i)
      BY <3>2, <1>0, <1>1, BufferAssumption DEF readable_bytes, writable_bytes, Mask, Slots
    <3>4. QED BY <2>1, <3>2, <3>3
  <2>5. \A j \in 0 .. n - 1 :
          Store(data, n)[Mask(read_index + (readable_bytes + j))] = data[j + 1]
    <3>1. SUFFICES ASSUME NEW j \in 0 .. n - 1
                   PROVE  Store(data, n)[Mask(read_index + (readable_bytes + j))]
                            = data[j + 1]
      OBVIOUS
    <3>2. PICK i : i = Mask(read_index + (readable_bytes + j))
      OBVIOUS
    <3>3. i = (IF j < tail THEN write_index + j ELSE j - tail) /\ i \in Slots
      BY <3>2, <1>0, <1>1, BufferAssumption DEF readable_bytes, writable_bytes, Mask, Slots
    <3>4. CASE j < tail
      <4>1. ~ (i < n - tail) /\ write_index <= i /\ (i - write_index) + 1 = j + 1
        BY <3>3, <3>4, <1>0, <1>1, BufferAssumption
           DEF readable_bytes, writable_bytes, Mask, Slots
      <4>2. QED BY <3>2, <3>3, <4>1, <2>1
    <3>5. CASE ~ (j < tail)
      <4>1. i < n - tail /\ tail + i + 1 = j + 1
        BY <3>3, <3>5, <1>0, BufferAssumption DEF Slots
      <4>2. QED BY <3>2, <3>3, <4>1, <2>1
    <3>6. QED BY <3>4, <3>5
  <2>6. QED BY <2>2, <2>3, <2>4, <2>5
<1>2. CASE ~ wraps
  <2>1. \A i \in Slots :
          Store(data, n)[i] = IF write_index <= i /\ i < write_index + n
                              THEN data[(i - write_index) + 1] ELSE ring[i]
    BY <1>0, <1>2, BufferAssumption DEF Store, MemMove, Slots
  <2>2. Store(data, n) = [i \in Slots |-> Store(data, n)[i]]
    BY <1>2 DEF Store, MemMove
  <2>3. \A i \in Slots : Store(data, n)[i] \in Bytes
    <3>1. SUFFICES ASSUME NEW i \in Slots PROVE Store(data, n)[i] \in Bytes
      OBVIOUS
    <3>2. CASE write_index <= i /\ i < write_index + n
      <4>1. (i - write_index) + 1 \in 1 .. n
        BY <3>2, <1>0 DEF Slots
      <4>2. QED BY <4>1, <3>2, <2>1, <1>0
    <3>3. QED BY <3>2, <2>1, <1>0
  <2>4. \A k \in 0 .. readable_bytes - 1 :
          Store(data, n)[Mask(read_index + k)] = ring[Mask(read_index + k)]
    <3>1. SUFFICES ASSUME NEW k \in 0 .. readable_bytes - 1
                   PROVE  Store(data, n)[Mask(read_index + k)] = ring[Mask(read_index + k)]
      OBVIOUS
    <3>2. PICK i : i = Mask(read_index + k)
      OBVIOUS
    <3>3. i \in Slots /\ ~ (write_index <= i /\ i < write_index + n)
      BY <3>2, <1>0, <1>2, BufferAssumption DEF readable_bytes, writable_bytes, Mask, Slots
    <3>4. QED BY <2>1, <3>2, <3>3
  <2>5. \A j \in 0 .. n - 1 :
          Store(data, n)[Mask(read_index + (readable_bytes + j))] = data[j + 1]
    <3>1. SUFFICES ASSUME NEW j \in 0 .. n - 1
                   PROVE  Store(data, n)[Mask(read_index + (readable_bytes + j))]
                            = data[j + 1]
      OBVIOUS
    <3>2. PICK i : i = Mask(read_index + (readable_bytes + j))
      OBVIOUS
    <3>3. /\ i \in Slots /\ write_index <= i /\ i < write_index + n
          /\ (i - write_index) + 1 = j + 1
      BY <3>2, <1>0, <1>2, BufferAssumption DEF readable_bytes, writable_bytes, Mask, Slots
    <3>4. QED BY <2>1, <3>2, <3>3
  <2>6. QED BY <2>2, <2>3, <2>4, <2>5
<1>3. QED BY <1>1, <1>2

-----------------------------------------------------------------------------
(* The two kinds of change. *)

\* n bytes of data are stored behind the content.
PutStep(data, n) ==
  /\ ring' = Store(data, n)
  /\ write_index' = Mask(write_index + n)
  /\ UNCHANGED read_index

\* n bytes are removed in front.
DropStep(n) ==
  /\ read_index' = Mask(read_index + n)
  /\ UNCHANGED <<write_index, ring>>

Shape == read_index \in Slots /\ write_index \in Slots /\ ring \in [Slots -> Bytes]

\* A step that stores n bytes appends them to the content (append,
\* append_from_fd).
LEMMA PutContent ==
  ASSUME TypeOK, NEW data \in Seq(Bytes), NEW n \in Nat,
         n <= Len(data), n <= writable_bytes, PutStep(data, n)
  PROVE  Shape' /\ held' = held \o SubSeq(data, 1, n)
<1> DEFINE more == SubSeq(data, 1, n)
<1>0. /\ read_index \in Slots /\ write_index \in Slots /\ ring \in [Slots -> Bytes]
      /\ readable_bytes \in Nat
  BY Counts, BufferAssumption DEF TypeOK, Slots
<1>1. Shape'
  BY <1>0, StoreAt, EndOfContent DEF PutStep, Shape
<1>2. held \in Seq(Bytes) /\ Len(held) = readable_bytes
      /\ \A k \in 1 .. readable_bytes : held[k] = ring[Mask(read_index + (k - 1))]
  BY <1>0, ContentSeq DEF held, readable_bytes
<1>3. Mask(Capacity + write_index' - read_index') = readable_bytes + n
  BY EndOfContent DEF PutStep
<1>4. held' \in Seq(Bytes) /\ Len(held') = readable_bytes + n
      /\ \A k \in 1 .. readable_bytes + n :
           held'[k] = ring'[Mask(read_index + (k - 1))]
  BY <1>1, <1>3, ContentSeq DEF held, Shape, PutStep
<1>5. more \in Seq(Bytes) /\ Len(more) = n /\ \A i \in 1 .. n : more[i] = data[i]
  OBVIOUS
<1> HIDE DEF more
<1>6. held \o more \in Seq(Bytes) /\ Len(held \o more) = readable_bytes + n
      /\ \A k \in 1 .. readable_bytes + n :
           (held \o more)[k] = IF k <= readable_bytes THEN held[k]
                                  ELSE more[k - readable_bytes]
  <2>1. \A a, b \in Seq(Bytes) :
          /\ a \o b \in Seq(Bytes) /\ Len(a \o b) = Len(a) + Len(b)
          /\ \A k \in 1 .. Len(a) + Len(b) :
               (a \o b)[k] = IF k <= Len(a) THEN a[k] ELSE b[k - Len(a)]
    BY ConcatProperties
  <2>2. QED BY <2>1, <1>2, <1>5, Zenon
<1>7. ASSUME NEW k \in 1 .. readable_bytes + n
      PROVE  held'[k] = (held \o more)[k]
  <2>1. CASE k <= readable_bytes
    <3>1. k - 1 \in 0 .. readable_bytes - 1 /\ k \in 1 .. readable_bytes
      BY <2>1, <1>0
    <3>2. held'[k] = ring[Mask(read_index + (k - 1))]
      BY <3>1, <1>4, StoreAt DEF PutStep
    <3>3. QED BY <2>1, <3>1, <3>2, <1>2, <1>6
  <2>2. CASE ~ (k <= readable_bytes)
    <3>1. PICK j \in 0 .. n - 1 : j = k - readable_bytes - 1
      BY <2>2, <1>0
    <3>2. k - 1 = readable_bytes + j /\ k - readable_bytes = j + 1 /\ j + 1 \in 1 .. n
      BY <3>1, <1>0
    <3>3. held'[k] = data[j + 1]
      BY <3>2, <1>4, StoreAt DEF PutStep
    <3>4. (held \o more)[k] = data[j + 1]
      BY <2>2, <3>2, <1>5, <1>6
    <3>5. QED BY <3>3, <3>4
  <2>3. QED BY <2>1, <2>2
<1>8. held' = held \o more
  BY <1>4, <1>6, <1>7, SeqEqual
<1>9. QED BY <1>1, <1>8 DEF more

\* A step that advances _read_index removes the first n bytes (cut,
\* cut_into_fd).
LEMMA DropContent ==
  ASSUME TypeOK, NEW n \in Nat, n <= readable_bytes, DropStep(n)
  PROVE  Shape' /\ held' = SubSeq(held, n + 1, Len(held))
<1> DEFINE rest == SubSeq(held, n + 1, Len(held))
<1>0. /\ read_index \in Slots /\ write_index \in Slots /\ ring \in [Slots -> Bytes]
      /\ readable_bytes \in Nat
  BY Counts, BufferAssumption DEF TypeOK, Slots
<1>1. Shape'
  BY <1>0, StartOfContent DEF DropStep, Shape
<1>2. held \in Seq(Bytes) /\ Len(held) = readable_bytes
      /\ \A k \in 1 .. readable_bytes : held[k] = ring[Mask(read_index + (k - 1))]
  BY <1>0, ContentSeq DEF held, readable_bytes
<1>3. Mask(Capacity + write_index' - read_index') = readable_bytes - n
  BY StartOfContent DEF DropStep
<1>4. held' \in Seq(Bytes) /\ Len(held') = readable_bytes - n
      /\ \A k \in 1 .. readable_bytes - n :
           held'[k] = ring[Mask(read_index' + (k - 1))]
  <2>1. ring \in [Slots -> Bytes] /\ read_index' \in Slots /\ write_index' \in Slots
        /\ ring' = ring
    BY <1>1 DEF Shape, DropStep
  <2>2. QED BY <2>1, <1>3, ContentSeq DEF held
<1>5. rest \in Seq(Bytes) /\ Len(rest) = readable_bytes - n
      /\ \A k \in 1 .. readable_bytes - n : rest[k] = held[n + k]
  BY <1>0, <1>2
<1>6. ASSUME NEW k \in 1 .. readable_bytes - n
      PROVE  held'[k] = rest[k]
  <2>1. k - 1 \in 0 .. readable_bytes - n - 1 /\ n + k \in 1 .. readable_bytes
        /\ n + (k - 1) = (n + k) - 1
    BY <1>0
  <2>2. Mask(read_index' + (k - 1)) = Mask(read_index + (n + (k - 1)))
    BY <2>1, StartOfContent DEF DropStep
  <2>3. held'[k] = ring[Mask(read_index + ((n + k) - 1))]
    BY <2>1, <2>2, <1>4
  <2>4. held[n + k] = ring[Mask(read_index + ((n + k) - 1))] /\ rest[k] = held[n + k]
    BY <2>1, <1>2, <1>5
  <2>5. QED BY <2>3, <2>4
<1>7. held' = rest
  BY <1>4, <1>5, <1>6, SeqEqual
<1>8. QED BY <1>1, <1>7

-----------------------------------------------------------------------------
(* The four ways of looking at the content. *)

\* The room of the byte queue is writable_bytes().
LEMMA ContentSize ==
  ASSUME TypeOK
  PROVE  /\ held \in Seq(Bytes) /\ Len(held) = readable_bytes
         /\ Queue!Room = writable_bytes
<1>1. held \in Seq(Bytes) /\ Len(held) = readable_bytes
  BY ContentSeq DEF TypeOK, held, readable_bytes
<1>2. QED BY <1>1, Counts, BufferAssumption DEF Queue!Room, Slots

\* A run of the ring that does not pass its end is a byte string.
LEMMA Span ==
  ASSUME TypeOK, NEW i \in Nat, NEW n \in Nat, i + n <= Capacity
  PROVE  LET span == [k \in 1 .. n |-> ring[i + k - 1]]
         IN  span \in Seq(Bytes) /\ Len(span) = n /\ \A k \in 1 .. n : span[k] = ring[i + k - 1]
<1>1. \A k \in 1 .. n : ring[i + k - 1] \in Bytes
  BY BufferAssumption DEF TypeOK, Slots
<1>2. [k \in 1 .. n |-> ring[i + k - 1]] \in [1 .. n -> Bytes]
  BY <1>1
<1>3. QED BY <1>2

\* Two runs, the second one from the start of the ring.
LEMMA TwoSpans ==
  ASSUME TypeOK, NEW n \in Nat, n <= readable_bytes, Capacity - read_index <= n
  PROVE  [k \in 1 .. Capacity - read_index |-> ring[read_index + k - 1]]
           \o [k \in 1 .. n - (Capacity - read_index) |-> ring[k - 1]]
         = SubSeq(held, 1, n)
<1> DEFINE head == Capacity - read_index
           one == [k \in 1 .. head |-> ring[read_index + k - 1]]
           two == [k \in 1 .. n - head |-> ring[0 + k - 1]]
           both == one \o two
           some == SubSeq(held, 1, n)
<1>0. /\ read_index \in Nat /\ head \in Nat /\ n - head \in Nat
      /\ read_index + head <= Capacity /\ 0 + (n - head) <= Capacity
      /\ readable_bytes \in Nat
  BY Counts, BufferAssumption DEF TypeOK, Slots
<1>1. one \in Seq(Bytes) /\ Len(one) = head
      /\ \A k \in 1 .. head : one[k] = ring[read_index + k - 1]
  BY <1>0, Span
<1>2. two \in Seq(Bytes) /\ Len(two) = n - head
      /\ \A k \in 1 .. n - head : two[k] = ring[0 + k - 1]
  BY <1>0, Span
<1>3. two = [k \in 1 .. n - head |-> ring[k - 1]]
  BY <1>0
<1>4. /\ held \in Seq(Bytes) /\ Len(held) = readable_bytes
      /\ \A k \in 1 .. readable_bytes : held[k] = ring[Mask(read_index + (k - 1))]
  BY ContentSeq DEF TypeOK, held, readable_bytes
<1>5. some \in Seq(Bytes) /\ Len(some) = n /\ \A k \in 1 .. n : some[k] = held[k]
  BY <1>4, <1>0
<1> HIDE DEF one, two, some, head
<1>6. both \in Seq(Bytes) /\ Len(both) = n
      /\ \A k \in 1 .. n : both[k] = IF k <= head THEN one[k] ELSE two[k - head]
  <2> HIDE DEF both
  <2>1. /\ both \in Seq(Bytes) /\ Len(both) = Len(one) + Len(two)
        /\ \A k \in 1 .. Len(one) + Len(two) :
             both[k] = IF k <= Len(one) THEN one[k] ELSE two[k - Len(one)]
    BY <1>1, <1>2, ConcatProperties, Zenon DEF both
  <2>2. Len(one) = head /\ Len(two) = n - head /\ Len(one) + Len(two) = n
    BY <1>0, <1>1, <1>2
  <2>3. QED BY <2>1, <2>2
<1>7. ASSUME NEW k \in 1 .. n PROVE both[k] = some[k]
  <2>1. some[k] = ring[Mask(read_index + (k - 1))]
    BY <1>4, <1>5, <1>0
  <2>2. CASE k <= head
    <3>1. Mask(read_index + (k - 1)) = read_index + k - 1 /\ k \in 1 .. head
      BY <2>2, <1>0, BufferAssumption DEF Mask, head
    <3>2. QED BY <2>1, <2>2, <3>1, <1>1, <1>6
  <2>3. CASE ~ (k <= head)
    <3>1. /\ Mask(read_index + (k - 1)) = 0 + (k - head) - 1
          /\ k - head \in 1 .. n - head
      BY <2>3, <1>0, BufferAssumption DEF Mask, head
    <3>2. QED BY <2>1, <2>3, <3>1, <1>2, <1>6
  <2>4. QED BY <2>2, <2>3
<1> HIDE DEF both
<1>8. both = some
  BY <1>5, <1>6, <1>7, SeqEqual
<1>9. QED BY <1>3, <1>8 DEF both, one, two, some, head

\* One run of the ring, from _read_index.
LEMMA OneSpan ==
  ASSUME TypeOK, NEW n \in Nat, n <= readable_bytes, read_index + n <= Capacity
  PROVE  [k \in 1 .. n |-> ring[read_index + k - 1]] = SubSeq(held, 1, n)
<1> DEFINE one == [k \in 1 .. n |-> ring[read_index + k - 1]]
           some == SubSeq(held, 1, n)
<1>0. read_index \in Nat /\ readable_bytes \in Nat
  BY Counts, BufferAssumption DEF TypeOK, Slots
<1>1. one \in Seq(Bytes) /\ Len(one) = n
      /\ \A k \in 1 .. n : one[k] = ring[read_index + k - 1]
  BY <1>0, Span
<1>2. /\ held \in Seq(Bytes) /\ Len(held) = readable_bytes
      /\ \A k \in 1 .. readable_bytes : held[k] = ring[Mask(read_index + (k - 1))]
  BY ContentSeq DEF TypeOK, held, readable_bytes
<1>3. some \in Seq(Bytes) /\ Len(some) = n /\ \A k \in 1 .. n : some[k] = held[k]
  BY <1>2, <1>0
<1> HIDE DEF one, some
<1>4. ASSUME NEW k \in 1 .. n PROVE one[k] = some[k]
  <2>1. k \in 1 .. readable_bytes /\ Mask(read_index + (k - 1)) = read_index + k - 1
    BY <1>0, BufferAssumption DEF Mask
  <2>2. QED BY <2>1, <1>1, <1>2, <1>3
<1>5. one = some
  BY <1>1, <1>3, <1>4, SeqEqual
<1>6. QED BY <1>5 DEF one, some

\* What every reader of the buffer sees is the content.
LEMMA ViewsOfContent == ASSUME TypeOK PROVE ViewsAgree
<1> DEFINE head == Capacity - read_index
<1>0. /\ read_index \in Slots /\ write_index \in Slots /\ readable_bytes \in Nat
      /\ head \in Nat /\ held \in Seq(Bytes) /\ Len(held) = readable_bytes
  BY Counts, ContentSize, BufferAssumption DEF TypeOK, Slots
<1>1. SubSeq(held, 1, readable_bytes) = held
  BY <1>0, SubSeqFull
<1>2. CASE read_index <= write_index
  <2>1. /\ readable_bytes = write_index - read_index
        /\ read_index + readable_bytes <= Capacity
    BY <1>0, <1>2, BufferAssumption DEF readable_bytes, Mask, Slots
  <2>2. [k \in 1 .. readable_bytes |-> ring[read_index + k - 1]] = held
    BY <1>0, <1>1, <2>1, OneSpan
  <2>3. str = held /\ strs = <<held>>
    BY <1>2, <2>1, <2>2 DEF str, strs
  <2>4. Len(strs) = 1 /\ strs[1] = held
    BY <2>3
  <2>5. ASSUME NEW n \in 0 .. readable_bytes
        PROVE  Gather(n) = SubSeq(held, 1, n)
    <3>1. n \in Nat /\ n <= readable_bytes /\ read_index + n <= Capacity
      BY <2>1, <1>0, BufferAssumption DEF Slots
    <3>2. read_index < write_index \/ Capacity - read_index > n
      <4>1. read_index \in Int /\ write_index \in Int /\ read_index < Capacity
        BY <1>0, BufferAssumption DEF Slots
      <4>2. QED BY <4>1, <3>1, <2>1, <1>2, BufferAssumption
    <3>3. QED BY <3>1, <3>2, OneSpan DEF Gather
  <2>6. QED BY <2>3, <2>4, <2>5 DEF ViewsAgree
<1>3. CASE ~ (read_index <= write_index)
  <2>1. readable_bytes = head + write_index /\ readable_bytes - head = write_index
    BY <1>0, <1>3, BufferAssumption DEF readable_bytes, Mask, Slots
  <2>2. str = held
    <3>1. \A k \in 1 .. readable_bytes :
            Mask(read_index + (k - 1)) = IF k <= head THEN read_index + k - 1
                                         ELSE k - head - 1
      BY <1>0, <2>1, BufferAssumption DEF Mask, Slots
    <3>2. str = [k \in 1 .. readable_bytes |->
                   IF k <= head THEN ring[read_index + k - 1] ELSE ring[k - head - 1]]
      BY <1>3 DEF str
    <3>3. held = [k \in 1 .. readable_bytes |-> ring[Mask(read_index + (k - 1))]]
      BY DEF held, Content, readable_bytes
    <3>4. \A k \in 1 .. readable_bytes :
            (IF k <= head THEN ring[read_index + k - 1] ELSE ring[k - head - 1])
              = ring[Mask(read_index + (k - 1))]
      BY <3>1
    <3>5. QED BY <3>2, <3>3, <3>4
  <2>3. strs = <<[k \in 1 .. head |-> ring[read_index + k - 1]],
                 [k \in 1 .. write_index |-> ring[k - 1]]>>
    BY <1>3 DEF strs
  <2>4. [k \in 1 .. head |-> ring[read_index + k - 1]]
          \o [k \in 1 .. write_index |-> ring[k - 1]] = held
    <3>1. PICK n \in Nat : n = readable_bytes
      BY <1>0
    <3>2. n <= readable_bytes /\ head <= n
      BY <3>1, <2>1, <1>0 DEF Slots
    <3>3. [k \in 1 .. head |-> ring[read_index + k - 1]]
            \o [k \in 1 .. n - head |-> ring[k - 1]] = SubSeq(held, 1, n)
      BY <3>2, TwoSpans
    <3>4. QED BY <3>1, <3>3, <2>1, <1>1
  <2>5. Len(strs) = 2 /\ held = strs[1] \o strs[2]
    BY <2>3, <2>4
  <2>6. ASSUME NEW n \in 0 .. readable_bytes
        PROVE  Gather(n) = SubSeq(held, 1, n)
    <3>1. n \in Nat /\ n <= readable_bytes /\ ~ (read_index < write_index)
      BY <1>0, <1>3 DEF Slots
    <3>2. CASE head > n
      <4>1. read_index + n <= Capacity
        BY <3>1, <3>2, <1>0, BufferAssumption DEF Slots
      <4>2. QED BY <3>1, <3>2, <4>1, OneSpan DEF Gather
    <3>3. CASE ~ (head > n)
      <4>1. head <= n
        BY <3>1, <3>3, <1>0
      <4>2. [k \in 1 .. head |-> ring[read_index + k - 1]]
              \o [k \in 1 .. n - head |-> ring[k - 1]] = SubSeq(held, 1, n)
        BY <3>1, <4>1, TwoSpans
      <4>3. ~ (read_index < write_index \/ Capacity - read_index > n)
        BY <3>1, <3>3
      <4>4. QED BY <4>2, <4>3 DEF Gather
    <3>4. QED BY <3>2, <3>3
  <2>7. held = IF Len(strs) = 1 THEN strs[1] ELSE strs[1] \o strs[2]
    BY <2>5
  <2>8. QED BY <2>2, <2>6, <2>7 DEF ViewsAgree
<1>4. QED BY <1>2, <1>3

-----------------------------------------------------------------------------
(* Each operation, as a step of ByteQueue. *)

\* append offers its data to the byte queue.
LEMMA AppendStep ==
  ASSUME TypeOK, NEW data \in Chunks, append(data)
  PROVE  TypeOK' /\ Queue!Offer(data)
<1> DEFINE nw == Smaller(writable_bytes, Len(data))
<1>1. /\ nw \in Nat /\ nw <= Len(data) /\ nw <= writable_bytes
      /\ nw = Queue!Smaller(Len(data), Queue!Room)
      /\ data \in Seq(Bytes)
  BY ChunkType, Counts, ContentSize, BufferAssumption DEF Smaller, Queue!Smaller, Slots
<1>2. PutStep(data, nw) /\ result' = nw /\ Queue!Called("append", data, 0)
  BY DEF append, PutStep, Called, Queue!Called
<1> HIDE DEF nw
<1>3. Shape' /\ held' = held \o SubSeq(data, 1, nw)
  BY <1>1, <1>2, PutContent
<1>4. QED BY <1>1, <1>2, <1>3 DEF Shape, TypeOK, Queue!Offer, Queue!Put

\* append_from_fd receives what readv returns.
LEMMA ReceiveStep ==
  ASSUME TypeOK, NEW data \in Chunks, append_from_fd(data)
  PROVE  TypeOK' /\ Queue!Receive(data)
<1>1. PICK n \in 1 .. Smaller(writable_bytes, Len(data)) :
        PutStep(data, n) /\ result' = n /\ Queue!Called("append_from_fd", data, 0)
  BY DEF append_from_fd, PutStep, Called, Queue!Called
<1>2. /\ n \in Nat /\ n <= Len(data) /\ n <= writable_bytes
      /\ n \in 1 .. Queue!Smaller(Len(data), Queue!Room)
      /\ data \in Seq(Bytes)
  BY ChunkType, Counts, ContentSize, BufferAssumption DEF Smaller, Queue!Smaller, Slots
<1>3. Shape' /\ held' = held \o SubSeq(data, 1, n)
  BY <1>1, <1>2, PutContent
<1>4. QED BY <1>1, <1>2, <1>3 DEF Shape, TypeOK, Queue!Receive, Queue!Put

\* cut removes what there is, up to the size asked for.
LEMMA CutStep ==
  ASSUME TypeOK, NEW size \in Sizes, cut(size)
  PROVE  TypeOK' /\ Queue!Cut(size)
<1> DEFINE nr == Smaller(size, readable_bytes)
<1>1. /\ nr \in Nat /\ nr <= readable_bytes
      /\ nr = Queue!Smaller(size, Len(held))
  BY Counts, ContentSize, BufferAssumption DEF Smaller, Queue!Smaller, Slots, Sizes
<1>2. DropStep(nr) /\ result' = nr /\ Queue!Called("cut", << >>, size)
  BY DEF cut, DropStep, Called, Queue!Called
<1> HIDE DEF nr
<1>3. Shape' /\ held' = SubSeq(held, nr + 1, Len(held))
  BY <1>1, <1>2, DropContent
<1>4. QED BY <1>1, <1>2, <1>3 DEF Shape, TypeOK, Queue!Cut, Queue!Drop

\* cut_into_fd removes what writev took.
LEMMA TransmitStep ==
  ASSUME TypeOK, NEW size \in Sizes, cut_into_fd(size)
  PROVE  TypeOK' /\ Queue!Transmit(size)
<1> DEFINE nr == IF size # 0 THEN Smaller(size, readable_bytes) ELSE readable_bytes
<1>1. PICK n \in 0 .. nr :
        DropStep(n) /\ result' = n /\ Queue!Called("cut_into_fd", << >>, size)
  BY DEF cut_into_fd, DropStep, Called, Queue!Called
<1>2. /\ n \in Nat /\ n <= readable_bytes /\ n \in 0 .. Len(held)
      /\ size = 0 \/ n <= size
  BY Counts, ContentSize, BufferAssumption DEF Smaller, Slots, Sizes
<1>3. Shape' /\ held' = SubSeq(held, n + 1, Len(held))
  BY <1>1, <1>2, DropContent
<1>4. QED BY <1>1, <1>2, <1>3 DEF Shape, TypeOK, Queue!Transmit, Queue!Drop

\* append_from_ssl receives what the session gives.
LEMMA ReceiveSslStep ==
  ASSUME TypeOK, NEW data \in Chunks, append_from_ssl(data)
  PROVE  TypeOK' /\ Queue!ReceiveSsl(data)
<1>1. PICK n \in 1 .. Smaller(writable_bytes, Len(data)) :
        PutStep(data, n) /\ result' = n /\ Queue!Called("append_from_ssl", data, 0)
  BY DEF append_from_ssl, PutStep, Called, Queue!Called
<1>2. /\ n \in Nat /\ n <= Len(data) /\ n <= writable_bytes
      /\ n \in 1 .. Queue!Smaller(Len(data), Queue!Room)
      /\ data \in Seq(Bytes)
  BY ChunkType, Counts, ContentSize, BufferAssumption DEF Smaller, Queue!Smaller, Slots
<1>3. Shape' /\ held' = held \o SubSeq(data, 1, n)
  BY <1>1, <1>2, PutContent
<1>4. QED BY <1>1, <1>2, <1>3 DEF Shape, TypeOK, Queue!ReceiveSsl, Queue!Put

\* What lies in the ring outside of the content may be overwritten.
LEMMA OutsideContent ==
  ASSUME TypeOK, NEW data \in Seq(Bytes), read_index <= write_index,
         Capacity - write_index <= Len(data),
         ring' = MemMove(ring, write_index, data, 0, Capacity - write_index),
         UNCHANGED <<read_index, write_index>>
  PROVE  Shape' /\ held' = held
<1>0. /\ read_index \in Slots /\ write_index \in Slots /\ ring \in [Slots -> Bytes]
      /\ \A k \in 1 .. Len(data) : data[k] \in Bytes
  BY DEF TypeOK
<1>1. /\ ring' = [i \in Slots |-> ring'[i]]
      /\ \A i \in Slots : ring'[i] = IF write_index <= i THEN data[(i - write_index) + 1]
                                     ELSE ring[i]
  BY <1>0, BufferAssumption DEF MemMove, Slots
<1>2. \A i \in Slots : ring'[i] \in Bytes
  <2>1. SUFFICES ASSUME NEW i \in Slots, write_index <= i
                 PROVE  data[(i - write_index) + 1] \in Bytes
    BY <1>0, <1>1
  <2>2. (i - write_index) + 1 \in 1 .. Len(data)
    BY <2>1, <1>0, BufferAssumption DEF Slots
  <2>3. QED BY <2>2, <1>0
<1>3. Shape'
  BY <1>0, <1>1, <1>2 DEF Shape
<1>4. /\ readable_bytes \in Nat
      /\ \A k \in 1 .. readable_bytes :
           Mask(read_index + (k - 1)) \in Slots /\ Mask(read_index + (k - 1)) < write_index
  BY <1>0, BufferAssumption DEF readable_bytes, Mask, Slots
<1>5. \A k \in 1 .. readable_bytes :
        ring'[Mask(read_index + (k - 1))] = ring[Mask(read_index + (k - 1))]
  <2>1. SUFFICES ASSUME NEW i \in Slots, i < write_index PROVE ring'[i] = ring[i]
    BY <1>4
  <2>2. ~ (write_index <= i)
    BY <2>1, <1>0, BufferAssumption DEF Slots
  <2>3. QED BY <2>2, <1>1
<1>6. held = [k \in 1 .. readable_bytes |-> ring[Mask(read_index + (k - 1))]]
  BY DEF held, Content, readable_bytes
<1>7. held' = [k \in 1 .. readable_bytes |-> ring'[Mask(read_index + (k - 1))]]
  BY DEF held, Content, readable_bytes
<1>8. QED BY <1>3, <1>5, <1>6, <1>7

\* A second SSL_read that fails loses what the first one read, and nothing else.
LEMMA LoseStep ==
  ASSUME TypeOK, NEW data \in Chunks, append_from_ssl_loses(data)
  PROVE  TypeOK' /\ Queue!ReceiveSsl(data)
<1>1. data \in Seq(Bytes)
  BY ChunkType
<1>2. Shape' /\ held' = held
  BY <1>1, OutsideContent DEF append_from_ssl_loses
<1>3. result' = -1 /\ Queue!Called("append_from_ssl", data, 0)
  BY DEF append_from_ssl_loses, Called, Queue!Called
<1>4. QED BY <1>2, <1>3 DEF Shape, TypeOK, Queue!ReceiveSsl

\* What cut_into_ssl is to send is part of the content.
LEMMA AskedBytes ==
  ASSUME TypeOK, NEW size \in Sizes
  PROVE  /\ Asked(size) \in Nat /\ Asked(size) <= readable_bytes
         /\ Asked(size) = (IF size = 0 THEN Len(held)
                           ELSE Queue!Smaller(size, Len(held)))
BY Counts, ContentSize, BufferAssumption DEF Asked, Smaller, Queue!Smaller, Slots, Sizes

\* What SSL_write took left the queue, or stays in it.
SslEnd(n) ==
  \/ UNCHANGED <<read_index, write_index, ring>>
  \/ DropStep(n)

\* The effect of cut_into_ssl on the content, whatever SSL_write returned.
LEMMA SslContent ==
  ASSUME TypeOK, NEW n \in Nat, n <= readable_bytes, SslEnd(n), result' \in Int
  PROVE  /\ TypeOK'
         /\ UNCHANGED <<read_index, write_index, ring>> => held' = held
         /\ DropStep(n) => held' = SubSeq(held, n + 1, Len(held))
<1>1. CASE UNCHANGED <<read_index, write_index, ring>>
  <2>1. TypeOK' /\ held' = held
    BY <1>1 DEF TypeOK, held, Content, Mask
  <2>2. DropStep(n) => held' = SubSeq(held, n + 1, Len(held))
    BY DropContent
  <2>3. QED BY <2>1, <2>2
<1>2. CASE DropStep(n)
  <2>1. Shape' /\ held' = SubSeq(held, n + 1, Len(held))
    BY <1>2, DropContent
  <2>2. UNCHANGED <<read_index, write_index, ring>> => held' = held
    BY DEF held, Content, Mask
  <2>3. QED BY <2>1, <2>2 DEF Shape, TypeOK
<1>3. QED BY <1>1, <1>2 DEF SslEnd

\* SSL_write took everything.
LEMMA TransmitSslStep ==
  ASSUME TypeOK, NEW size \in Sizes, cut_into_ssl(size)
  PROVE  TypeOK' /\ Queue!TransmitSsl(size)
<1> DEFINE n == Asked(size)
<1>1. /\ n \in Nat /\ n <= readable_bytes /\ Len(held) \in Nat
      /\ n = (IF size = 0 THEN Len(held) ELSE Queue!Smaller(size, Len(held)))
  BY AskedBytes, ContentSize
<1>2. Gather(n) = SubSeq(held, 1, n)
  BY <1>1, ViewsOfContent, Counts DEF ViewsAgree, Slots
<1>3. /\ DropStep(n) /\ result' = n
      /\ Queue!Called("cut_into_ssl", SubSeq(held, 1, n), size)
  BY <1>2 DEF cut_into_ssl, DropStep, Called, Queue!Called
<1> HIDE DEF n
<1>4. TypeOK' /\ held' = SubSeq(held, n + 1, Len(held))
  BY <1>1, <1>3, SslContent DEF SslEnd
<1>5. n \in 0 .. n
  BY <1>1
<1>6. QED BY <1>1, <1>3, <1>4, <1>5 DEF Queue!TransmitSsl

\* SSL_write took nothing.
LEMMA TransmitSslFails ==
  ASSUME TypeOK, NEW size \in Sizes, cut_into_ssl_fails(size)
  PROVE  TypeOK' /\ Queue!TransmitSsl(size)
<1> DEFINE n == Asked(size)
<1>1. /\ n \in Nat /\ n <= readable_bytes /\ Len(held) \in Nat
      /\ n = (IF size = 0 THEN Len(held) ELSE Queue!Smaller(size, Len(held)))
      /\ held \in Seq(Bytes)
  BY AskedBytes, ContentSize
<1>2. SubSeq(held, 1, 0) = << >>
  BY <1>1
<1>3. Queue!Called("cut_into_ssl", SubSeq(held, 1, 0), size)
  BY <1>2 DEF cut_into_ssl_fails, Called, Queue!Called
<1>4. \/ UNCHANGED <<read_index, write_index, ring>> /\ result' \in {-1, 0}
      \/ DropStep(n) /\ result' = 0
  BY DEF cut_into_ssl_fails, DropStep
<1> HIDE DEF n
<1>5. /\ TypeOK'
      /\ \/ held' = held /\ result' \in {-1, 0}
         \/ held' = SubSeq(held, n + 1, Len(held)) /\ result' = 0
  BY <1>1, <1>4, SslContent DEF SslEnd
<1>6. 0 \in 0 .. n
  BY <1>1
<1>7. QED BY <1>1, <1>3, <1>5, <1>6 DEF Queue!TransmitSsl

\* SSL_write took the first part only.
LEMMA TransmitSslStops ==
  ASSUME TypeOK, NEW size \in Sizes, cut_into_ssl_stops(size)
  PROVE  TypeOK' /\ Queue!TransmitSsl(size)
<1> DEFINE n == Asked(size)
           m == Capacity - read_index
<1>1. /\ n \in Nat /\ n <= readable_bytes /\ Len(held) \in Nat
      /\ n = (IF size = 0 THEN Len(held) ELSE Queue!Smaller(size, Len(held)))
  BY AskedBytes, ContentSize
<1>2. m \in Nat /\ m # 0 /\ m <= n
  BY <1>1, BufferAssumption DEF cut_into_ssl_stops, TwoParts, TypeOK, Slots
<1>3. Gather(m) = SubSeq(held, 1, m)
  BY <1>1, <1>2, ViewsOfContent, Counts DEF ViewsAgree, Slots
<1>4. /\ Queue!Called("cut_into_ssl", SubSeq(held, 1, m), size)
      /\ \/ UNCHANGED <<read_index, write_index, ring>> /\ result' = -1
         \/ DropStep(n) /\ result' = m
  BY <1>3 DEF cut_into_ssl_stops, DropStep, Called, Queue!Called
<1> HIDE DEF n, m
<1>5. /\ TypeOK'
      /\ \/ held' = held /\ result' = -1
         \/ held' = SubSeq(held, n + 1, Len(held)) /\ result' = m
  BY <1>1, <1>2, <1>4, SslContent DEF SslEnd
<1>6. m \in 0 .. n
  BY <1>1, <1>2
<1>7. QED BY <1>1, <1>2, <1>4, <1>5, <1>6 DEF Queue!TransmitSsl

\* Equal indices mean no content.
LEMMA EmptyContent ==
  ASSUME NEW mem
  PROVE  Content(mem, 0, 0) = << >>
<1>1. Mask(Capacity + 0 - 0) = 0
  BY BufferAssumption DEF Mask
<1>2. Content(mem, 0, 0) = [k \in 1 .. 0 |-> mem[Mask(0 + (k - 1))]]
  BY <1>1 DEF Content
<1>3. QED BY <1>2

\* clear empties the queue.
LEMMA ClearStep ==
  ASSUME TypeOK, clear
  PROVE  TypeOK' /\ Queue!Clear
BY EmptyContent, BufferAssumption
   DEF clear, TypeOK, Slots, held, Queue!Clear, Called, Queue!Called

\* A failed or empty transfer changes nothing.
LEMMA FailStep ==
  ASSUME TypeOK, append_from_fd_nothing \/ append_from_ssl_nothing \/ cut_into_fd_fails
  PROVE  TypeOK' /\ \/ Queue!Fail("append_from_fd") \/ Queue!Fail("append_from_ssl")
                    \/ Queue!Fail("cut_into_fd")
BY DEF append_from_fd_nothing, append_from_ssl_nothing, cut_into_fd_fails, TypeOK, held,
       Content, Queue!Fail, Called, Queue!Called

-----------------------------------------------------------------------------
(* The theorems. *)

\* A new buffer is an empty queue, whatever malloc returned.
LEMMA InitStep == Init => TypeOK /\ Queue!Init
BY EmptyContent, BufferAssumption DEF Init, TypeOK, Slots, held, Queue!Init

\* TypeOK is inductive and every operation is a step of the byte queue.
LEMMA NextStep ==
  ASSUME TypeOK, [Next]_vars
  PROVE  TypeOK' /\ [Queue!Next]_(Queue!vars)
<1>1. CASE UNCHANGED vars
  BY <1>1 DEF vars, TypeOK, held, Content, Mask, Queue!vars
<1>2. ASSUME NEW data \in Chunks, append(data)
      PROVE  TypeOK' /\ Queue!Next
  BY <1>2, AppendStep DEF Queue!Next
<1>3. ASSUME NEW data \in Chunks, append_from_fd(data)
      PROVE  TypeOK' /\ Queue!Next
  BY <1>3, ReceiveStep DEF Queue!Next
<1>4. ASSUME NEW size \in Sizes, cut(size)
      PROVE  TypeOK' /\ Queue!Next
  BY <1>4, CutStep DEF Queue!Next
<1>5. ASSUME NEW size \in Sizes, cut_into_fd(size)
      PROVE  TypeOK' /\ Queue!Next
  BY <1>5, TransmitStep DEF Queue!Next
<1>6. CASE clear
  BY <1>6, ClearStep DEF Queue!Next
<1>7. CASE append_from_fd_nothing \/ append_from_ssl_nothing \/ cut_into_fd_fails
  BY <1>7, FailStep DEF Queue!Next
<1>8. ASSUME NEW data \in Chunks, append_from_ssl(data) \/ append_from_ssl_loses(data)
      PROVE  TypeOK' /\ Queue!Next
  BY <1>8, ReceiveSslStep, LoseStep DEF Queue!Next
<1>9. ASSUME NEW size \in Sizes,
             cut_into_ssl(size) \/ cut_into_ssl_fails(size) \/ cut_into_ssl_stops(size)
      PROVE  TypeOK' /\ Queue!Next
  BY <1>9, TransmitSslStep, TransmitSslFails, TransmitSslStops DEF Queue!Next
<1>10. QED BY <1>1, <1>2, <1>3, <1>4, <1>5, <1>6, <1>7, <1>8, <1>9 DEF Next

\* The indices never leave the ring, for every capacity (buffer.h masks every
\* index it stores).
THEOREM TypeCorrect == Spec => []TypeOK
<1>1. TypeOK /\ [Next]_vars => TypeOK'
  BY NextStep
<1>2. QED BY <1>1, InitStep, PTL DEF Spec

\* The ring buffer implements the byte queue, for every capacity and byte
\* alphabet: the wrap-around of buffer.h loses, repeats or reorders no byte, and a
\* failed call on a session harms only the bytes of that call.
THEOREM Refinement == Spec => ImplementsByteQueue
<1>1. TypeOK /\ [Next]_vars => [Queue!Next]_(Queue!vars)
  BY NextStep
<1>2. Init => Queue!Init
  BY InitStep
<1>3. QED BY <1>1, <1>2, TypeCorrect, PTL DEF Spec, ImplementsByteQueue, Queue!Spec

\* Parser, gateway protocol, iterator and writev see the same bytes, for every
\* capacity and every position of the indices (str, strs, cut_into_fd).
THEOREM Views == Spec => []ViewsAgree
BY TypeCorrect, ViewsOfContent, PTL

-----------------------------------------------------------------------------
(* The least and the greatest element of a set. *)

\* A set of numbers that is not empty has a least one: the smallest of the intervals that
\* end in it.
LEMMA Least ==
  ASSUME NEW Q \in SUBSET Nat, Q # {}
  PROVE  \E x \in Q : \A y \in Q : x <= y
<1> DEFINE D == {0 .. k : k \in Q}
<1>1. \A k \in Nat : 0 .. k \in SUBSET Nat /\ IsFiniteSet(0 .. k)
  <2>1. \A k \in Nat : 0 \in Int /\ k \in Int /\ 0 .. k \in SUBSET Nat OBVIOUS
  <2>2. QED BY <2>1, FS_Interval
<1>2. D \subseteq FiniteSubsetsOf(Nat) BY <1>1 DEF FiniteSubsetsOf
<1>3. D # {} OBVIOUS
<1> HIDE DEF D
<1>4. PICK d \in D : \A e \in D : <<e, d>> \notin StrictSubsetOrdering(Nat)
  <2>1. IsWellFoundedOn(StrictSubsetOrdering(Nat), FiniteSubsetsOf(Nat))
    BY FS_StrictSubsetOrderingWellFounded
  <2>2. QED BY <2>1, <1>2, <1>3, WFMin
<1> USE DEF D
<1>5. PICK x \in Q : d = 0 .. x OBVIOUS
<1>6. ASSUME NEW y \in Q, y < x PROVE FALSE
  <2>1. 0 .. y \subseteq 0 .. x /\ x \notin 0 .. y /\ x \in 0 .. x BY <1>6
  <2>2. <<0 .. y, d>> \in StrictSubsetOrdering(Nat)
    BY <2>1, <1>1, <1>5 DEF StrictSubsetOrdering
  <2>3. QED BY <2>2, <1>4
<1>7. QED BY <1>6

\* A set of numbers between 1 and n that is not empty has a greatest one.
LEMMA Greatest ==
  ASSUME NEW n \in Nat, NEW Q \in SUBSET (1 .. n), Q # {}
  PROVE  \E x \in Q : \A y \in Q : y <= x
<1> DEFINE M == {n - q : q \in Q}
<1>1. M \in SUBSET Nat /\ M # {}
  <2>1. \A q \in Q : q \in Int /\ q <= n OBVIOUS
  <2>2. \A q \in Q : n - q \in Nat BY <2>1
  <2>3. QED BY <2>2
<1> HIDE DEF M
<1>2. PICK m \in M : \A k \in M : m <= k BY <1>1, Least
<1> USE DEF M
<1>3. PICK x \in Q : m = n - x OBVIOUS
<1>4. ASSUME NEW y \in Q PROVE y <= x
  <2>1. n - y \in M OBVIOUS
  <2>2. n - x <= n - y BY <2>1, <1>2, <1>3
  <2>3. QED BY <2>2
<1>5. QED BY <1>4

-----------------------------------------------------------------------------
(* Strings that arrive in parts. *)

\* The part of a string that has arrived, with what comes next.
LEMMA Grown ==
  ASSUME NEW S, NEW s \in Seq(S), NEW k \in 0 .. Len(s), NEW n \in 0 .. Len(s) - k
  PROVE  /\ SubSeq(s, 1, k) \o SubSeq(s, k + 1, k + n) = SubSeq(s, 1, k + n)
         /\ SubSeq(s, 1, k) \in Seq(S) /\ Len(SubSeq(s, 1, k)) = k
         /\ SubSeq(s, k + 1, k + n) \in Seq(S) /\ Len(SubSeq(s, k + 1, k + n)) = n
<1> DEFINE a == SubSeq(s, 1, k)
           b == SubSeq(s, k + 1, k + n)
           w == SubSeq(s, 1, k + n)
<1>1. Len(s) \in Nat /\ k \in Nat /\ n \in Nat /\ k + n <= Len(s) OBVIOUS
<1>2. a \in Seq(S) /\ Len(a) = k /\ \A i \in 1 .. k : a[i] = s[i]
  BY <1>1, SubSeqProperties
<1>3. b \in Seq(S) /\ Len(b) = n /\ \A i \in 1 .. n : b[i] = s[k + i]
  BY <1>1, SubSeqProperties
<1>4. w \in Seq(S) /\ Len(w) = k + n /\ \A i \in 1 .. k + n : w[i] = s[i]
  BY <1>1, SubSeqProperties
<1> HIDE DEF a, b, w
<1>5. a \o b \in Seq(S) /\ Len(a \o b) = k + n
      /\ \A i \in 1 .. k + n : (a \o b)[i] = IF i <= k THEN a[i] ELSE b[i - k]
  <2>1. /\ a \o b \in Seq(S) /\ Len(a \o b) = Len(a) + Len(b)
        /\ \A i \in 1 .. Len(a) + Len(b) : (a \o b)[i] = IF i <= Len(a) THEN a[i] ELSE b[i - Len(a)]
    BY <1>2, <1>3, ConcatProperties
  <2>2. QED BY <2>1, <1>2, <1>3
<1>6. \A i \in 1 .. k + n : (a \o b)[i] = w[i]
  <2> TAKE i \in 1 .. k + n
  <2>0. i \in Nat BY <1>1
  <2>1. CASE i <= k
    <3>1. i \in 1 .. k BY <2>0, <2>1, <1>1
    <3>2. (a \o b)[i] = a[i] BY <2>1, <1>5
    <3>3. QED BY <3>1, <3>2, <1>2, <1>4
  <2>2. CASE i > k
    <3>1. i - k \in 1 .. n /\ k + (i - k) = i BY <2>2, <1>1
    <3>2. b[i - k] = s[i] BY <3>1, <1>3
    <3>3. QED BY <3>2, <2>2, <1>1, <1>4, <1>5
  <2>3. QED
    <3>1. i <= k \/ i > k BY <2>0, <1>1
    <3>2. QED BY <3>1, <2>1, <2>2
<1>7. a \o b = w BY <1>4, <1>5, <1>6, SeqEqual
<1>8. QED BY <1>2, <1>3, <1>7 DEF a, b, w

\* All of a string.
LEMMA Whole ==
  ASSUME NEW S, NEW s \in Seq(S)
  PROVE  SubSeq(s, 1, Len(s)) = s /\ SubSeq(s, 1, 0) = << >>
<1>1. Len(s) \in Nat OBVIOUS
<1>2. SubSeq(s, 1, Len(s)) \in Seq(S) /\ Len(SubSeq(s, 1, Len(s))) = Len(s)
      /\ \A i \in 1 .. Len(s) : SubSeq(s, 1, Len(s))[i] = s[i]
  BY <1>1, SubSeqProperties
<1>3. SubSeq(s, 1, Len(s)) = s BY <1>2, SeqEqual
<1>4. QED BY <1>3, <1>1

\* Two neighbouring parts of a string, and one character of it.
LEMMA Joined ==
  ASSUME NEW S, NEW s \in Seq(S), NEW k \in Nat, NEW m \in Nat, k <= m, m <= Len(s)
  PROVE  SubSeq(s, 1, k) \o SubSeq(s, k + 1, m) = SubSeq(s, 1, m)
<1>1. k \in 0 .. Len(s) /\ m - k \in 0 .. Len(s) - k /\ k + (m - k) = m OBVIOUS
<1>2. SubSeq(s, 1, k) \o SubSeq(s, k + 1, k + (m - k)) = SubSeq(s, 1, k + (m - k)) BY <1>1, Grown
<1>3. QED BY <1>1, <1>2

LEMMA Single ==
  ASSUME NEW S, NEW s \in Seq(S), NEW k \in 1 .. Len(s)
  PROVE  SubSeq(s, k, k) = <<s[k]>>
<1> DEFINE q == SubSeq(s, k, k)
<1>1. s[k] \in S /\ k \in Int OBVIOUS
<1>2. \A i \in k .. k : s[i] \in S BY <1>1
<1>3. k <= k /\ k - k + 1 = 1 /\ k + 1 - 1 = k BY <1>1
<1>4. q \in Seq(S) /\ Len(q) = 1 /\ \A i \in 1 .. 1 : q[i] = s[k + i - 1]
  BY <1>1, <1>2, <1>3, SubSeqProperties
<1>5. q[1] = s[k] BY <1>3, <1>4
<1> HIDE DEF q
<1>6. <<s[k]>> \in Seq(S) /\ Len(<<s[k]>>) = 1 /\ <<s[k]>>[1] = s[k] BY <1>1
<1>7. \A i \in 1 .. 1 : q[i] = <<s[k]>>[i] BY <1>5, <1>6
<1>8. q = <<s[k]>> BY <1>4, <1>6, <1>7, SeqEqual
<1>9. QED BY <1>8 DEF q

\* A name in lower case.
LEMMA LoweredName ==
  ASSUME NEW s \in Seq(Chars)
  PROVE  /\ Lowered(s) \in Seq(Chars) /\ Len(Lowered(s)) = Len(s)
         /\ \A i \in 1 .. Len(s) : Lowered(s)[i] = tolower(s[i])
         /\ Lowered(Lowered(s)) = Lowered(s)
<1> DEFINE l(t) == [i \in 1 .. Len(t) |-> tolower(t[i])]
<1>1. \A ch \in Chars : tolower(ch) \in Chars /\ tolower(tolower(ch)) = tolower(ch)
  BY HttpAssumption DEF HttpAssumption
<1>2. \A t \in Seq(Chars) : Lowered(t) = l(t)
  <2>1. \A t \in Seq(Chars) : DOMAIN t = 1 .. Len(t) OBVIOUS
  <2>2. QED BY <2>1 DEF Lowered
<1>3. ASSUME NEW t \in Seq(Chars)
      PROVE  /\ l(t) \in Seq(Chars) /\ Len(l(t)) = Len(t)
             /\ \A i \in 1 .. Len(t) : l(t)[i] = tolower(t[i])
  <2>1. Len(t) \in Nat /\ \A i \in 1 .. Len(t) : t[i] \in Chars OBVIOUS
  <2>2. l(t) \in [1 .. Len(t) -> Chars] BY <1>1, <2>1
  <2>3. l(t) \in Seq(Chars) BY <2>1, <2>2, SeqDef
  <2>4. Len(l(t)) = Len(t) BY <2>1, <2>3, LenProperties
  <2>5. QED BY <2>3, <2>4
<1> HIDE DEF l
<1>4. l(s) \in Seq(Chars) /\ Len(l(s)) = Len(s) /\ \A i \in 1 .. Len(s) : l(s)[i] = tolower(s[i])
  BY <1>3
<1>5. l(l(s)) \in Seq(Chars) /\ Len(l(l(s))) = Len(s)
      /\ \A i \in 1 .. Len(s) : l(l(s))[i] = tolower(l(s)[i])
  BY <1>3, <1>4
<1>6. \A i \in 1 .. Len(s) : l(l(s))[i] = l(s)[i]
  <2> TAKE i \in 1 .. Len(s)
  <2>1. s[i] \in Chars OBVIOUS
  <2>2. QED BY <2>1, <1>1, <1>4, <1>5
<1>7. l(l(s)) = l(s) BY <1>4, <1>5, <1>6, SeqEqual
<1>8. QED BY <1>2, <1>4, <1>7

\* A name that has been put into lower case so far, with what comes next.
LEMMA LoweredGrows ==
  ASSUME NEW s \in Seq(Chars), NEW k \in 0 .. Len(s), NEW n \in 0 .. Len(s) - k
  PROVE  Lowered(Lowered(SubSeq(s, 1, k)) \o SubSeq(s, k + 1, k + n))
           = Lowered(SubSeq(s, 1, k + n))
<1> DEFINE a == SubSeq(s, 1, k)
           b == SubSeq(s, k + 1, k + n)
           l == Lowered(a)
<1>1. a \o b = SubSeq(s, 1, k + n) /\ a \in Seq(Chars) /\ Len(a) = k /\ b \in Seq(Chars) /\ Len(b) = n
  BY Grown
<1>2. k \in Nat /\ n \in Nat OBVIOUS
<1> HIDE DEF a, b
<1>3. l \in Seq(Chars) /\ Len(l) = k /\ (\A i \in 1 .. k : l[i] = tolower(a[i]))
  BY <1>1, LoweredName
<1> HIDE DEF l
<1>4. a \o b \in Seq(Chars) /\ Len(a \o b) = k + n
      /\ \A i \in 1 .. k + n : (a \o b)[i] = IF i <= k THEN a[i] ELSE b[i - k]
  <2>1. /\ a \o b \in Seq(Chars) /\ Len(a \o b) = Len(a) + Len(b)
        /\ \A i \in 1 .. Len(a) + Len(b) : (a \o b)[i] = IF i <= Len(a) THEN a[i] ELSE b[i - Len(a)]
    BY <1>1, ConcatProperties
  <2>2. QED BY <2>1, <1>1
<1>5. l \o b \in Seq(Chars) /\ Len(l \o b) = k + n
      /\ \A i \in 1 .. k + n : (l \o b)[i] = IF i <= k THEN l[i] ELSE b[i - k]
  <2>1. /\ l \o b \in Seq(Chars) /\ Len(l \o b) = Len(l) + Len(b)
        /\ \A i \in 1 .. Len(l) + Len(b) : (l \o b)[i] = IF i <= Len(l) THEN l[i] ELSE b[i - Len(l)]
    BY <1>1, <1>3, ConcatProperties
  <2>2. QED BY <2>1, <1>1, <1>3
<1>6. Lowered(a \o b) \in Seq(Chars) /\ Len(Lowered(a \o b)) = k + n
      /\ \A i \in 1 .. k + n : Lowered(a \o b)[i] = tolower((a \o b)[i])
  BY <1>4, LoweredName
<1>7. Lowered(l \o b) \in Seq(Chars) /\ Len(Lowered(l \o b)) = k + n
      /\ \A i \in 1 .. k + n : Lowered(l \o b)[i] = tolower((l \o b)[i])
  BY <1>5, LoweredName
<1> DEFINE p == Lowered(a \o b)
           q == Lowered(l \o b)
<1>8. \A i \in 1 .. k + n : tolower((l \o b)[i]) = tolower((a \o b)[i])
  <2> TAKE i \in 1 .. k + n
  <2>0. i \in Nat OBVIOUS
  <2>1. CASE i <= k
    <3>1. i \in 1 .. k BY <2>0, <2>1, <1>2
    <3>2. a[i] \in Chars BY <3>1, <1>1
    <3>3. tolower(tolower(a[i])) = tolower(a[i]) BY <3>2, HttpAssumption DEF HttpAssumption
    <3>4. (l \o b)[i] = tolower(a[i]) /\ (a \o b)[i] = a[i] BY <2>1, <3>1, <1>3, <1>4, <1>5
    <3>5. QED BY <3>3, <3>4
  <2>2. CASE i > k
    <3>1. ~ i <= k BY <2>0, <2>2, <1>2
    <3>2. (a \o b)[i] = b[i - k] BY <3>1, <1>4
    <3>3. (l \o b)[i] = b[i - k] BY <3>1, <1>5
    <3>4. QED BY <3>2, <3>3
  <2>3. QED
    <3>1. i <= k \/ i > k BY <2>0, <1>2
    <3>2. QED BY <3>1, <2>1, <2>2
<1>9. p \in Seq(Chars) /\ q \in Seq(Chars) /\ Len(p) = k + n /\ Len(q) = k + n
      /\ \A i \in 1 .. k + n : q[i] = p[i]
  BY <1>6, <1>7, <1>8
<1> HIDE DEF p, q
<1>10. q = p BY <1>9, SeqEqual
<1>11. QED BY <1>1, <1>10 DEF p, q, l, a, b

-----------------------------------------------------------------------------
(* Service and method in a url. *)

\* A path is what is in front of the first question mark.
LEMMA PathEnds ==
  ASSUME NEW u \in Seq(Chars)
  PROVE  \E e \in 0 .. Len(u) : /\ Path(u) = SubSeq(u, 1, e)
                                /\ \A i \in 1 .. e : u[i] # "?"
                                /\ e < Len(u) => u[e + 1] = "?"
<1> DEFINE queries == {i \in DOMAIN u : u[i] = "?"}
           first == CHOOSE i \in queries : \A j \in queries : i <= j
<1>1. Len(u) \in Nat /\ DOMAIN u = 1 .. Len(u) BY LenProperties
<1>2. CASE queries = {}
  <2>1. Path(u) = u BY <1>2 DEF Path
  <2>2. \A i \in 1 .. Len(u) : u[i] # "?" BY <1>1, <1>2
  <2>3. Len(u) \in 0 .. Len(u) /\ ~ (Len(u) < Len(u)) BY <1>1
  <2>4. SubSeq(u, 1, Len(u)) = u BY Whole
  <2>5. QED BY <2>1, <2>2, <2>3, <2>4
<1>3. CASE queries # {}
  <2>1. queries \in SUBSET Nat BY <1>1
  <2>2. \E i \in queries : \A j \in queries : i <= j BY <2>1, <1>3, Least
  <2>3. first \in queries /\ \A j \in queries : first <= j BY <2>2
  <2>4. Path(u) = SubSeq(u, 1, first - 1) BY <1>3 DEF Path
  <2> HIDE DEF first
  <2>5. first \in 1 .. Len(u) /\ u[first] = "?" BY <2>3, <1>1
  <2>6. first - 1 \in 0 .. Len(u) /\ first - 1 + 1 = first BY <2>5, <1>1
  <2>7. ASSUME NEW i \in 1 .. first - 1 PROVE u[i] # "?"
    <3>1. i \in DOMAIN u /\ ~ (first <= i) BY <2>5, <1>1
    <3>2. QED BY <3>1, <2>3
  <2>8. QED BY <2>4, <2>5, <2>6, <2>7
<1>4. QED BY <1>2, <1>3

\* The path p of what has arrived of a url r, its first k characters.
LEMMA PathOfPart ==
  ASSUME NEW r \in Seq(Chars), NEW k \in 0 .. Len(r), NEW p, p = Path(SubSeq(r, 1, k))
  PROVE  /\ p \in Seq(Chars) /\ Len(p) \in 0 .. k
         /\ \A i \in 1 .. Len(p) : p[i] = r[i] /\ r[i] # "?"
         /\ Len(p) < k => r[Len(p) + 1] = "?"
<1>0. PICK u : u = SubSeq(r, 1, k) /\ p = Path(u) OBVIOUS
<1>1. Len(r) \in Nat /\ k \in Nat /\ k <= Len(r) OBVIOUS
<1>2. u \in Seq(Chars) /\ Len(u) = k /\ \A i \in 1 .. k : u[i] = r[i]
  BY <1>0, <1>1, SubSeqProperties
<1>4. PICK e \in 0 .. Len(u) : /\ p = SubSeq(u, 1, e)
                               /\ \A i \in 1 .. e : u[i] # "?"
                               /\ e < Len(u) => u[e + 1] = "?"
  BY <1>0, <1>2, PathEnds
<1>5. e \in Nat /\ e <= k BY <1>1, <1>2
<1>6. p \in Seq(Chars) /\ Len(p) = e /\ \A i \in 1 .. e : p[i] = u[i]
  BY <1>1, <1>2, <1>4, <1>5, SubSeqProperties
<1>7. \A i \in 1 .. e : p[i] = r[i] /\ r[i] # "?"
  <2> TAKE i \in 1 .. e
  <2>1. i \in 1 .. k BY <1>1, <1>5
  <2>2. QED BY <2>1, <1>2, <1>4, <1>6
<1>8. e < k => r[e + 1] = "?"
  <2>1. e < k => e + 1 \in 1 .. k BY <1>1, <1>5
  <2>2. QED BY <2>1, <1>2, <1>4
<1>9. QED BY <1>1, <1>5, <1>6, <1>7, <1>8

\* path.rfind('/') in a path that begins with a slash.
LEMMA LastSlashIs ==
  ASSUME NEW p \in Seq(Chars), p # << >>, p[1] = "/"
  PROVE  /\ LastSlash(p) \in 1 .. Len(p) /\ p[LastSlash(p)] = "/"
         /\ \A j \in 1 .. Len(p) : p[j] = "/" => j <= LastSlash(p)
<1> DEFINE Q == {i \in DOMAIN p : p[i] = "/"}
<1>1. Len(p) \in Nat /\ DOMAIN p = 1 .. Len(p) BY LenProperties
<1>2. 1 \in DOMAIN p
  <2>1. Len(p) # 0 OBVIOUS
  <2>2. QED BY <2>1, <1>1
<1>3. Q \in SUBSET (1 .. Len(p)) /\ Q # {} BY <1>1, <1>2
<1> HIDE DEF Q
<1>4. \E x \in Q : \A y \in Q : y <= x BY <1>1, <1>3, Greatest
<1>5. \E i \in DOMAIN p : p[i] = "/" /\ \A j \in DOMAIN p : p[j] = "/" => j <= i BY <1>4 DEF Q
<1>6. QED BY <1>1, <1>5 DEF LastSlash

\* What on_url makes of a path p: service and method are its two ends.
Ends(p, service, method) ==
  Last(p) # "/" =>
    /\ "/" \notin Range(method)
    /\ \/ p = <<"/">> \o service \o <<"/">> \o method
       \/ service = << >> /\ p = <<"/">> \o method

\* A path with a slash that is not its first character.
Deep(p) == \E i \in 2 .. Len(p) : p[i] = "/"

\* The names that on_url takes from a path, where those from an earlier part of it are old
\* and olds.
Takes(p, olds, old, service, method) ==
  /\ method = IF LastSlash(p) < Len(p) THEN SubSeq(p, LastSlash(p) + 1, Len(p)) ELSE old
  /\ service = IF LastSlash(p) > 1 THEN SubSeq(p, 2, LastSlash(p) - 1) ELSE olds

LEMMA TakenApart ==
  ASSUME NEW p \in Seq(Chars), p # << >>, p[1] = "/", NEW olds, NEW old, NEW service, NEW method,
         olds # << >> => Deep(p), Takes(p, olds, old, service, method)
  PROVE  Ends(p, service, method) /\ (service # << >> => Deep(p))
<1> DEFINE l == LastSlash(p)
           n == Len(p)
<1>1. l \in 1 .. n /\ p[l] = "/" /\ \A j \in 1 .. n : p[j] = "/" => j <= l BY LastSlashIs
<1>2. n \in Nat /\ DOMAIN p = 1 .. n BY LenProperties
<1>3. method = (IF l < n THEN SubSeq(p, l + 1, n) ELSE old) /\ service = IF l > 1 THEN SubSeq(p, 2, l - 1) ELSE olds
  BY DEF Takes
<1> HIDE DEF l, n
<1>4. l > 1 <=> Deep(p)
  <2>1. l > 1 => Deep(p)
    <3> HAVE l > 1
    <3>1. l \in 2 .. n BY <1>1, <1>2
    <3>2. QED BY <3>1, <1>1 DEF Deep, n
  <2>2. ASSUME NEW i \in 2 .. n, p[i] = "/" PROVE l > 1
    <3>1. i \in 1 .. n BY <1>2
    <3>2. i <= l BY <3>1, <2>2, <1>1
    <3>3. QED BY <3>2, <1>1, <1>2
  <2>3. QED BY <2>1, <2>2 DEF Deep, n
<1>5. service # << >> => Deep(p) BY <1>3, <1>4
<1>6. ASSUME Last(p) # "/" PROVE Ends(p, service, method)
  <2>1. l < n
    <3>1. p[n] # "/" BY <1>6 DEF Last, n
    <3>2. l # n BY <3>1, <1>1
    <3>3. QED BY <3>2, <1>1, <1>2
  <2>2. method = SubSeq(p, l + 1, n) BY <2>1, <1>3
  <2>3. "/" \notin Range(method)
    <3>1. \A i \in l + 1 .. n : i \in 1 .. n BY <1>1, <1>2
    <3>2. \A i \in l + 1 .. n : p[i] \in Chars BY <3>1 DEF n
    <3>3. method \in Seq(Chars) /\ Len(method) = n - l /\ \A i \in 1 .. n - l : method[i] = p[l + i]
      <4> DEFINE m == l + 1
      <4>1. m \in Int /\ n \in Int /\ m <= n /\ n - m + 1 = n - l BY <1>1, <1>2, <2>1
      <4>2. (\A i \in m .. n : p[i] \in Chars) /\ method = SubSeq(p, m, n) BY <3>2, <2>2
      <4>3. \A i \in 1 .. n - l : m + i - 1 = l + i BY <1>1, <1>2
      <4> HIDE DEF m
      <4>4. /\ SubSeq(p, m, n) \in Seq(Chars) /\ Len(SubSeq(p, m, n)) = n - m + 1
            /\ \A i \in 1 .. n - m + 1 : SubSeq(p, m, n)[i] = p[m + i - 1]
        BY <4>1, <4>2, SubSeqProperties
      <4>5. QED BY <4>1, <4>2, <4>3, <4>4
    <3>4. DOMAIN method = 1 .. n - l BY <3>3, LenProperties
    <3>5. ASSUME NEW i \in 1 .. n - l PROVE method[i] # "/"
      <4>1. l + i \in 1 .. n /\ ~ (l + i <= l) BY <1>1, <1>2
      <4>2. QED BY <4>1, <3>3, <1>1
    <3>6. QED BY <3>4, <3>5 DEF Range
  <2>4. SubSeq(p, 1, 1) = <<"/">> /\ SubSeq(p, l, l) = <<"/">> /\ SubSeq(p, 1, n) = p
    <3>1. 1 \in 1 .. n BY <1>1, <1>2
    <3>2. SubSeq(p, 1, 1) = <<p[1]>> /\ SubSeq(p, l, l) = <<p[l]>> BY <3>1, <1>1, Single DEF n
    <3>3. QED BY <3>2, <1>1, Whole DEF n
  <2>5. CASE l > 1
    <3>1. service = SubSeq(p, 2, l - 1) BY <2>5, <1>3
    <3>2. /\ 1 \in Nat /\ l \in Nat /\ l - 1 \in Nat /\ n \in Nat
          /\ 1 <= l - 1 /\ l - 1 <= l /\ l <= n /\ l - 1 <= n /\ n <= n /\ l - 1 + 1 = l /\ 1 + 1 = 2
      BY <2>5, <1>1, <1>2
    <3>3. SubSeq(p, 1, 1) \o SubSeq(p, 1 + 1, l - 1) = SubSeq(p, 1, l - 1) BY <3>2, Joined DEF n
    <3>4. SubSeq(p, 1, l - 1) \o SubSeq(p, l - 1 + 1, l) = SubSeq(p, 1, l) BY <3>2, Joined DEF n
    <3>5. SubSeq(p, 1, l) \o SubSeq(p, l + 1, n) = SubSeq(p, 1, n) BY <3>2, Joined DEF n
    <3>6. p = <<"/">> \o service \o <<"/">> \o method
      BY <3>1, <3>2, <3>3, <3>4, <3>5, <2>2, <2>4
    <3>7. QED BY <3>6, <2>3 DEF Ends
  <2>6. CASE ~ (l > 1)
    <3>1. service = << >> BY <2>6, <1>3, <1>4
    <3>2. l = 1 BY <2>6, <1>1, <1>2
    <3>3. 1 \in Nat /\ n \in Nat /\ 1 <= n /\ n <= n /\ 1 + 1 = 2 BY <1>1, <1>2
    <3>4. SubSeq(p, 1, 1) \o SubSeq(p, 1 + 1, n) = SubSeq(p, 1, n) BY <3>3, Joined DEF n
    <3>5. method = SubSeq(p, 1 + 1, n) BY <3>2, <2>2
    <3>6. p = <<"/">> \o method BY <3>4, <3>5, <2>4
    <3>7. QED BY <3>1, <3>6, <2>3 DEF Ends
  <2>8. QED BY <2>5, <2>6
<1>7. QED BY <1>5, <1>6 DEF Ends

-----------------------------------------------------------------------------
(* What a message holds while its request is on its way. *)

Count    == Len(request.headers)
Name(i)  == request.headers[i].name
Value(i) == request.headers[i].value
Named(i) == Lowered(Name(i))

\* How far the parser is.
Placed ==
  /\ request \in Requests
  /\ place \in {"begin", "url", "field", "value", "blank", "body", "end", "taken"}
  /\ header \in 0 .. Count /\ offset \in Nat
  /\ place \in {"begin", "url"} => header = 0
  /\ place \in {"field", "value"} => header # 0
  /\ place \in {"blank", "body", "end", "taken"} => header = Count
  /\ place = "body" => request.body # << >>
  /\ offset # 0 => place \in {"url", "field", "value", "body"} /\ offset < Len(Token)
  /\ stage = "message_complete" => place = "taken"

\* The url so far. A service comes from a slash that stays in the url.
Located ==
  /\ place \in {"begin", "url"} =>
       url = SubSeq(request.url, 1, offset) /\ (service_name # << >> => Deep(Path(url)))
  /\ place \notin {"begin", "url"} =>
       url = request.url /\ Ends(Path(url), service_name, method_name)

\* The name of a header, from its first part until its value has been passed on.
Spelled ==
  /\ place \in {"begin", "url"} => stage # "header_field"
  /\ place = "field" =>
       IF offset = 0 THEN stage # "header_field"
       ELSE stage = "header_field" /\ cur_header = Lowered(SubSeq(Name(header), 1, offset))
  /\ place = "value" =>
       cur_header = Named(header) /\ stage = IF offset = 0 THEN "header_field" ELSE "header_value"

\* The headers of which some of the value has been passed on, and what is in the map for them.
Begun    == IF place = "field" \/ (place = "value" /\ offset = 0) THEN header - 1 ELSE header
Distinct == \A i, j \in 1 .. Count : Named(i) = Named(j) => i = j

Filed ==
  /\ DOMAIN header_map = {Named(i) : i \in 1 .. Begun}
  /\ Distinct => \A i \in 1 .. Begun :
       header_map[Named(i)] = IF place = "value" /\ i = header THEN SubSeq(Value(i), 1, offset) ELSE Value(i)

\* The content.
Filled ==
  /\ place \in {"begin", "url", "field", "value", "blank"} => content = << >>
  /\ place = "body" => content = SubSeq(request.body, 1, offset)
  /\ place \in {"end", "taken"} => content = request.body

\* The response.
Echoed ==
  \A i, j \in DOMAIN response : Lowered(response[i]) = Lowered(response[j]) => i = j

HttpInv == Placed /\ Located /\ Spelled /\ Filed /\ Filled /\ Echoed

-----------------------------------------------------------------------------
(* A request and its tokens. *)

LEMMA RequestIs ==
  ASSUME request \in Requests
  PROVE  /\ request.url \in Seq(Chars) /\ request.url # << >> /\ request.url[1] = "/"
         /\ request.body \in Seq(Chars)
         /\ Count \in Nat /\ DOMAIN request.headers = 1 .. Count
         /\ \A i \in 1 .. Count : Name(i) \in Seq(Chars) /\ Name(i) # << >> /\ Value(i) \in Seq(Chars)
<1>1. /\ request.url \in Urls /\ request.body \in Bodies
      /\ request.headers \in UNION {[1 .. n -> Headers] : n \in 0 .. MaxHeaders}
  BY DEF Requests
<1>2. PICK n \in 0 .. MaxHeaders : request.headers \in [1 .. n -> Headers] BY <1>1
<1>3. n \in Nat BY HttpAssumption DEF HttpAssumption
<1>4. request.headers \in Seq(Headers) BY <1>2, <1>3, SeqDef
<1>5. Count \in Nat /\ DOMAIN request.headers = 1 .. Count BY <1>4, LenProperties DEF Count
<1>6. \A i \in 1 .. Count : request.headers[i] \in Headers BY <1>4, <1>5, LenProperties DEF Count
<1>7. \A i \in 1 .. Count : Name(i) \in Names /\ Value(i) \in Values BY <1>6 DEF Headers, Name, Value
<1>8. Urls \subseteq Seq(Chars) /\ Names \subseteq Seq(Chars) /\ Values \subseteq Seq(Chars)
      /\ Bodies \subseteq Seq(Chars) /\ << >> \notin Names /\ \A u \in Urls : u # << >> /\ u[1] = "/"
  BY HttpAssumption DEF HttpAssumption
<1>9. QED BY <1>1, <1>5, <1>7, <1>8

\* The token that the parser is in. Only a value may be empty.
LEMMA TokenIs ==
  ASSUME Placed
  PROVE  /\ place = "url" => Token = request.url
         /\ place = "field" => Token = Name(header)
         /\ place = "value" => Token = Value(header)
         /\ place = "body" => Token = request.body
         /\ place \in {"url", "field", "value", "body"} => Token \in Seq(Chars)
         /\ place \in {"url", "field", "body"} => Token # << >>
<1>1. place = "url" => Token = request.url BY DEF Token
<1>2. place = "field" => Token = Name(header) BY DEF Token, Name
<1>3. place = "value" => Token = Value(header) BY DEF Token, Value
<1>4. place = "body" => Token = request.body BY DEF Token
<1>5. Count \in Nat BY RequestIs DEF Placed
<1>6. place \in {"field", "value"} => header \in 1 .. Count BY <1>5 DEF Placed
<1>7. place \in {"field", "value"} => Name(header) \in Seq(Chars) /\ Name(header) # << >> /\ Value(header) \in Seq(Chars)
  BY <1>6, RequestIs DEF Placed
<1>8. request.url \in Seq(Chars) /\ request.url # << >> /\ request.body \in Seq(Chars)
      /\ (place = "body" => request.body # << >>)
  BY RequestIs DEF Placed
<1>9. QED BY <1>1, <1>2, <1>3, <1>4, <1>7, <1>8

InToken == place \in {"url", "field", "value", "body"}

\* The part that is passed on.
LEMMA PartIs ==
  ASSUME Placed, InToken, NEW n \in Lengths
  PROVE  /\ n \in Nat /\ offset \in Nat /\ Len(Token) \in Nat /\ offset + n <= Len(Token)
         /\ SubSeq(Token, 1, offset) \o Part(n) = SubSeq(Token, 1, offset + n)
         /\ Part(n) = SubSeq(Token, offset + 1, offset + n)
         /\ n = 0 => place = "value" /\ Token = << >>
<1>1. Token \in Seq(Chars) /\ (place # "value" => Token # << >>) BY TokenIs DEF InToken
<1>2. Len(Token) \in Nat BY <1>1
<1>3. offset \in Nat /\ offset <= Len(Token) BY <1>2 DEF Placed
<1>4. n \in 0 .. Len(Token) - offset /\ (n = 0 => place = "value" /\ Token = << >>)
  <2>1. CASE Token = << >>
    <3>1. n = 0 BY <2>1 DEF Lengths
    <3>2. place = "value" BY <2>1, <1>1
    <3>3. QED BY <3>1, <3>2, <2>1, <1>2, <1>3
  <2>2. CASE Token # << >>
    <3>1. n \in 1 .. Len(Token) - offset BY <2>2 DEF Lengths
    <3>2. QED BY <3>1, <1>2, <1>3
  <2>3. QED BY <2>1, <2>2
<1>5. offset \in 0 .. Len(Token) BY <1>2, <1>3
<1>6. SubSeq(Token, 1, offset) \o SubSeq(Token, offset + 1, offset + n) = SubSeq(Token, 1, offset + n)
  BY <1>1, <1>4, <1>5, Grown
<1>7. n \in Nat /\ offset + n <= Len(Token) BY <1>2, <1>3, <1>4
<1>8. QED BY <1>2, <1>3, <1>4, <1>6, <1>7 DEF Part

\* The parser goes on in the token, or leaves it at its end.
LEMMA Advanced ==
  ASSUME Placed, InToken, NEW n \in Lengths, NEW next, NEW h,
         Advance(n, next, h)
  PROVE  \/ /\ offset + n < Len(Token) /\ n # 0
            /\ offset' = offset + n /\ place' = place /\ header' = header
         \/ /\ offset + n = Len(Token)
            /\ offset' = 0 /\ place' = next /\ header' = h
<1>1. n \in Nat /\ offset \in Nat /\ Len(Token) \in Nat /\ offset + n <= Len(Token)
      /\ (n = 0 => Token = << >>)
  BY PartIs
<1>2. CASE offset + n < Len(Token)
  <2>1. offset' = offset + n /\ place' = place /\ header' = header BY <1>2 DEF Advance
  <2>2. n # 0 BY <1>1, <1>2
  <2>3. QED BY <1>2, <2>1, <2>2
<1>3. CASE ~ (offset + n < Len(Token))
  <2>1. offset' = 0 /\ place' = next /\ header' = h BY <1>3 DEF Advance
  <2>2. offset + n = Len(Token) BY <1>1, <1>3
  <2>3. QED BY <2>1, <2>2
<1>4. QED BY <1>2, <1>3

\* What is behind a url or a value.
LEMMA NextIs ==
  ASSUME Placed
  PROVE  \/ /\ header < Count /\ NextPlace = "field" /\ NextHeader = header + 1
            /\ header + 1 \in 1 .. Count
         \/ header = Count /\ NextPlace = "blank" /\ NextHeader = header
<1>1. Count \in Nat /\ header \in 0 .. Count BY RequestIs DEF Placed
<1>2. CASE header < Count BY <1>1, <1>2 DEF NextPlace, NextHeader, Count
<1>3. CASE ~ (header < Count) BY <1>1, <1>3 DEF NextPlace, NextHeader, Count
<1>4. QED BY <1>2, <1>3

-----------------------------------------------------------------------------
(* The steps. *)

\* What is behind a token is a place that the parser may be in.
LEMMA PlacedInToken ==
  ASSUME Placed, InToken, NEW n \in Lengths, NEW next, NEW h, Advance(n, next, h),
         request' = request, stage' # "message_complete",
         next \in {"field", "value", "blank", "end"}, h \in 0 .. Count,
         next \in {"field", "value"} => h # 0, next \in {"blank", "end"} => h = Count
  PROVE  Placed'
<1>1. Count' = Count BY DEF Count
<1>2. n \in Nat /\ offset \in Nat BY PartIs
<1>3. CASE /\ offset + n < Len(Token) /\ n # 0
           /\ offset' = offset + n /\ place' = place /\ header' = header
  <2>1. Token' = Token BY <1>3 DEF Token
  <2>2. place' \in {"url", "field", "value", "body"} /\ offset' < Len(Token')
    BY <1>3, <2>1 DEF InToken
  <2>3. offset' \in Nat BY <1>2, <1>3
  <2>4. QED BY <1>1, <1>3, <2>2, <2>3 DEF Placed
<1>4. CASE offset' = 0 /\ place' = next /\ header' = h BY <1>1, <1>4 DEF Placed
<1>5. QED BY <1>3, <1>4, Advanced

LEMMA PlacedStep ==
  ASSUME Placed, [MessageNext]_MessageVars
  PROVE  Placed' /\ request' = request
<1>1. CASE on_message_begin
  <2>1. request' = request /\ Count' = Count BY <1>1 DEF on_message_begin, Count
  <2>2. QED BY <1>1, <2>1 DEF on_message_begin, Placed
<1>2. CASE on_url
  <2>1. PICK n \in Lengths : Advance(n, NextPlace, NextHeader) BY <1>2 DEF on_url
  <2>2. InToken /\ request' = request /\ stage' # "message_complete" BY <1>2 DEF on_url, InToken
  <2>3. Count \in Nat /\ header \in 0 .. Count BY RequestIs DEF Placed
  <2>4. QED BY <2>1, <2>2, <2>3, NextIs, PlacedInToken
<1>3. CASE on_header_field
  <2>1. PICK n \in Lengths : Advance(n, "value", header) BY <1>3 DEF on_header_field
  <2>2. InToken /\ request' = request /\ stage' # "message_complete" /\ header # 0 /\ header \in 0 .. Count
    BY <1>3 DEF on_header_field, InToken, Placed
  <2>3. QED BY <2>1, <2>2, PlacedInToken
<1>4. CASE on_header_value
  <2>1. PICK n \in Lengths : Advance(n, NextPlace, NextHeader)
    BY <1>4 DEF on_header_value
  <2>2. InToken /\ request' = request /\ stage' # "message_complete" BY <1>4 DEF on_header_value, InToken
  <2>3. Count \in Nat /\ header \in 0 .. Count BY RequestIs DEF Placed
  <2>4. QED BY <2>1, <2>2, <2>3, NextIs, PlacedInToken
<1>5. CASE on_headers_complete
  <2>1. request' = request /\ Count' = Count BY <1>5 DEF on_headers_complete, Count
  <2>2. QED BY <1>5, <2>1 DEF on_headers_complete, Placed
<1>6. CASE on_body
  <2>1. PICK n \in Lengths : Advance(n, "end", header) BY <1>6 DEF on_body
  <2>2. InToken /\ request' = request /\ stage' # "message_complete" /\ header \in 0 .. Count /\ header = Count
    BY <1>6 DEF on_body, InToken, Placed
  <2>3. QED BY <2>1, <2>2, PlacedInToken
<1>7. CASE on_message_complete
  <2>1. request' = request /\ Count' = Count BY <1>7 DEF on_message_complete, Count
  <2>2. QED BY <1>7, <2>1 DEF on_message_complete, Placed
<1>8. CASE set_response
  <2>1. UNCHANGED <<request, place, header, offset, stage>>
    BY <1>8 DEF set_response, parser
  <2>2. QED BY <2>1 DEF Placed, Count, Token
<1>9. CASE UNCHANGED MessageVars
  <2>1. UNCHANGED <<request, place, header, offset, stage>>
    BY <1>9 DEF MessageVars, parser
  <2>2. QED BY <2>1 DEF Placed, Count, Token
<1>10. QED BY <1>1, <1>2, <1>3, <1>4, <1>5, <1>6, <1>7, <1>8, <1>9 DEF MessageNext

\* A path p that grows into q. The old names come from p.
LEMMA UrlGrows ==
  ASSUME NEW r \in Seq(Chars), r # << >>, r[1] = "/", NEW k \in 1 .. Len(r), NEW j \in 0 .. k,
         NEW p, p = Path(SubSeq(r, 1, j)), NEW q, q = Path(SubSeq(r, 1, k)),
         NEW olds, NEW old, NEW service, NEW method,
         olds # << >> => Deep(p), Takes(q, olds, old, service, method)
  PROVE  Ends(q, service, method) /\ (service # << >> => Deep(q))
<1>1. Len(r) \in Nat /\ k \in Nat /\ j \in Nat /\ j <= k /\ 1 <= k OBVIOUS
<1>2. j \in 0 .. Len(r) /\ k \in 0 .. Len(r) BY <1>1
<1>3. Len(p) \in 0 .. j /\ \A i \in 1 .. Len(p) : p[i] = r[i] /\ r[i] # "?"
  BY <1>2, PathOfPart
<1>4. /\ q \in Seq(Chars) /\ Len(q) \in 0 .. k
      /\ \A i \in 1 .. Len(q) : q[i] = r[i] /\ r[i] # "?"
      /\ Len(q) < k => r[Len(q) + 1] = "?"
  BY <1>2, PathOfPart
<1>5. Len(p) <= Len(q)
  <2> SUFFICES ASSUME Len(q) < Len(p) PROVE FALSE BY <1>1, <1>3, <1>4
  <2>1. Len(q) + 1 \in 1 .. Len(p) /\ Len(q) < k BY <1>1, <1>3, <1>4
  <2>2. QED BY <2>1, <1>3, <1>4
<1>6. Deep(p) => Deep(q)
  <2> SUFFICES ASSUME NEW i \in 2 .. Len(p), p[i] = "/" PROVE Deep(q) BY DEF Deep
  <2>1. i \in 2 .. Len(q) /\ i \in 1 .. Len(q) /\ i \in 1 .. Len(p) BY <1>3, <1>4, <1>5
  <2>2. q[i] = "/" BY <2>1, <1>3, <1>4
  <2>3. QED BY <2>1, <2>2 DEF Deep
<1>7. q # << >> /\ q[1] = "/"
  <2>1. Len(q) # 0
    <3> SUFFICES ASSUME Len(q) = 0 PROVE FALSE OBVIOUS
    <3>1. Len(q) < k /\ Len(q) + 1 = 1 BY <1>1
    <3>2. QED BY <3>1, <1>4
  <2>2. 1 \in 1 .. Len(q) BY <2>1, <1>4
  <2>3. QED BY <2>1, <2>2, <1>4
<1>8. olds # << >> => Deep(q) BY <1>6
<1>9. QED BY <1>4, <1>7, <1>8, TakenApart

\* A url that has arrived in parts is taken apart as if it had come whole.
LEMMA LocatedStep ==
  ASSUME Placed, Located, [MessageNext]_MessageVars
  PROVE  Located'
<1>0. request' = request BY PlacedStep
<1>1. CASE on_url
  <2>1. place = "url" /\ InToken BY <1>1 DEF on_url, InToken
  <2>2. PICK n \in Lengths :
          /\ url' = url \o Part(n)
          /\ LET p == Path(url')
             IN  /\ method_name' = IF LastSlash(p) < Len(p)
                                   THEN SubSeq(p, LastSlash(p) + 1, Len(p)) ELSE method_name
                 /\ service_name' = IF LastSlash(p) > 1
                                    THEN SubSeq(p, 2, LastSlash(p) - 1) ELSE service_name
          /\ Advance(n, NextPlace, NextHeader)
    BY <1>1 DEF on_url
  <2> DEFINE r == request.url
             k == offset + n
  <2>3. Token = r /\ r \in Seq(Chars) /\ r # << >> /\ r[1] = "/"
    BY <2>1, TokenIs, RequestIs DEF Placed
  <2>4. /\ n \in Nat /\ n # 0 /\ offset \in Nat /\ Len(r) \in Nat /\ k <= Len(r)
        /\ SubSeq(r, 1, offset) \o Part(n) = SubSeq(r, 1, k)
    BY <2>1, <2>3, PartIs
  <2>5. url = SubSeq(r, 1, offset) /\ url' = SubSeq(r, 1, k) BY <2>1, <2>2, <2>4 DEF Located
  <2>6. k \in 1 .. Len(r) /\ offset \in 0 .. k BY <2>4
  <2>7. service_name # << >> => Deep(Path(url)) BY <2>1 DEF Located
  <2> HIDE DEF r, k
  <2>8. /\ Path(url) = Path(SubSeq(r, 1, offset)) /\ Path(url') = Path(SubSeq(r, 1, k))
        /\ Takes(Path(url'), service_name, method_name, service_name', method_name')
    BY <2>2, <2>5 DEF Takes
  <2>9. Ends(Path(url'), service_name', method_name') /\ (service_name' # << >> => Deep(Path(url')))
    BY <2>3, <2>6, <2>7, <2>8, UrlGrows
  <2>10. CASE k < Len(r) /\ offset' = k /\ place' = place
    <3>1. url' = SubSeq(r, 1, offset') BY <2>10, <2>5
    <3>2. QED BY <1>0, <2>1, <2>9, <2>10, <3>1 DEF Located, r
  <2>11. CASE k = Len(r) /\ offset' = 0 /\ place' = NextPlace
    <3>1. url' = r BY <2>11, <2>3, <2>5, Whole
    <3>2. place' \notin {"begin", "url"} BY <2>11, NextIs
    <3>3. QED BY <1>0, <2>9, <3>1, <3>2 DEF Located, r
  <2>12. QED
    <3>1. Advance(n, NextPlace, NextHeader) BY <2>2
    <3>2. \/ k < Len(r) /\ offset' = k /\ place' = place
          \/ k = Len(r) /\ offset' = 0 /\ place' = NextPlace
      BY <3>1, <2>1, <2>3, Advanced DEF k
    <3>3. QED BY <3>2, <2>10, <2>11
<1>2. CASE on_message_begin
  <2>1. place = "begin" /\ place' = "url" /\ offset' = offset /\ UNCHANGED <<url, service_name>>
    BY <1>2 DEF on_message_begin, urls
  <2>2. url' = SubSeq(request'.url, 1, offset') /\ (service_name' # << >> => Deep(Path(url')))
    BY <1>0, <2>1 DEF Located
  <2>3. QED BY <2>1, <2>2 DEF Located
<1>3. ASSUME UNCHANGED <<url, service_name, method_name>>,
             \/ place \notin {"begin", "url"} /\ place' \notin {"begin", "url"}
             \/ place' = place /\ offset' = offset
      PROVE  Located'
  <2>1. Path(url)' = Path(url) BY <1>3
  <2>2. QED BY <1>0, <1>3, <2>1 DEF Located
<1>4. CASE on_header_field
  <2>1. PICK n \in Lengths : Advance(n, "value", header) BY <1>4 DEF on_header_field
  <2>2. place = "field" /\ UNCHANGED <<url, service_name, method_name>>
    BY <1>4 DEF on_header_field, urls
  <2>3. place' \in {"field", "value"} BY <2>1, <2>2 DEF Advance
  <2>4. QED BY <2>2, <2>3, <1>3
<1>5. CASE on_header_value
  <2>1. PICK n \in Lengths : Advance(n, NextPlace, NextHeader)
    BY <1>5 DEF on_header_value
  <2>2. place = "value" /\ UNCHANGED <<url, service_name, method_name>>
    BY <1>5 DEF on_header_value, urls
  <2>3. place' \in {"field", "value", "blank"} BY <2>1, <2>2, NextIs DEF Advance
  <2>4. QED BY <2>2, <2>3, <1>3
<1>6. CASE on_body
  <2>1. PICK n \in Lengths : Advance(n, "end", header) BY <1>6 DEF on_body
  <2>2. place = "body" /\ UNCHANGED <<url, service_name, method_name>> BY <1>6 DEF on_body, urls
  <2>3. place' \in {"body", "end"} BY <2>1, <2>2 DEF Advance
  <2>4. QED BY <2>2, <2>3, <1>3
<1>7. CASE on_headers_complete \/ on_message_complete
  <2>1. place \in {"blank", "end"} /\ place' \in {"body", "end", "taken"}
        /\ UNCHANGED <<url, service_name, method_name>>
    BY <1>7 DEF on_headers_complete, on_message_complete, urls
  <2>2. QED BY <2>1, <1>3
<1>8. CASE set_response \/ UNCHANGED MessageVars
  <2>1. UNCHANGED <<url, service_name, method_name, place, offset>>
    BY <1>8 DEF set_response, MessageVars, urls, parser
  <2>2. QED BY <2>1, <1>3
<1>9. QED BY <1>1, <1>2, <1>4, <1>5, <1>6, <1>7, <1>8 DEF MessageNext

\* A name that has arrived in parts is the name in lower case.
LEMMA SpelledStep ==
  ASSUME Placed, Spelled, [MessageNext]_MessageVars
  PROVE  Spelled'
<1>0. request' = request /\ (\A i : Name(i)' = Name(i) /\ Named(i)' = Named(i))
  <2>1. request' = request BY PlacedStep
  <2>2. QED BY <2>1 DEF Name, Named
<1>1. CASE on_message_begin BY <1>1 DEF on_message_begin, Spelled
<1>2. CASE on_url
  <2>1. PICK n \in Lengths : Advance(n, NextPlace, NextHeader) BY <1>2 DEF on_url
  <2>2. place = "url" /\ InToken /\ stage' = "url" BY <1>2 DEF on_url, InToken
  <2>3. \/ place' = "url"
        \/ offset' = 0 /\ place' \in {"field", "blank"}
    BY <2>1, <2>2, Advanced, NextIs
  <2>4. QED BY <2>2, <2>3 DEF Spelled
<1>3. CASE on_header_field
  <2>1. PICK n \in Lengths :
          /\ cur_header' = Lowered((IF stage # "header_field" THEN << >> ELSE cur_header) \o Part(n))
          /\ Advance(n, "value", header)
    BY <1>3 DEF on_header_field
  <2>2. place = "field" /\ InToken /\ stage' = "header_field" BY <1>3 DEF on_header_field, InToken
  <2> DEFINE t == Token
  <2>3. t = Name(header) /\ t \in Seq(Chars) BY <2>2, TokenIs DEF InToken
  <2>4. /\ n \in Nat /\ n # 0 /\ offset \in Nat /\ Len(t) \in Nat /\ offset + n <= Len(t)
        /\ SubSeq(t, 1, offset) \o Part(n) = SubSeq(t, 1, offset + n)
        /\ Part(n) = SubSeq(t, offset + 1, offset + n)
    BY <2>2, PartIs
  <2> HIDE DEF t
  <2>5. cur_header' = Lowered(SubSeq(t, 1, offset + n))
    <3>1. CASE offset = 0
      <4>1. stage # "header_field" BY <2>2, <3>1 DEF Spelled
      <4>2. SubSeq(t, 1, offset) = << >> BY <2>3, <3>1, Whole
      <4>3. QED BY <2>1, <2>4, <4>1, <4>2
    <3>2. CASE offset # 0
      <4>1. stage = "header_field" /\ cur_header = Lowered(SubSeq(t, 1, offset))
        BY <2>2, <2>3, <3>2 DEF Spelled
      <4>2. cur_header' = Lowered(Lowered(SubSeq(t, 1, offset)) \o SubSeq(t, offset + 1, offset + n))
        BY <2>1, <2>4, <4>1
      <4>3. offset \in 0 .. Len(t) /\ n \in 0 .. Len(t) - offset BY <2>4
      <4>4. QED BY <2>3, <4>2, <4>3, LoweredGrows
    <3>3. QED BY <3>1, <3>2
  <2>6. CASE offset' = offset + n /\ place' = place /\ header' = header
    <3>1. offset' # 0 BY <2>4, <2>6
    <3>2. Name(header)' = t BY <1>0, <2>3, <2>6 DEF Name
    <3>3. QED BY <2>2, <2>5, <2>6, <3>1, <3>2 DEF Spelled
  <2>7. CASE offset + n = Len(t) /\ offset' = 0 /\ place' = "value" /\ header' = header
    <3>1. cur_header' = Lowered(t) BY <2>3, <2>5, <2>7, Whole
    <3>2. Named(header)' = Lowered(t) BY <1>0, <2>3, <2>7 DEF Named, Name
    <3>3. QED BY <2>2, <2>7, <3>1, <3>2 DEF Spelled
  <2>8. \/ offset' = offset + n /\ place' = place /\ header' = header
        \/ offset + n = Len(t) /\ offset' = 0 /\ place' = "value" /\ header' = header
    BY <2>1, <2>2, Advanced DEF t
  <2>9. QED BY <2>6, <2>7, <2>8
<1>4. CASE on_header_value
  <2>1. PICK n \in Lengths : Advance(n, NextPlace, NextHeader)
    BY <1>4 DEF on_header_value
  <2>2. place = "value" /\ InToken /\ stage' = "header_value" /\ cur_header' = cur_header
    BY <1>4 DEF on_header_value, InToken
  <2>3. n \in Nat /\ offset \in Nat BY <2>1, <2>2, PartIs
  <2>4. \/ n # 0 /\ offset' = offset + n /\ place' = place /\ header' = header
        \/ offset' = 0 /\ place' \in {"field", "blank"}
    BY <2>1, <2>2, Advanced, NextIs
  <2>5. CASE n # 0 /\ offset' = offset + n /\ place' = place /\ header' = header
    <3>1. offset' # 0 BY <2>3, <2>5
    <3>2. Named(header)' = Named(header) BY <1>0, <2>5 DEF Named, Name
    <3>3. cur_header = Named(header) BY <2>2 DEF Spelled
    <3>4. QED BY <2>2, <2>5, <3>1, <3>2, <3>3 DEF Spelled
  <2>6. CASE offset' = 0 /\ place' \in {"field", "blank"} BY <2>2, <2>6 DEF Spelled
  <2>7. QED BY <2>4, <2>5, <2>6
<1>5. CASE on_body
  <2>1. place' \in {"body", "end"} BY <1>5 DEF on_body, Advance
  <2>2. QED BY <2>1 DEF Spelled
<1>6. CASE on_headers_complete \/ on_message_complete
  <2>1. place' \in {"body", "end", "taken"} BY <1>6 DEF on_headers_complete, on_message_complete
  <2>2. QED BY <2>1 DEF Spelled
<1>7. CASE set_response \/ UNCHANGED MessageVars
  <2>1. UNCHANGED <<place, header, offset, stage, cur_header>>
    BY <1>7 DEF set_response, MessageVars, headers, parser
  <2>2. Name(header)' = Name(header) /\ Named(header)' = Named(header) BY <1>0, <2>1 DEF Name, Named
  <2>3. QED BY <2>1, <2>2 DEF Spelled
<1>8. QED BY <1>1, <1>2, <1>3, <1>4, <1>5, <1>6, <1>7 DEF MessageNext

\* A part of a value goes behind the parts before it.
LEMMA FiledStep ==
  ASSUME Placed, Spelled, Filed, [MessageNext]_MessageVars
  PROVE  Filed'
<1>0. request' = request BY PlacedStep
<1>1. /\ Count' = Count /\ (Distinct' <=> Distinct)
      /\ \A i : Value(i)' = Value(i) /\ Named(i)' = Named(i)
  BY <1>0 DEF Count, Distinct, Name, Named, Value
<1>2. Count \in Nat /\ header \in Nat /\ offset \in Nat BY RequestIs DEF Placed
<1>3. ASSUME header_map' = header_map, Begun' = Begun,
             place = "value" => Begun < header, place' = "value" => Begun' < header'
      PROVE  Filed'
  <2>1. \A i \in 1 .. Begun : i # header \/ place # "value"
    <3>1. Begun \in Int BY <1>2 DEF Begun
    <3>2. QED BY <1>2, <1>3, <3>1
  <2>2. \A i \in 1 .. Begun : i # header' \/ place' # "value"
    <3>1. Begun \in Int BY <1>2 DEF Begun
    <3>2. header' \in Int BY PlacedStep DEF Placed
    <3>3. QED BY <1>3, <3>1, <3>2
  <2>3. DOMAIN header_map' = {Named(i)' : i \in 1 .. Begun'} BY <1>1, <1>3 DEF Filed
  <2>4. ASSUME Distinct', NEW i \in 1 .. Begun'
        PROVE  header_map'[Named(i)'] =
                 IF place' = "value" /\ i = header' THEN SubSeq(Value(i)', 1, offset') ELSE Value(i)'
    <3>1. header_map[Named(i)] = Value(i) BY <1>1, <1>3, <2>1, <2>4 DEF Filed
    <3>2. QED BY <1>1, <1>3, <2>2, <2>4, <3>1
  <2>5. QED BY <2>3, <2>4 DEF Filed
<1>4. CASE on_message_begin
  <2>1. UNCHANGED <<header, header_map>> /\ place = "begin" /\ place' = "url"
    BY <1>4 DEF on_message_begin, headers
  <2>2. QED BY <2>1, <1>3 DEF Begun
<1>5. CASE on_url
  <2>1. PICK n \in Lengths : Advance(n, NextPlace, NextHeader) BY <1>5 DEF on_url
  <2>2. place = "url" /\ InToken /\ header_map' = header_map BY <1>5 DEF on_url, InToken, headers
  <2>3. \/ place' = "url" /\ header' = header
        \/ place' = "field" /\ header' = header + 1
        \/ place' = "blank" /\ header' = header
    BY <2>1, <2>2, Advanced, NextIs
  <2>4. QED BY <1>2, <1>3, <2>2, <2>3 DEF Begun
<1>6. CASE on_header_field
  <2>1. PICK n \in Lengths : Advance(n, "value", header) BY <1>6 DEF on_header_field
  <2>2. place = "field" /\ InToken /\ header_map' = header_map BY <1>6 DEF on_header_field, InToken
  <2>3. \/ place' = "field" /\ header' = header
        \/ place' = "value" /\ header' = header /\ offset' = 0
    BY <2>1, <2>2, Advanced
  <2>4. QED BY <1>2, <1>3, <2>2, <2>3 DEF Begun
<1>7. CASE on_header_value
  <2>1. PICK n \in Lengths :
          /\ header_map' =
               IF stage = "header_value" THEN [header_map EXCEPT ![cur_header] = @ \o Part(n)]
               ELSE [name \in DOMAIN header_map \cup {cur_header} |->
                       IF name \in DOMAIN header_map THEN header_map[name] ELSE Part(n)]
          /\ Advance(n, NextPlace, NextHeader)
    BY <1>7 DEF on_header_value
  <2>2. place = "value" /\ InToken BY <1>7 DEF on_header_value, InToken
  <2>3. cur_header = Named(header) /\ stage = (IF offset = 0 THEN "header_field" ELSE "header_value")
    BY <2>2 DEF Spelled
  <2> DEFINE t == Value(header)
  <2>4. t = Token /\ t \in Seq(Chars) BY <2>2, TokenIs
  <2>5. /\ n \in Nat /\ Len(t) \in Nat /\ offset + n <= Len(t)
        /\ SubSeq(t, 1, offset) \o Part(n) = SubSeq(t, 1, offset + n)
        /\ Part(n) = SubSeq(t, offset + 1, offset + n)
    BY <2>2, <2>4, PartIs
  <2> HIDE DEF t
  <2>6. header \in 1 .. Count BY <2>2, <1>2 DEF Placed
  <2>7. \/ /\ n # 0 /\ offset' = offset + n /\ place' = place /\ header' = header
        \/ /\ offset + n = Len(t) /\ offset' = 0
           /\ \/ place' = "field" /\ header' = header + 1
              \/ place' = "blank" /\ header' = header
    BY <2>1, <2>2, <2>4, Advanced, NextIs
  <2>8. Begun' = header BY <1>2, <2>2, <2>5, <2>7 DEF Begun
  <2>9. DOMAIN header_map' = {Named(i) : i \in 1 .. header}
    <3>1. CASE offset = 0
      <4>1. DOMAIN header_map' = {Named(i) : i \in 1 .. header - 1} \cup {Named(header)}
        BY <2>1, <2>2, <2>3, <3>1 DEF Filed, Begun
      <4>2. 1 .. header = (1 .. header - 1) \cup {header} BY <2>6
      <4>3. QED BY <4>1, <4>2
    <3>2. CASE offset # 0
      <4>1. DOMAIN header_map' = DOMAIN header_map BY <2>1, <2>3, <3>2
      <4>2. QED BY <4>1, <2>2, <3>2 DEF Filed, Begun
    <3>3. QED BY <3>1, <3>2
  <2>10. ASSUME Distinct, NEW i \in 1 .. header - 1
         PROVE  header_map'[Named(i)] = Value(i)
    <3>1. i \in 1 .. Count /\ i # header /\ i \in 1 .. Begun BY <1>2, <2>6 DEF Begun
    <3>2. Named(i) # Named(header) BY <3>1, <2>6, <2>10 DEF Distinct
    <3>3. header_map[Named(i)] = Value(i) /\ Named(i) \in DOMAIN header_map BY <3>1, <2>10 DEF Filed
    <3>4. QED BY <2>1, <2>3, <3>2, <3>3
  <2>11. ASSUME Distinct PROVE header_map'[Named(header)] = SubSeq(t, 1, offset + n)
    <3>1. CASE offset = 0
      <4>1. Named(header) \notin DOMAIN header_map
        <5>1. \A i \in 1 .. header - 1 : i \in 1 .. Count /\ i # header BY <1>2, <2>6
        <5>2. \A i \in 1 .. header - 1 : Named(i) # Named(header) BY <5>1, <2>6, <2>11 DEF Distinct
        <5>3. DOMAIN header_map = {Named(i) : i \in 1 .. header - 1} BY <2>2, <3>1 DEF Filed, Begun
        <5>4. QED BY <5>2, <5>3
      <4>2. header_map'[Named(header)] = Part(n) BY <2>1, <2>3, <3>1, <4>1
      <4>3. offset + 1 = 1 BY <3>1
      <4>4. QED BY <2>5, <4>2, <4>3
    <3>2. CASE offset # 0
      <4>1. header \in 1 .. Begun BY <2>2, <2>6, <3>2 DEF Begun
      <4>2. Named(header) \in DOMAIN header_map /\ header_map[Named(header)] = SubSeq(t, 1, offset)
        BY <2>2, <2>11, <4>1 DEF Filed, t
      <4>3. header_map'[Named(header)] = header_map[Named(header)] \o Part(n)
        BY <2>1, <2>3, <3>2, <4>2
      <4>4. QED BY <2>5, <4>2, <4>3
    <3>3. QED BY <3>1, <3>2
  <2>12. ASSUME Distinct, NEW i \in 1 .. header
         PROVE  header_map'[Named(i)] =
                  IF place' = "value" /\ i = header' THEN SubSeq(Value(i), 1, offset') ELSE Value(i)
    <3>1. CASE i # header
      <4>1. i \in 1 .. header - 1 BY <1>2, <3>1
      <4>2. header_map'[Named(i)] = Value(i) BY <4>1, <2>10, <2>12
      <4>3. place' = "value" => header' = header BY <2>7
      <4>4. QED BY <3>1, <4>2, <4>3
    <3>2. CASE i = header
      <4>1. header_map'[Named(i)] = SubSeq(t, 1, offset + n) BY <3>2, <2>11, <2>12
      <4>2. CASE n # 0 /\ offset' = offset + n /\ place' = place /\ header' = header
        BY <2>2, <3>2, <4>1, <4>2 DEF t
      <4>3. CASE offset + n = Len(t) /\ place' # "value"
        <5>1. SubSeq(t, 1, offset + n) = t BY <2>4, <4>3, Whole
        <5>2. QED BY <3>2, <4>1, <4>3, <5>1 DEF t
      <4>4. QED BY <2>7, <4>2, <4>3
    <3>3. QED BY <3>1, <3>2
  <2>13. QED BY <1>1, <2>8, <2>9, <2>12 DEF Filed
<1>8. CASE on_headers_complete \/ on_body \/ on_message_complete
  <2>1. UNCHANGED <<header, header_map>> /\ place \in {"blank", "body", "end"} /\ place' \in {"body", "end", "taken"}
    BY <1>8 DEF on_headers_complete, on_body, on_message_complete, headers, Advance
  <2>2. QED BY <2>1, <1>3 DEF Begun
<1>9. CASE set_response \/ UNCHANGED MessageVars
  <2>1. UNCHANGED <<request, place, header, offset, header_map>>
    BY <1>9 DEF set_response, MessageVars, headers, parser
  <2>2. QED BY <2>1 DEF Filed, Begun, Distinct, Count, Name, Named, Value
<1>10. QED BY <1>4, <1>5, <1>6, <1>7, <1>8, <1>9 DEF MessageNext

LEMMA FilledStep ==
  ASSUME Placed, Filled, [MessageNext]_MessageVars
  PROVE  Filled'
<1>0. request' = request BY PlacedStep
<1>1. request.body \in Seq(Chars) BY RequestIs DEF Placed
<1>2. CASE on_body
  <2>1. PICK n \in Lengths : content' = content \o Part(n) /\ Advance(n, "end", header)
    BY <1>2 DEF on_body
  <2>2. place = "body" /\ InToken BY <1>2 DEF on_body, InToken
  <2>3. Token = request.body BY <2>2, TokenIs
  <2>4. content' = SubSeq(request.body, 1, offset + n) BY <2>1, <2>2, <2>3, PartIs DEF Filled
  <2>5. CASE offset' = offset + n /\ place' = place BY <1>0, <2>2, <2>4, <2>5 DEF Filled
  <2>6. CASE offset + n = Len(request.body) /\ offset' = 0 /\ place' = "end"
    BY <1>0, <1>1, <2>4, <2>6, Whole DEF Filled
  <2>7. QED BY <2>1, <2>2, <2>3, <2>5, <2>6, Advanced
<1>3. CASE on_message_begin
  <2>1. place = "begin" /\ place' = "url" /\ content' = content BY <1>3 DEF on_message_begin
  <2>2. QED BY <2>1 DEF Filled
<1>4. CASE on_url \/ on_header_field \/ on_header_value
  <2>1. place \in {"url", "field", "value"} /\ content' = content
    BY <1>4 DEF on_url, on_header_field, on_header_value
  <2>2. place' \in {"url", "field", "value", "blank"}
    BY <1>4, NextIs DEF on_url, on_header_field, on_header_value, Advance
  <2>3. QED BY <2>1, <2>2 DEF Filled
<1>5. CASE on_headers_complete
  <2>1. /\ place = "blank" /\ content' = content /\ offset' = offset
        /\ place' = IF request.body = << >> THEN "end" ELSE "body"
    BY <1>5 DEF on_headers_complete
  <2>2. content = << >> /\ offset = 0 BY <2>1 DEF Filled, Placed
  <2>3. SubSeq(request.body, 1, 0) = << >> BY <1>1, Whole
  <2>4. QED BY <1>0, <2>1, <2>2, <2>3 DEF Filled
<1>6. CASE on_message_complete
  <2>1. place = "end" /\ place' = "taken" /\ content' = content BY <1>6 DEF on_message_complete
  <2>2. QED BY <1>0, <2>1 DEF Filled
<1>7. CASE set_response \/ UNCHANGED MessageVars
  <2>1. UNCHANGED <<place, offset, content>> BY <1>7 DEF set_response, MessageVars, parser
  <2>2. QED BY <1>0, <2>1 DEF Filled
<1>8. QED BY <1>2, <1>3, <1>4, <1>5, <1>6, <1>7 DEF MessageNext

\* The names in the map are in lower case, and finitely many.
LEMMA NamesFiled ==
  ASSUME Placed, Filed
  PROVE  /\ IsFiniteSet(DOMAIN header_map)
         /\ \A name \in DOMAIN header_map : name \in Seq(Chars) /\ Lowered(name) = name
<1>1. Count \in Nat /\ header \in 0 .. Count /\ (place = "field" => header # 0) BY RequestIs DEF Placed
<1>2. Begun \in 0 .. Count
  <2>1. place \in {"field", "value"} => header # 0 BY DEF Placed
  <2>2. QED BY <1>1, <2>1 DEF Begun
<1>3. \A i \in 1 .. Begun : i \in 1 .. Count BY <1>1, <1>2
<1>4. \A i \in 1 .. Begun : Named(i) \in Seq(Chars) /\ Lowered(Named(i)) = Named(i)
  <2> TAKE i \in 1 .. Begun
  <2>1. Name(i) \in Seq(Chars) BY <1>3, RequestIs DEF Placed
  <2>2. QED BY <2>1, LoweredName DEF Named
<1>5. IsFiniteSet(DOMAIN header_map)
  <2> DEFINE f == [i \in 1 .. Begun |-> Named(i)]
  <2>1. f \in Surjection(1 .. Begun, DOMAIN header_map) BY DEF Filed, Surjection
  <2>2. 0 \in Int /\ 1 \in Int /\ Begun \in Int BY <1>1, <1>2
  <2>3. IsFiniteSet(1 .. Begun) BY <2>2, FS_Interval
  <2> HIDE DEF f
  <2>4. QED BY <2>1, <2>3, FS_Surjection
<1>6. QED BY <1>4, <1>5 DEF Filed

\* Two elements in front of a sequence.
LEMMA TwoBefore ==
  ASSUME NEW S, NEW a \in S, NEW b \in S, NEW q \in Seq(S), NEW n, n = Len(q), NEW r, r = <<a, b>> \o q
  PROVE  /\ DOMAIN r = 1 .. 2 + n
         /\ \A i \in 1 .. 2 + n : \/ i = 1 /\ r[i] = a
                                  \/ i = 2 /\ r[i] = b
                                  \/ i - 2 \in 1 .. n /\ r[i] = q[i - 2]
<1>1. n \in Nat OBVIOUS
<1>2. PICK two : two = <<a, b>> OBVIOUS
<1>3. two \in Seq(S) /\ Len(two) = 2 /\ two[1] = a /\ two[2] = b BY <1>2
<1>4. /\ two \o q \in Seq(S) /\ Len(two \o q) = 2 + n
      /\ \A i \in 1 .. 2 + n : (two \o q)[i] = IF i <= 2 THEN two[i] ELSE q[i - 2]
  <2>1. /\ two \o q \in Seq(S) /\ Len(two \o q) = Len(two) + Len(q)
        /\ \A i \in 1 .. Len(two) + Len(q) :
             (two \o q)[i] = IF i <= Len(two) THEN two[i] ELSE q[i - Len(two)]
    BY <1>3, ConcatProperties
  <2>2. QED BY <2>1, <1>3
<1>5. r \in Seq(S) /\ Len(r) = 2 + n /\ \A i \in 1 .. 2 + n : r[i] = IF i <= 2 THEN two[i] ELSE q[i - 2]
  BY <1>2, <1>3, <1>4
<1>6. DOMAIN r = 1 .. 2 + n BY <1>5, LenProperties
<1>7. ASSUME NEW i \in 1 .. 2 + n
      PROVE  \/ i = 1 /\ r[i] = a
             \/ i = 2 /\ r[i] = b
             \/ i - 2 \in 1 .. n /\ r[i] = q[i - 2]
  <2>1. CASE i <= 2
    <3>1. i = 1 \/ i = 2 BY <2>1, <1>1
    <3>2. r[i] = two[i] BY <2>1, <1>5
    <3>3. QED BY <3>1, <3>2, <1>3
  <2>2. CASE ~ (i <= 2)
    <3>1. i - 2 \in 1 .. n BY <2>2, <1>1
    <3>2. r[i] = q[i - 2] BY <2>2, <1>5
    <3>3. QED BY <3>1, <3>2
  <2>3. QED BY <2>1, <2>2
<1>8. QED BY <1>6, <1>7

\* No name of the response occurs twice.
LEMMA EchoedStep ==
  ASSUME Placed, Filed, Echoed, [MessageNext]_MessageVars
  PROVE  Echoed'
<1>1. CASE set_response
  <2> DEFINE D == DOMAIN header_map \ {ContentLength, ContentType}
             N == Cardinality(D)
  <2>1. PICK order \in [1 .. N -> D] :
          IsInjective(order) /\ response' = <<ContentLength, ContentType>> \o order
    <3>1. Cardinality(D) = N BY DEF Cardinality, Cardinality
    <3>2. \E order \in [1 .. Cardinality(D) -> D] :
            IsInjective(order) /\ response' = <<ContentLength, ContentType>> \o order
      BY <1>1 DEF set_response
    <3>3. QED BY <3>1, <3>2
  <2>2. N \in Nat
    <3>1. IsFiniteSet(D) BY NamesFiled, FS_Difference
    <3>2. QED BY <3>1, FS_CardinalityType
  <2>3. /\ ContentLength \in Seq(Chars) /\ Lowered(ContentLength) = ContentLength
        /\ ContentType \in Seq(Chars) /\ Lowered(ContentType) = ContentType
        /\ ContentLength # ContentType
    BY HttpAssumption DEF HttpAssumption
  <2>4. \A name \in D : /\ name \in Seq(Chars) /\ Lowered(name) = name
                        /\ name # ContentLength /\ name # ContentType
    BY NamesFiled
  <2> HIDE DEF D, N
  <2>5. order \in Seq(Seq(Chars)) /\ Len(order) = N
    <3>1. order \in Seq(D) BY <2>1, <2>2, SeqDef
    <3>2. Len(order) = N BY <2>1, <2>2, <3>1, LenProperties
    <3>3. order \in [1 .. N -> Seq(Chars)] BY <2>1, <2>4
    <3>4. QED BY <2>2, <3>2, <3>3, SeqDef
  <2>6. Len(order) \in Nat /\ ContentLength \in Seq(Chars) /\ ContentType \in Seq(Chars) BY <2>2, <2>3, <2>5
  <2>7. PICK r : r = response' /\ r = <<ContentLength, ContentType>> \o order BY <2>1
  <2>8. /\ DOMAIN r = 1 .. 2 + N
        /\ \A i \in 1 .. 2 + N : \/ i = 1 /\ r[i] = ContentLength
                                 \/ i = 2 /\ r[i] = ContentType
                                 \/ i - 2 \in 1 .. N /\ r[i] = order[i - 2]
    BY <2>5, <2>6, <2>7, TwoBefore
  <2>9. \A j \in 1 .. N : order[j] \in D BY <2>1
  <2>10. \A i \in 1 .. 2 + N : Lowered(r[i]) = r[i] BY <2>3, <2>4, <2>8, <2>9
  <2>11. \A i, j \in 1 .. 2 + N : r[i] = r[j] => i = j
    <3> SUFFICES ASSUME NEW i \in 1 .. 2 + N, NEW j \in 1 .. 2 + N, r[i] = r[j] PROVE i = j
      OBVIOUS
    <3>1. \A k \in 1 .. N : order[k] # ContentLength /\ order[k] # ContentType BY <2>4, <2>9
    <3>2. CASE i - 2 \in 1 .. N /\ j - 2 \in 1 .. N /\ order[i - 2] = order[j - 2]
      <4>1. i - 2 = j - 2 BY <3>2, <2>1 DEF IsInjective
      <4>2. QED BY <4>1, <2>2
    <3>3. QED BY <2>3, <2>8, <3>1, <3>2
  <2>12. \A i, j \in DOMAIN r : Lowered(r[i]) = Lowered(r[j]) => i = j BY <2>8, <2>10, <2>11
  <2>13. \A i, j \in DOMAIN response' : Lowered(response'[i]) = Lowered(response'[j]) => i = j
    BY <2>7, <2>12
  <2>14. QED BY <2>13 DEF Echoed
<1>2. CASE ~ set_response
  <2>1. response' = response
    BY <1>2 DEF MessageNext, MessageVars, on_message_begin, on_url, on_header_field,
       on_header_value, on_headers_complete, on_body, on_message_complete
  <2>2. QED BY <2>1 DEF Echoed
<1>3. QED BY <1>1, <1>2

LEMMA HttpInit ==
  ASSUME MessageInit
  PROVE  HttpInv
<1>1. /\ request \in Requests /\ place = "begin" /\ header = 0 /\ offset = 0 /\ stage = "message_begin"
      /\ url = << >> /\ service_name = << >> /\ cur_header = << >> /\ content = << >>
      /\ header_map = [name \in {} |-> << >>] /\ response = << >>
  BY DEF MessageInit
<1>2. /\ Count \in Nat /\ request.url \in Seq(Chars) BY <1>1, RequestIs
<1>3. Placed BY <1>1, <1>2 DEF Placed
<1>4. Located
  <2>1. SubSeq(request.url, 1, 0) = << >> BY <1>2, Whole
  <2>2. QED BY <1>1, <2>1 DEF Located
<1>5. Spelled BY <1>1 DEF Spelled
<1>6. Filed
  <2>1. Begun = 0 /\ DOMAIN header_map = {} BY <1>1 DEF Begun
  <2>2. QED BY <2>1 DEF Filed
<1>7. Filled BY <1>1 DEF Filled
<1>8. Echoed BY <1>1 DEF Echoed
<1>9. QED BY <1>3, <1>4, <1>5, <1>6, <1>7, <1>8 DEF HttpInv

\* A value comes behind its name, which is not empty.
LEMMA ValueComes ==
  ASSUME HttpInv
  PROVE  ValuesExpected
<1> SUFFICES ASSUME place = "value" PROVE ValueExpected BY DEF ValuesExpected
<1>1. Placed /\ Spelled /\ Filed BY DEF HttpInv
<1>2. Count \in Nat /\ header \in 1 .. Count BY <1>1, RequestIs DEF Placed
<1>3. Name(header) \in Seq(Chars) /\ Name(header) # << >> BY <1>1, <1>2, RequestIs DEF Placed
<1>4. cur_header # << >>
  <2>1. cur_header = Lowered(Name(header)) BY <1>1 DEF Spelled, Named
  <2>2. cur_header \in Seq(Chars) /\ Len(cur_header) = Len(Name(header)) BY <1>3, <2>1, LoweredName
  <2>3. QED BY <1>3, <2>2
<1>5. CASE offset = 0 BY <1>1, <1>4, <1>5 DEF Spelled, ValueExpected
<1>6. CASE offset # 0
  <2>1. header \in 1 .. Begun BY <1>2, <1>6 DEF Begun
  <2>2. cur_header \in DOMAIN header_map BY <1>1, <2>1 DEF Spelled, Filed
  <2>3. QED BY <1>1, <1>4, <1>6, <2>2 DEF Spelled, ValueExpected
<1>7. QED BY <1>5, <1>6

\* What a complete message holds.
LEMMA FieldsThen ==
  ASSUME HttpInv
  PROVE  FieldsAsSent
<1> SUFFICES ASSUME completed PROVE FieldsAsSent BY DEF FieldsAsSent
<1>1. Placed /\ Located /\ Filed /\ Filled /\ Echoed BY DEF HttpInv
<1>2. place = "taken" BY <1>1 DEF completed, Placed
<1>3. url = request.url /\ content = request.body /\ Ends(Path(request.url), service_name, method_name)
  BY <1>1, <1>2 DEF Located, Filled
<1>4. Count \in Nat /\ DOMAIN request.headers = 1 .. Count BY <1>1, RequestIs DEF Placed
<1>5. header = Count /\ Begun = Count BY <1>1, <1>2 DEF Placed, Begun
<1>6. DOMAIN header_map = {Named(i) : i \in 1 .. Count} BY <1>1, <1>5 DEF Filed
<1>7. Distinct => \A i \in 1 .. Count : header_map[Named(i)] = Value(i) BY <1>1, <1>2, <1>5 DEF Filed
<1>8. QED
  BY <1>1, <1>3, <1>4, <1>6, <1>7
  DEF FieldsAsSent, Ends, Distinct, Echoed, Named, Name, Value

\* However the parser cuts a request, HttpMessage puts its tokens together again.
THEOREM HttpInvariance == MessageSpec => []HttpInv
<1>1. MessageInit => HttpInv BY HttpInit
<1>2. ASSUME HttpInv, [MessageNext]_MessageVars PROVE HttpInv'
  BY <1>2, PlacedStep, LocatedStep, SpelledStep, FiledStep, FilledStep, EchoedStep DEF HttpInv
<1>3. QED BY <1>1, <1>2, PTL DEF MessageSpec

\* The caller of HttpMessage finds what the client has sent, for any strings and any
\* number of headers, wherever the stream was cut.
THEOREM Fields == MessageSpec => []FieldsAsSent
<1>1. HttpInv => FieldsAsSent BY FieldsThen
<1>2. MessageSpec => []HttpInv BY HttpInvariance
<1>3. QED BY <1>1, <1>2, PTL

\* on_header_value never returns -1 for a request that the parser accepts.
THEOREM ValuesCome == MessageSpec => []ValuesExpected
<1>1. HttpInv => ValuesExpected BY ValueComes
<1>2. MessageSpec => []HttpInv BY HttpInvariance
<1>3. QED BY <1>1, <1>2, PTL

=============================================================================
