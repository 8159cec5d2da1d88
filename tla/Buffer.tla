------------------------------- MODULE Buffer -------------------------------
(***************************************************************************)
(* public/buffer.h: the ring buffer between a connection's descriptor and  *)
(* the message parser (i_buffer) and between the replies and the           *)
(* descriptor (o_buffer). One slot stays free, so that equal indices mean  *)
(* an empty buffer.                                                        *)
(***************************************************************************)
EXTENDS Integers, Sequences

CONSTANTS
  Capacity,   \* _capacity, a power of two
  Bytes,      \* the values of a byte
  MaxChunk    \* the longest string offered at once (a bound on the inputs)

ASSUME BufferAssumption ==
  /\ Capacity \in Nat /\ Capacity > 0
  /\ MaxChunk \in Nat

Slots  == 0 .. (Capacity - 1)
Sizes  == 0 .. MaxChunk
Chunks == UNION {[1 .. n -> Bytes] : n \in Sizes}

VARIABLES
  read_index, write_index,
  ring,       \* _ring_buffer
  call,       \* the last operation and its arguments
  result      \* its return value

vars == <<read_index, write_index, ring, call, result>>

Called(op, data, size) == call' = [op |-> op, data |-> data, size |-> size]

-----------------------------------------------------------------------------
\* x & _mask, for the x < 2 * _capacity that occur, _capacity being a power
\* of two.
Mask(x) == IF x < Capacity THEN x ELSE x - Capacity

readable_bytes == Mask(Capacity + write_index - read_index)
writable_bytes == Mask((Capacity - 1) + read_index - write_index)

Smaller(a, b) == IF a < b THEN a ELSE b

\* memmove(_ring_buffer + to, data + from, n)
MemMove(mem, to, data, from, n) ==
  [i \in Slots |-> IF to <= i /\ i < to + n THEN data[from + (i - to) + 1] ELSE mem[i]]

\* Defect: the second part starts at the beginning of data again.
StoreRepeats(data, n) ==
  IF read_index <= write_index /\ Capacity - write_index < n
    THEN MemMove(MemMove(ring, write_index, data, 0, Capacity - write_index),
                 0, data, 0, n - (Capacity - write_index))
    ELSE MemMove(ring, write_index, data, 0, n)

\* The first n bytes of data go behind the content, in two parts when the end
\* of the ring is nearer than that.
Store(data, n) ==
  IF read_index <= write_index /\ Capacity - write_index < n
    THEN MemMove(MemMove(ring, write_index, data, 0, Capacity - write_index),
                 0, data, Capacity - write_index, n - (Capacity - write_index))
    ELSE MemMove(ring, write_index, data, 0, n)

-----------------------------------------------------------------------------
\* malloc does not initialise the ring.
Init ==
  /\ read_index = 0 /\ write_index = 0
  /\ ring \in [Slots -> Bytes]
  /\ call = [op |-> "none", data |-> << >>, size |-> 0] /\ result = 0

\* append(data, size): what does not fit is left out.
append(data) ==
  LET nw == Smaller(writable_bytes, Len(data))
  IN  /\ Called("append", data, 0)
      /\ ring' = Store(data, nw)
      /\ write_index' = Mask(write_index + nw)
      /\ result' = nw
      /\ UNCHANGED read_index

cut(size) ==
  LET nr == Smaller(size, readable_bytes)
  IN  /\ Called("cut", << >>, size)
      /\ read_index' = Mask(read_index + nr)
      /\ result' = nr
      /\ UNCHANGED <<write_index, ring>>

clear ==
  /\ Called("clear", << >>, 0)
  /\ read_index' = 0 /\ write_index' = 0
  /\ UNCHANGED <<ring, result>>

\* append_from_fd when readv returns the first n of the bytes that wait in
\* the descriptor.
append_from_fd(data) ==
  /\ writable_bytes # 0
  /\ Called("append_from_fd", data, 0)
  /\ \E n \in 1 .. Smaller(writable_bytes, Len(data)) :
       /\ ring' = Store(data, n)
       /\ write_index' = Mask(write_index + n)
       /\ result' = n
  /\ UNCHANGED read_index

\* ... when the buffer is full (returns 0, as at end of file, and reads
\* nothing), at end of file, or when readv fails.
append_from_fd_nothing ==
  /\ Called("append_from_fd", << >>, 0)
  /\ result' \in IF writable_bytes = 0 THEN {0} ELSE {0, -1}
  /\ UNCHANGED <<read_index, write_index, ring>>

\* The bytes that cut_into_fd hands to writev: nr of them from read_index, in
\* two parts when they reach the end of the ring.
Gather(nr) ==
  IF read_index < write_index \/ Capacity - read_index > nr
    THEN [k \in 1 .. nr |-> ring[read_index + k - 1]]
    ELSE [k \in 1 .. Capacity - read_index |-> ring[read_index + k - 1]]
           \o [k \in 1 .. nr - (Capacity - read_index) |-> ring[k - 1]]

\* cut_into_fd(fd, size), size 0 meaning everything: writev takes a part.
cut_into_fd(size) ==
  LET nr == IF size # 0 THEN Smaller(size, readable_bytes) ELSE readable_bytes
  IN  /\ Called("cut_into_fd", << >>, size)
      /\ \E n \in 0 .. nr : read_index' = Mask(read_index + n) /\ result' = n
      /\ UNCHANGED <<write_index, ring>>

cut_into_fd_fails ==
  /\ Called("cut_into_fd", << >>, 0)
  /\ result' = -1
  /\ UNCHANGED <<read_index, write_index, ring>>

\* append_from_ssl when SSL_read, called once or (behind the end of the ring) twice,
\* returns n of the bytes that the session holds.
append_from_ssl(data) ==
  /\ writable_bytes # 0
  /\ Called("append_from_ssl", data, 0)
  /\ \E n \in 1 .. Smaller(writable_bytes, Len(data)) :
       /\ ring' = Store(data, n)
       /\ write_index' = Mask(write_index + n)
       /\ result' = n
  /\ UNCHANGED read_index

\* ... when the first SSL_read fills the ring up to its end and the second fails: the
\* bytes stay outside of the content. The first one may read one byte too many, when
\* the free slot is the last one; the second is then asked for -1 bytes and fails.
append_from_ssl_loses(data) ==
  LET written == Capacity - write_index
  IN  /\ writable_bytes # 0 /\ read_index <= write_index /\ written <= Len(data)
      /\ Called("append_from_ssl", data, 0)
      /\ ring' = MemMove(ring, write_index, data, 0, written)
      /\ result' = -1
      /\ UNCHANGED <<read_index, write_index>>

\* ... when the buffer is full, or the first SSL_read returns nothing.
append_from_ssl_nothing ==
  /\ Called("append_from_ssl", << >>, 0)
  /\ result' \in IF writable_bytes = 0 THEN {0} ELSE {0, -1}
  /\ UNCHANGED <<read_index, write_index, ring>>

\* cut_into_ssl calls SSL_write once or, when the content reaches the end of the ring,
\* twice. SSL_write takes all or nothing. The data of the call are what it took.
Asked(size)  == IF size # 0 THEN Smaller(size, readable_bytes) ELSE readable_bytes
TwoParts(nr) == ~ (read_index < write_index \/ Capacity - read_index > nr)

cut_into_ssl(size) ==
  /\ Called("cut_into_ssl", Gather(Asked(size)), size)
  /\ read_index' = Mask(read_index + Asked(size))
  /\ result' = Asked(size)
  /\ UNCHANGED <<write_index, ring>>

\* ... when the first SSL_write fails. The bytes go all the same when it returns 0 and
\* there was to be a second one.
cut_into_ssl_fails(size) ==
  /\ Called("cut_into_ssl", << >>, size)
  /\ \/ read_index' = read_index /\ result' \in IF TwoParts(Asked(size)) THEN {-1} ELSE {0, -1}
     \/ /\ TwoParts(Asked(size))
        /\ read_index' = Mask(read_index + Asked(size)) /\ result' = 0
  /\ UNCHANGED <<write_index, ring>>

\* ... when the second one fails: all bytes stay, or all go, though some have been sent.
cut_into_ssl_stops(size) ==
  LET read == Capacity - read_index
  IN  /\ TwoParts(Asked(size))
      /\ Called("cut_into_ssl", Gather(read), size)
      /\ \/ read_index' = read_index /\ result' = -1
         \/ read_index' = Mask(read_index + Asked(size)) /\ result' = read
      /\ UNCHANGED <<write_index, ring>>

Next ==
  \/ \E data \in Chunks : append(data) \/ append_from_fd(data)
                            \/ append_from_ssl(data) \/ append_from_ssl_loses(data)
  \/ \E size \in Sizes : \/ cut(size) \/ cut_into_fd(size)
                         \/ cut_into_ssl(size) \/ cut_into_ssl_fails(size) \/ cut_into_ssl_stops(size)
  \/ clear \/ append_from_fd_nothing \/ append_from_ssl_nothing \/ cut_into_fd_fails

Spec == Init /\ [][Next]_vars

-----------------------------------------------------------------------------
\* The indices stay inside the ring.
TypeOK ==
  /\ read_index \in Slots /\ write_index \in Slots
  /\ ring \in [Slots -> Bytes]
  /\ result \in Int

\* What an iterator from begin() to end() visits.
Content(mem, r, w) ==
  [k \in 1 .. Mask(Capacity + w - r) |-> mem[Mask(r + (k - 1))]]

held == Content(ring, read_index, write_index)

\* Defect: the second span starts where the first one does.
strs_repeats ==
  IF read_index <= write_index
    THEN <<[k \in 1 .. write_index - read_index |-> ring[read_index + k - 1]]>>
    ELSE <<[k \in 1 .. Capacity - read_index |-> ring[read_index + k - 1]],
           [k \in 1 .. write_index |-> ring[read_index]]>>

\* strs(): the content as one or two spans of the ring.
strs ==
  IF read_index <= write_index
    THEN <<[k \in 1 .. write_index - read_index |-> ring[read_index + k - 1]]>>
    ELSE <<[k \in 1 .. Capacity - read_index |-> ring[read_index + k - 1]],
           [k \in 1 .. write_index |-> ring[k - 1]]>>

\* str(): one span, copied into _read_buffer when the content wraps.
str ==
  IF read_index <= write_index
    THEN [k \in 1 .. write_index - read_index |-> ring[read_index + k - 1]]
    ELSE [k \in 1 .. readable_bytes |->
            IF k <= Capacity - read_index THEN ring[read_index + k - 1]
                                          ELSE ring[k - (Capacity - read_index) - 1]]

\* The parser (strs), the gateway protocol (str), an iterator and writev all
\* see the same bytes.
ViewsAgree ==
  /\ str = held
  /\ held = IF Len(strs) = 1 THEN strs[1] ELSE strs[1] \o strs[2]
  /\ \A n \in 0 .. readable_bytes : Gather(n) = SubSeq(held, 1, n)

Queue == INSTANCE ByteQueue WITH Limit <- Capacity - 1, bytes <- held

\* The buffer is a byte queue: nothing is lost, repeated or reordered by the
\* wrap-around, and the return values tell how much went in or out.
ImplementsByteQueue == Queue!Spec

=============================================================================
