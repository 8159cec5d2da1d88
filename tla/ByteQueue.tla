------------------------------ MODULE ByteQueue ------------------------------
(***************************************************************************)
(* What smart::Buffer promises: a first-in-first-out queue of bytes that   *)
(* accepts as much as fits and reports how much that was.                  *)
(***************************************************************************)
EXTENDS Integers, Sequences

CONSTANTS Limit,    \* the most bytes it holds
          Chunks,   \* the byte strings it is offered
          Sizes     \* the sizes it is asked to cut

VARIABLES bytes,    \* the bytes held, oldest first
          call,     \* the last operation and its arguments
          result    \* what it returned

vars == <<bytes, call, result>>

Room == Limit - Len(bytes)

Called(op, data, size) == call' = [op |-> op, data |-> data, size |-> size]

Init == bytes = << >> /\ call = [op |-> "none", data |-> << >>, size |-> 0] /\ result = 0

Smaller(a, b) == IF a < b THEN a ELSE b

\* The first n bytes of data are appended, the first n bytes are removed.
Put(data, n) == bytes' = bytes \o SubSeq(data, 1, n) /\ result' = n
Drop(n)      == bytes' = SubSeq(bytes, n + 1, Len(bytes)) /\ result' = n

Offer(data) == Called("append", data, 0) /\ Put(data, Smaller(Len(data), Room))
Cut(n)      == Called("cut", << >>, n) /\ Drop(Smaller(n, Len(bytes)))
Clear       == Called("clear", << >>, 0) /\ bytes' = << >> /\ UNCHANGED result

\* A descriptor gives or takes a part of what is possible, or fails. A size of
\* zero asks for everything to be sent.
Receive(data) ==
  /\ Called("append_from_fd", data, 0)
  /\ \E n \in 1 .. Smaller(Len(data), Room) : Put(data, n)

Transmit(size) ==
  /\ Called("cut_into_fd", << >>, size)
  /\ \E n \in 0 .. Len(bytes) : (size = 0 \/ n <= size) /\ Drop(n)

\* A session gives what has been asked of it, or loses bytes before they are here.
ReceiveSsl(data) ==
  /\ Called("append_from_ssl", data, 0)
  /\ \/ \E n \in 1 .. Smaller(Len(data), Room) : Put(data, n)
     \/ UNCHANGED bytes /\ result' = -1

\* It takes the first m bytes; all that were offered leave the queue or, after a
\* failure, none: m tells what has been sent twice, or not at all, in the end.
TransmitSsl(size) ==
  LET all == IF size = 0 THEN Len(bytes) ELSE Smaller(size, Len(bytes))
  IN  \E m \in 0 .. all :
        /\ Called("cut_into_ssl", SubSeq(bytes, 1, m), size)
        /\ \/ bytes' = SubSeq(bytes, all + 1, Len(bytes)) /\ result' = m
           \/ UNCHANGED bytes /\ result' \in IF m = 0 THEN {-1, 0} ELSE {-1}

Fail(op) == Called(op, << >>, 0) /\ UNCHANGED bytes /\ result' \in {-1, 0}

Next ==
  \/ \E data \in Chunks : Offer(data) \/ Receive(data) \/ ReceiveSsl(data)
  \/ \E n \in Sizes : Cut(n) \/ Transmit(n) \/ TransmitSsl(n)
  \/ Clear \/ Fail("append_from_fd") \/ Fail("append_from_ssl") \/ Fail("cut_into_fd")

Spec == Init /\ [][Next]_vars

=============================================================================
