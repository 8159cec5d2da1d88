----------------------------- MODULE HttpPieces -----------------------------
(***************************************************************************)
(* HttpMessage as the servers use it: which part of a stream of requests   *)
(* parse accepts and where it stops. A request comes in one or two pieces. *)
(* What the fields of a message are is in HttpMessage.                     *)
(***************************************************************************)
EXTENDS Integers, Sequences

CONSTANT MaxRequests   \* requests per client (a bound on the load)

\* A piece of request n, the last one or not. Request 0 is malformed input.
Pieces == [req : 0 .. MaxRequests, last : BOOLEAN]
Rejected == [req |-> 0, last |-> FALSE]

Messages == [pieces : Seq(Pieces), completed : BOOLEAN, failed : BOOLEAN]

\* A new HttpMessage: nothing parsed, not completed(), no http_errno.
NewMessage == [pieces |-> << >>, completed |-> FALSE, failed |-> FALSE]

\* How many pieces the parser accepts: all, or those before the first it rejects.
Accepted(ps) ==
  {n \in 0 .. Len(ps) : /\ \A i \in 1 .. n : ps[i] # Rejected
                        /\ n < Len(ps) => ps[n + 1] = Rejected}

\* http_parser_execute over some pieces. The callbacks append to the message also
\* when it has been complete before, since on_message_begin only resets the stage. It
\* does so too when what follows a complete request begins like one and is rejected
\* later. After an error nothing more is parsed.
Executed(m, ps) ==
  LET Stopped(n, done) == [pieces    |-> m.pieces \o SubSeq(ps, 1, n),
                           completed |-> done,
                           failed    |-> n < Len(ps)]
  IN  IF m.failed THEN {m}
      ELSE {Stopped(n, IF n = 0 THEN m.completed ELSE ps[n].last) : n \in Accepted(ps)}
           \cup {Stopped(n, FALSE) : n \in Accepted(ps) \ {Len(ps)}}

\* HttpMessage::parse. The content of the buffer comes in one or two runs (the first
\* k pieces, and the rest), and the second is not parsed when the first one has
\* completed the message or failed.
Parsed(buf, k, one) ==
  IF one.failed \/ one.completed THEN {one} ELSE Executed(one, SubSeq(buf, k + 1, Len(buf)))

=============================================================================
