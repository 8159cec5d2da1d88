---------------------------- MODULE SmallServer ----------------------------
(***************************************************************************)
(* The server with one thread (small/tcp_service.cpp): it accepts          *)
(* connections, finds out what they speak, reads, parses, calls the        *)
(* method, and answers when the Control of a request goes.                 *)
(*                                                                         *)
(* Bytes are pieces of requests, reports of gateways and pieces of replies *)
(* as in TcpServer; the buffers do what ByteQueue says. A callback is a    *)
(* sequence of steps between which only clients and the network act. The   *)
(* handshake of an SSL session is a call that returns nothing. A piece of  *)
(* a gateway is a report, which tells of one switch, or part of one; that  *)
(* the length it gives is less than that of its header is left out.        *)
(***************************************************************************)
EXTENDS HttpPieces, FiniteSets, SequencesExt

CONSTANTS
  Clients,     \* each makes one connection, by which it is known here
  Waiting,     \* clients that speak HTTP, well, and wait for answers; others do anything
  Fds,         \* descriptor numbers the process may use
  InSize,      \* pieces an i_buffer holds
  OutSize,     \* pieces an o_buffer holds
  None, Other  \* nobody; what else has a descriptor, like the connection to Redis

ASSUME SmallAssumption ==
  /\ IsFiniteSet(Clients) /\ Fds \subseteq Nat /\ IsFiniteSet(Fds)
  /\ Waiting \subseteq Clients /\ MaxRequests \in Nat
  /\ {InSize, OutSize} \subseteq Nat \ {0}
  /\ None \notin Clients \cup Fds /\ Other \notin Clients \cup {None}

VARIABLES
  \* the kernel and the clients
  speaks,    \* what a client speaks: "plain", "ssl" or "gateway"
  link,      \* "new", "open", "shut" (end of file), "reset", or "refused" by the server
  backlog,   \* connections to be accepted
  sent,      \* all a client has sent
  inbox,     \* what of it has not been read from the descriptor
  received,  \* what a client has received
  fds,       \* the connection behind each descriptor number
  \* TcpService
  conn_map,  \* _conn_map
  running,   \* info: the connection whose callback runs
  step,      \* "full", "read" or "parse": what the callback does next
  deferred,  \* letters a callback of Redis refers to
  called,    \* what has been given to a method (history)
  reports,   \* what SmartService has taken for a report (history)
  \* Connection
  fd,        \* io->fd()
  is_ssl,    \* "unknown", "is" or "not"
  session,   \* decrypted and not yet asked for
  i_buffer,
  o_buffer,
  message    \* _deposited_msg

clients == <<speaks, link, sent, received>>
service == <<conn_map, running, step, deferred, called, reports>>
conn    == <<fd, is_ssl, session, i_buffer, o_buffer, message>>
vars    == <<clients, backlog, inbox, fds, service, conn>>

\* What Controls, and the callbacks of Redis that may order a gateway, have captured.
Letters == [conn : Clients, pieces : Seq(Pieces), order : BOOLEAN]
Replies == [to : Clients, of : Seq(Pieces), part : {"first", "second"}]
Reply(l) == << [to |-> l.conn, of |-> l.pieces, part |-> "first"],
               [to |-> l.conn, of |-> l.pieces, part |-> "second"] >>

Empty == [c \in Clients |-> << >>]

Init ==
  /\ speaks \in [Clients -> {"plain", "ssl", "gateway"}]
  /\ \A c \in Waiting : speaks[c] = "plain"
  /\ link = [c \in Clients |-> "new"]
  /\ backlog = << >>
  /\ sent = Empty /\ inbox = Empty /\ received = Empty
  /\ \E n \in Fds \cup {0} : fds = [f \in Fds |-> IF f <= n THEN Other ELSE None]
  /\ conn_map = [f \in Fds |-> None]
  /\ running = None /\ step = "read"
  /\ deferred = {} /\ called = Empty /\ reports = Empty
  /\ fd = [c \in Clients |-> None]
  /\ is_ssl = [c \in Clients |-> "unknown"]
  /\ session = Empty /\ i_buffer = Empty /\ o_buffer = Empty
  /\ message = [c \in Clients |-> NewMessage]

\* The connections whose IO something keeps alive: the map, the callback that runs,
\* and what Controls and callbacks of Redis have captured.
Referenced ==
  {c \in Clients : \/ running = c
                   \/ \E f \in Fds : conn_map[f] = c
                   \/ \E l \in deferred : l.conn = c}

\* IO::~IO closes the descriptor with the last reference.
Release ==
  fds' = [f \in Fds |-> IF fds[f] \in Referenced' \cup {Other} THEN fds[f] ELSE None]

-----------------------------------------------------------------------------
(* The clients *)

Connect(c) ==
  /\ link[c] = "new"
  /\ link' = [link EXCEPT ![c] = "open"]
  /\ backlog' = Append(backlog, c)
  /\ UNCHANGED <<speaks, sent, received, inbox, fds, service, conn>>

Requests(c) == {sent[c][i].req : i \in 1 .. Len(sent[c])} \ {0}
Answered(c) == {i \in 1 .. Len(received[c]) : received[c][i].part = "second"}
MidRequest(c) == sent[c] # << >> /\ Last(sent[c]) # Rejected /\ ~ Last(sent[c]).last

\* More of a request (or report), which is one piece or one too many for an i_buffer, the
\* first piece of the next one, or once something that is not a request.
NextPieces(c) ==
  LET n == Cardinality(Requests(c))
      pieces == Len(SelectSeq(sent[c], LAMBDA p : p.req = n))
  IN  IF MidRequest(c) THEN {[req |-> n, last |-> pieces = InSize]}
      ELSE {p \in [req : {n + 1}, last : BOOLEAN] :
              n < MaxRequests /\ (c \notin Waiting \/ n <= Cardinality(Answered(c)))}
           \cup {p \in {Rejected} :
                   c \notin Waiting /\ speaks[c] = "plain" /\ p \notin Range(sent[c])}

Send(c) ==
  /\ link[c] = "open"
  /\ \E p \in NextPieces(c) :
       /\ sent' = [sent EXCEPT ![c] = Append(@, p)]
       /\ inbox' = [inbox EXCEPT ![c] = Append(@, p)]
  /\ UNCHANGED <<speaks, link, received, backlog, fds, service, conn>>

\* The client closes its side, or resets the connection.
Finish(c) ==
  /\ link[c] = "open"
  /\ \/ link' = [link EXCEPT ![c] = "shut"] /\ UNCHANGED inbox
     \/ link' = [link EXCEPT ![c] = "reset"] /\ inbox' = [inbox EXCEPT ![c] = << >>]
  /\ UNCHANGED <<speaks, sent, received, backlog, fds, service, conn>>

-----------------------------------------------------------------------------
(* The callback of the listening socket *)

Free == {f \in Fds : fds[f] = None}

\* accept takes the lowest free number. The connection enters the map under it, since
\* no entry outlives its number (Held).
Accept ==
  /\ running = None /\ backlog # << >>
  /\ \E f \in Free :
       /\ \A g \in Free : f <= g
       /\ fds' = [fds EXCEPT ![f] = Head(backlog)]
       /\ fd' = [fd EXCEPT ![Head(backlog)] = f]
       /\ conn_map' = [conn_map EXCEPT ![f] = IF @ = None THEN Head(backlog) ELSE @]
  /\ backlog' = Tail(backlog)
  /\ UNCHANGED <<clients, inbox, running, step, deferred, called, reports,
                 is_ssl, session, i_buffer, o_buffer, message>>

\* Defect: on EMFILE the callback just returns, and the connection stays where it is.
AcceptFullReturns ==
  /\ running = None /\ backlog # << >> /\ Free = {}
  /\ UNCHANGED vars

\* EMFILE: the spare descriptor is given up to accept the connection and close it.
AcceptFull ==
  /\ running = None /\ backlog # << >> /\ Free = {}
  /\ link' = [link EXCEPT ![Head(backlog)] = "refused"]
  /\ inbox' = [inbox EXCEPT ![Head(backlog)] = << >>]
  /\ backlog' = Tail(backlog)
  /\ UNCHANGED <<speaks, sent, received, fds, service, conn>>

-----------------------------------------------------------------------------
(* Answers *)

\* Control::~Control, or the order to a gateway: the reply goes behind what waits in
\* the o_buffer, as far as it fits. cut_into_fd writes what the kernel takes of it.
\* cut_into_ssl, after a failure, drops or keeps all of it. Orders go the first way.
Answer(l) ==
  LET c    == l.conn
      all  == o_buffer[c] \o Reply(l)
      buf  == SubSeq(all, 1, IF Len(all) <= OutSize THEN Len(all) ELSE OutSize)
      peer == fds[fd[c]]
      gone == peer \notin Clients \/ link[peer] \in {"reset", "refused"}
  IN  \E n \in IF gone THEN {0} ELSE 0 .. Len(buf) :
        /\ received' = IF n = 0 THEN received
                       ELSE [received EXCEPT ![peer] = @ \o SubSeq(buf, 1, n)]
        /\ \E rest \in IF is_ssl[c] = "is" /\ ~ l.order THEN {buf, << >>}
                      ELSE {SubSeq(buf, n + 1, Len(buf))} :
             o_buffer' = [o_buffer EXCEPT ![c] = rest]

\* A callback of Redis drops the Control, or has nothing to order.
Resume ==
  /\ running = None
  /\ \E l \in deferred :
       /\ deferred' = deferred \ {l}
       /\ Answer(l) \/ (l.order /\ UNCHANGED <<received, o_buffer>>)
  /\ UNCHANGED <<speaks, link, sent, backlog, inbox, conn_map, running, step, called, reports,
                 fd, is_ssl, session, i_buffer, message>>
  /\ Release

-----------------------------------------------------------------------------
(* The callback of a connection *)

Full(c) == Len(i_buffer[c]) = InSize

\* The event loop sees what waits in the descriptor, not what waits in the session.
Readable(c) == inbox[c] # << >> \/ link[c] \in {"shut", "reset"}

OnRead(c) ==
  /\ running = None /\ \E f \in Fds : conn_map[f] = c
  /\ Readable(c)
  /\ running' = c
  /\ step' = IF Full(c) THEN "full" ELSE "read"
  /\ UNCHANGED <<clients, backlog, inbox, fds, conn_map, deferred, called, reports, conn>>

\* What the pieces look like to the parser: those of a gateway, or of an SSL client that
\* has not been recognised, are noise, and where bytes have been lost, in a session or
\* by SmartService, the rest may be.
Seen(c, ps) ==
  LET Noise(n) == [i \in 1 .. Len(ps) |-> IF i <= n THEN ps[i] ELSE Rejected]
      foreign  == speaks[c] = "gateway" \/ (speaks[c] = "ssl" /\ is_ssl[c] # "is")
  IN  IF speaks[c] = "plain" /\ reports[c] = << >> THEN {ps}
      ELSE {Noise(n) : n \in IF foreign THEN {0} ELSE 0 .. Len(ps)}

\* The method is called. It answers at once, or leaves the Control to Redis.
CallMethod(l) ==
  \/ Answer(l) /\ UNCHANGED deferred
  \/ deferred' = deferred \cup {l} /\ UNCHANGED <<received, o_buffer>>

\* How much is cut: what has been parsed, in one run of the ring or in both.
CutParsed(k, one, ps) == IF one.completed THEN k ELSE Len(ps)

\* parse_http_message: nothing is cut after an error.
ParseHttpMessage ==
  LET c == running
  IN  /\ c # None /\ step \in {"full", "parse"}
      /\ \E ps \in Seen(c, i_buffer[c]) : \E k \in 0 .. Len(ps) :
         \E one \in Executed(message[c], SubSeq(ps, 1, k)) : \E m \in Parsed(ps, k, one) :
           /\ i_buffer' = [i_buffer EXCEPT ![c] = IF m.failed THEN @
                             ELSE SubSeq(@, CutParsed(k, one, ps) + 1, Len(@))]
           /\ IF m.completed /\ ~ m.failed
              THEN /\ message' = [message EXCEPT ![c] = NewMessage]
                   /\ called' = [called EXCEPT ![c] = @ \o m.pieces]
                   /\ CallMethod([conn |-> c, pieces |-> m.pieces, order |-> FALSE])
              ELSE /\ message' = [message EXCEPT ![c] = m]
                   /\ UNCHANGED <<called, deferred, received, o_buffer>>
      /\ running' = IF step = "full" THEN c ELSE None
      /\ step' = "read"
      /\ UNCHANGED <<speaks, link, sent, backlog, inbox, fds, conn_map, reports, fd, is_ssl, session>>

\* recv with MSG_PEEK: whether what is unread begins with EB 90. A request does not, nor
\* the hello of an SSL client, and a report does. The first byte of a report alone is not
\* enough, and the rest of anything may begin so.
Peeked(c) ==
  LET n == Len(sent[c]) - Len(inbox[c])
      p == Head(inbox[c])
      first == n = 0 \/ sent[c][n].req # p.req
  IN  IF inbox[c] = << >> THEN {FALSE}
      ELSE CASE speaks[c] = "plain"   -> IF first /\ p # Rejected THEN {FALSE} ELSE BOOLEAN
             [] speaks[c] = "ssl"     -> IF n = 0 THEN {FALSE} ELSE BOOLEAN
             [] speaks[c] = "gateway" -> IF first /\ p.last THEN {TRUE} ELSE BOOLEAN

\* What append_from_fd takes: as much as there is, and as there is room for.
Taken(c) ==
  LET room == InSize - Len(i_buffer[c])
  IN  IF Len(inbox[c]) <= room THEN Len(inbox[c]) ELSE room

\* Defect: the buffer is not cleared.
ReadGatewayKeeps ==
  LET c == running
      buf == i_buffer[c] \o SubSeq(inbox[c], 1, Taken(c))
  IN  /\ c # None /\ step = "read" /\ TRUE \in Peeked(c)
      /\ inbox' = [inbox EXCEPT ![c] = SubSeq(@, Taken(c) + 1, Len(@))]
      /\ i_buffer' = [i_buffer EXCEPT ![c] = buf]
      /\ reports' = [reports EXCEPT ![c] = Append(@, Head(buf))]
      /\ deferred' \in
           {deferred,
            deferred \cup {[conn |-> c, pieces |-> << Head(buf) >>, order |-> TRUE]}}
      /\ running' = None
      /\ UNCHANGED <<clients, backlog, fds, conn_map, step, called,
                     fd, is_ssl, session, o_buffer, message>>

\* SmartService::parse, for whoever sends EB 90: the descriptor is read, what the buffer
\* begins with is dealt with as a report, unless Redis is not connected, and all of it is
\* dropped.
ReadGateway ==
  LET c == running
      buf == i_buffer[c] \o SubSeq(inbox[c], 1, Taken(c))
  IN  /\ c # None /\ step = "read" /\ TRUE \in Peeked(c)
      /\ inbox' = [inbox EXCEPT ![c] = SubSeq(@, Taken(c) + 1, Len(@))]
      /\ i_buffer' = [i_buffer EXCEPT ![c] = << >>]
      /\ reports' = [reports EXCEPT ![c] = Append(@, Head(buf))]
      /\ deferred' \in
           {deferred,
            deferred \cup {[conn |-> c, pieces |-> << Head(buf) >>, order |-> TRUE]}}
      /\ running' = None
      /\ UNCHANGED <<clients, backlog, fds, conn_map, step, called,
                     fd, is_ssl, session, o_buffer, message>>

\* rpc::is_ssl looks at the first six bytes, once. Fewer are taken for plain text.
Checked(c) ==
  IF is_ssl[c] # "unknown" THEN {is_ssl[c]}
  ELSE IF speaks[c] = "ssl" /\ inbox[c] # << >> THEN {"is", "not"} ELSE {"not"}

\* Defect: when the client has closed its side, what it sent before is not read.
ReadPlainOpen ==
  LET c == running
      n == Taken(c)
  IN  /\ c # None /\ step = "read" /\ FALSE \in Peeked(c) /\ "not" \in Checked(c)
      /\ ~ Full(c) /\ inbox[c] # << >>
      /\ is_ssl' = [is_ssl EXCEPT ![c] = "not"]
      /\ i_buffer' = IF link[c] = "shut" THEN i_buffer
                     ELSE [i_buffer EXCEPT ![c] = @ \o SubSeq(inbox[c], 1, n)]
      /\ inbox' = [inbox EXCEPT ![c] = SubSeq(@, n + 1, Len(@))]
      /\ step' = "parse"
      /\ UNCHANGED <<clients, backlog, fds, conn_map, running, deferred, called, reports,
                     fd, session, o_buffer, message>>

\* append_from_fd with data.
ReadPlain ==
  LET c == running
      n == Taken(c)
  IN  /\ c # None /\ step = "read" /\ FALSE \in Peeked(c) /\ "not" \in Checked(c)
      /\ ~ Full(c) /\ inbox[c] # << >>
      /\ is_ssl' = [is_ssl EXCEPT ![c] = "not"]
      /\ i_buffer' = [i_buffer EXCEPT ![c] = @ \o SubSeq(inbox[c], 1, n)]
      /\ inbox' = [inbox EXCEPT ![c] = SubSeq(@, n + 1, Len(@))]
      /\ step' = "parse"
      /\ UNCHANGED <<clients, backlog, fds, conn_map, running, deferred, called, reports,
                     fd, session, o_buffer, message>>

\* append_from_ssl: the session takes k pieces from the descriptor and gives out n.
\* They are in the buffer, or lost with a second SSL_read that fails. After a success
\* ssl_error is whatever was on the stack, so the callback may return without parsing.
\* At the end of file SSL_read fails (ReadEnd).
ReadSsl ==
  LET c == running
  IN  /\ c # None /\ speaks[c] = "ssl" /\ step = "read"
      /\ FALSE \in Peeked(c) /\ "is" \in Checked(c)
      /\ inbox[c] # << >> \/ session[c] # << >> \/ Full(c)
      /\ is_ssl' = [is_ssl EXCEPT ![c] = "is"]
      /\ \E k \in 0 .. Len(inbox[c]) :
           LET held == session[c] \o SubSeq(inbox[c], 1, k)
           IN  \E n \in 0 .. Len(held) :
                 /\ Len(i_buffer[c]) + n <= InSize
                 /\ inbox' = [inbox EXCEPT ![c] = SubSeq(@, k + 1, Len(@))]
                 /\ session' = [session EXCEPT ![c] = SubSeq(held, n + 1, Len(held))]
                 /\ \/ /\ n > 0
                       /\ i_buffer' = [i_buffer EXCEPT ![c] = @ \o SubSeq(held, 1, n)]
                       /\ \/ step' = "parse" /\ UNCHANGED running
                          \/ running' = None /\ UNCHANGED step
                    \/ running' = None /\ UNCHANGED <<step, i_buffer>>
      /\ UNCHANGED <<clients, backlog, fds, conn_map, deferred, called, reports, fd, o_buffer, message>>

\* Defect: the descriptor is closed while Controls may still use it.
ReadEndCloses ==
  LET c == running
  IN  /\ c # None /\ step = "read" /\ FALSE \in Peeked(c)
      /\ \E s \in Checked(c) :
           /\ s = "is" \/ Full(c) \/ (inbox[c] = << >> /\ link[c] # "open")
           /\ is_ssl' = [is_ssl EXCEPT ![c] = s]
      /\ conn_map' = [conn_map EXCEPT ![fd[c]] = None]
      /\ running' = None
      /\ fds' = [fds EXCEPT ![fd[c]] = None]
      /\ UNCHANGED <<clients, backlog, inbox, step, deferred, called, reports,
                     fd, session, i_buffer, o_buffer, message>>

\* nread <= 0: end of file, an error, or no room. A session may fail at any time.
ReadEnd ==
  LET c == running
  IN  /\ c # None /\ step = "read" /\ FALSE \in Peeked(c)
      /\ \E s \in Checked(c) :
           /\ s = "is" \/ Full(c) \/ (inbox[c] = << >> /\ link[c] # "open")
           /\ is_ssl' = [is_ssl EXCEPT ![c] = s]
      /\ conn_map' = [conn_map EXCEPT ![fd[c]] = None]
      /\ running' = None
      /\ UNCHANGED <<clients, backlog, inbox, step, deferred, called, reports,
                     fd, session, i_buffer, o_buffer, message>>
      /\ Release

-----------------------------------------------------------------------------
Callback == ParseHttpMessage \/ ReadGateway \/ ReadPlain \/ ReadSsl \/ ReadEnd

Next ==
  \/ \E c \in Clients : Connect(c) \/ Send(c) \/ Finish(c) \/ OnRead(c)
  \/ Accept \/ AcceptFull \/ Resume
  \/ Callback

Spec == Init /\ [][Next]_vars

\* A callback ends, and every iteration of ev_run calls back each descriptor that is
\* ready, however often others are. Nothing is assumed of clients and Redis.
FairSpec ==
  /\ Spec /\ WF_vars(Callback) /\ SF_vars(Accept \/ AcceptFull)
  /\ \A c \in Clients : SF_vars(OnRead(c))

-----------------------------------------------------------------------------
TypeOK ==
  /\ speaks \in [Clients -> {"plain", "ssl", "gateway"}]
  /\ link \in [Clients -> {"new", "open", "shut", "reset", "refused"}]
  /\ backlog \in Seq(Clients)
  /\ sent \in [Clients -> Seq(Pieces)] /\ inbox \in [Clients -> Seq(Pieces)]
  /\ session \in [Clients -> Seq(Pieces)] /\ i_buffer \in [Clients -> Seq(Pieces)]
  /\ called \in [Clients -> Seq(Pieces)] /\ reports \in [Clients -> Seq(Pieces)]
  /\ received \in [Clients -> Seq(Replies)] /\ o_buffer \in [Clients -> Seq(Replies)]
  /\ fds \in [Fds -> Clients \cup {None, Other}] /\ conn_map \in [Fds -> Clients \cup {None}]
  /\ fd \in [Clients -> Fds \cup {None}]
  /\ running \in Clients \cup {None} /\ step \in {"full", "read", "parse"}
  /\ deferred \subseteq Letters
  /\ is_ssl \in [Clients -> {"unknown", "is", "not"}]
  /\ message \in [Clients -> Messages]
  /\ \A c \in Clients : Len(i_buffer[c]) <= InSize /\ Len(o_buffer[c]) <= OutSize

\* An answer that Redis delays goes to the client that asked or to nobody, although
\* its connection has left the map and others have been accepted or refused since.
RepliesToTheirClient ==
  \A c \in Clients : \A i \in 1 .. Len(received[c]) : received[c][i].to = c

\* Where a client's input is on its way to a method.
OnItsWay(c) ==
  called[c] \o (IF message[c].failed THEN << >> ELSE message[c].pieces)
    \o i_buffer[c] \o session[c] \o inbox[c]

\* As long as no unread rest of what a plain client sends has been taken for a report,
\* nothing of it is lost, repeated or reordered, wherever the reads, the end of the ring
\* and the parser cut it.
PlainAccounted ==
  \A c \in Clients :
    /\ speaks[c] = "plain" /\ reports[c] = << >>
    /\ link[c] \notin {"reset", "refused"} /\ ~ message[c].failed
    => OnItsWay(c) = sent[c]

\* w is what is left of s when some of its pieces are left out.
Subsequence(w, s) ==
  \E at \in [1 .. Len(w) -> 1 .. Len(s)] :
    \A i \in 1 .. Len(w) : w[i] = s[at[i]] /\ \A j \in 1 .. i - 1 : at[j] < at[i]

\* Whatever is lost, by SmartService, in a session, with an error or a reset, no method
\* is called with a piece twice or before one that was sent earlier, whatever kind the
\* client is taken for; and outside of sessions neither is SmartService.
InputAccounted ==
  \A c \in Clients :
    /\ Subsequence(OnItsWay(c), sent[c])
    /\ speaks[c] # "ssl" => Subsequence(reports[c] \o i_buffer[c] \o inbox[c], sent[c])

\* What something refers to is open, under the number its IO has.
Held == \A c \in Referenced : fd[c] \in Fds /\ fds[fd[c]] = c

\* An open number, or a key of the map, is the number of its connection. A connection
\* that has not been accepted has no number, and is in the backlog once.
Numbers ==
  /\ \A f \in Fds : fds[f] \in Clients => fd[fds[f]] = f
  /\ \A f \in Fds : conn_map[f] # None => fd[conn_map[f]] = f
  /\ \A i, j \in 1 .. Len(backlog) : backlog[i] = backlog[j] => i = j
  /\ \A i \in 1 .. Len(backlog) : fd[backlog[i]] = None /\ link[backlog[i]] # "new"
  /\ \A c \in Clients : link[c] = "new" => fd[c] = None

\* Buffers hold replies of their own connection.
OwnReplies ==
  \A c \in Clients : \A i \in 1 .. Len(o_buffer[c]) : o_buffer[c][i].to = c

\* Only SSL clients have sessions.
OwnSessions == \A c \in Clients : speaks[c] # "ssl" => session[c] = << >>

\* The invariant of the proofs: references, numbers, buffers and input.
IInv ==
  TypeOK /\ Held /\ Numbers /\ OwnReplies /\ RepliesToTheirClient /\ OwnSessions /\ PlainAccounted

\* Who connects is accepted or, when there is no descriptor left, turned away: the
\* backlog always gets empty again, whatever the accepted connections do.
BacklogServed == []<>(backlog = << >>)

Mapped(c) == \E f \in Fds : conn_map[f] = c

\* A complete request of a plain client that waits for its answers reaches its method,
\* also when it does not fit the buffer, or the end of file is right behind it, unless a
\* read that found the rest of its body to begin with EB 90 took that for a report.
RequestsCalled ==
  \A c \in Waiting :
    (Mapped(c) /\ sent[c] # << >> /\ Last(sent[c]).last)
      ~> (called[c] = sent[c] \/ reports[c] # << >> \/ link[c] = "reset")

=============================================================================
