----------------------------- MODULE TcpServer -----------------------------
(***************************************************************************)
(* The life of a connection in the multi-threaded server: TcpService       *)
(* accepts it (service/tcp_service.cpp), a TcpReader reads and parses its  *)
(* requests (service/tcp_reader.cpp), workers answer them when the Control *)
(* of a request is destroyed (service/service.h).                          *)
(*                                                                         *)
(* A Connection is shared: by the queue, the map of its reader, letters    *)
(* and Controls. Its descriptor is closed when the last of them has gone,  *)
(* and the kernel then gives the number to the next connection.            *)
(*                                                                         *)
(* Bytes are pieces of requests and of replies. A reply has two pieces,    *)
(* because set_response appends it bit by bit. The queues are atomic       *)
(* (MPMCQueue), the wake-up of the workers is in ServicePool.              *)
(***************************************************************************)
EXTENDS HttpPieces, FiniteSets, SequencesExt

CONSTANTS
  Clients,     \* each makes one connection, by which it is known here
  Readers,     \* the threads of TcpReaderPool
  Workers,     \* the threads of ServicePool
  Fds,         \* descriptor numbers the process may use for connections
  Hasty,       \* clients that do not wait for answers and may send malformed input
  InSize,      \* pieces an i_buffer holds
  OutSize,     \* pieces an o_buffer holds
  QueueSize,   \* connections, and letters, a queue holds
  None

ASSUME ServerAssumption ==
  /\ IsFiniteSet(Clients) /\ IsFiniteSet(Readers) /\ IsFiniteSet(Workers)
  /\ Fds \subseteq Nat /\ IsFiniteSet(Fds)
  /\ Hasty \subseteq Clients /\ MaxRequests \in Nat
  /\ {InSize, OutSize, QueueSize} \subseteq Nat \ {0}
  /\ None \notin Clients \cup Fds

VARIABLES
  \* the kernel and the clients
  link,      \* "new", "open", "shut" (end of file) or "reset"
  sent,      \* all a client has sent
  inbox,     \* what of it the server has not read
  received,  \* what a client has received
  fds,       \* the connection behind each descriptor number
  \* TcpService and TcpReaderPool
  fd,        \* io->fd() of each connection
  accepting, \* the connection in the acceptor's hands
  queue,     \* _connections
  signal,    \* the counter of the pool's eventfd
  \* TcpReader
  todo,      \* connections a reader still means to pop
  missed,    \* some pop has returned false on a non-empty queue (history)
  conn_map,  \* _conn_map
  reading,   \* the connection whose callback runs
  i_buffer,
  message,   \* _deposited_msg
  handed,    \* pieces given to ServicePool::send (history)
  \* ServicePool and Control
  letters,   \* the queue of letters
  serving,   \* the letter a worker has in its hands
  phase,     \* "idle", "call", "answer", "write" or "store"
  written,   \* what writev has returned, until the worker stores _read_index
  deferred,  \* letters whose Control waits for Redis, per worker
  o_buffer,
  overlapped \* connections two workers have answered at the same time (history)

clients == <<link, sent, inbox>>
pool    == <<fd, accepting, queue, signal>>
readers == <<todo, missed, conn_map, reading, i_buffer, message, handed>>
workers == <<serving, phase, written, deferred, o_buffer, overlapped>>
vars    == <<clients, received, fds, pool, readers, letters, workers>>

-----------------------------------------------------------------------------
(* Letters and replies *)

Letters  == [conn : Clients, pieces : Seq(Pieces)]
Replies  == [to : Clients \cup {None}, of : Seq(Pieces), part : {"first", "second", "stray"}]
Reply(l, part) == [to |-> l.conn, of |-> l.pieces, part |-> part]

\* Whatever lies in the memory of a ring outside what has been appended.
Stray == [to |-> None, of |-> << >>, part |-> "stray"]

\* Defect: only the first run is cut, also when the second has been parsed.
CutFirst(buf, k, one) == k

\* How much of the buffer the caller cuts: what has been parsed, and all of it
\* after an error, since cut takes the -1 for a very large size.
Cut(buf, k, one) == IF one.completed /\ ~ one.failed THEN k ELSE Len(buf)

-----------------------------------------------------------------------------
(* References *)

\* The connections whose IO something keeps alive. The callback that runs keeps the
\* IO, not the Connection (Loop::ev_io_common_cb locks the weak reference).
Referenced ==
  {c \in Clients :
     \/ accepting = c \/ c \in Range(queue)
     \/ \E r \in Readers : reading[r] = c \/ \E f \in Fds : conn_map[r][f] = c
     \/ \E i \in 1 .. Len(letters) : letters[i].conn = c
     \/ \E w \in Workers : \/ phase[w] # "idle" /\ serving[w].conn = c
                           \/ \E l \in deferred[w] : l.conn = c}

\* IO::~IO closes the descriptor with the last reference.
Release ==
  fds' = [f \in Fds |-> IF fds[f] \in Referenced' THEN fds[f] ELSE None]

Init ==
  /\ link = [c \in Clients |-> "new"]
  /\ sent = [c \in Clients |-> << >>]
  /\ inbox = sent /\ received = sent
  /\ fds = [f \in Fds |-> None]
  /\ fd = [c \in Clients |-> None]
  /\ accepting = None /\ queue = << >> /\ signal = 0
  /\ todo = [r \in Readers |-> 0] /\ missed = FALSE
  /\ conn_map = [r \in Readers |-> [f \in Fds |-> None]]
  /\ reading = [r \in Readers |-> None]
  /\ i_buffer = sent
  /\ message = [c \in Clients |-> NewMessage]
  /\ handed = sent
  /\ letters = << >>
  /\ serving = [w \in Workers |-> None]
  /\ phase = [w \in Workers |-> "idle"]
  /\ written = [w \in Workers |-> 0]
  /\ deferred = [w \in Workers |-> {}]
  /\ o_buffer = sent
  /\ overlapped = {}

-----------------------------------------------------------------------------
(* The clients *)

Connect(c) ==
  /\ link[c] = "new"
  /\ link' = [link EXCEPT ![c] = "open"]
  /\ UNCHANGED <<sent, inbox, received, fds, pool, readers, letters, workers>>

Requests(c) == {sent[c][i].req : i \in 1 .. Len(sent[c])} \ {0}
Answered(c) == {i \in 1 .. Len(received[c]) : received[c][i].part = "second"}
MidRequest(c) == sent[c] # << >> /\ Last(sent[c]) # Rejected /\ ~ Last(sent[c]).last

\* The pieces a client may send next: the rest of its request, the first or only
\* piece of the next one, or once something that is not a request.
NextPieces(c) ==
  LET n == Cardinality(Requests(c))
  IN  IF MidRequest(c) THEN {[req |-> n, last |-> TRUE]}
      ELSE {[req |-> n + 1, last |-> b] : b \in
              IF n < MaxRequests /\ (c \in Hasty \/ n <= Cardinality(Answered(c)))
              THEN BOOLEAN ELSE {}}
           \cup (IF c \in Hasty /\ Rejected \notin Range(sent[c]) THEN {Rejected} ELSE {})

Send(c) ==
  /\ link[c] = "open"
  /\ \E p \in NextPieces(c) :
       /\ sent' = [sent EXCEPT ![c] = Append(@, p)]
       /\ inbox' = [inbox EXCEPT ![c] = Append(@, p)]
  /\ UNCHANGED <<link, received, fds, pool, readers, letters, workers>>

\* The client closes its side, or resets the connection.
Finish(c) ==
  /\ link[c] = "open"
  /\ \/ link' = [link EXCEPT ![c] = "shut"] /\ UNCHANGED inbox
     \/ link' = [link EXCEPT ![c] = "reset"] /\ inbox' = [inbox EXCEPT ![c] = << >>]
  /\ UNCHANGED <<sent, received, fds, pool, readers, letters, workers>>

-----------------------------------------------------------------------------
(* TcpService: the callback of the listening socket *)

\* accept takes the lowest free number. TcpReaderPool::push ignores the result of
\* sp_push and counts the connection all the same. Without a free number the
\* callback tries again and again (EMFILE).
Accept(c) ==
  /\ link[c] # "new" /\ fd[c] = None /\ accepting = None
  /\ \E f \in Fds :
       /\ fds[f] = None /\ \A g \in Fds : fds[g] = None => f <= g
       /\ fds' = [fds EXCEPT ![f] = c]
       /\ fd' = [fd EXCEPT ![c] = f]
  /\ accepting' = c
  /\ queue' = IF Len(queue) < QueueSize THEN Append(queue, c) ELSE queue
  /\ signal' = signal + 1
  /\ UNCHANGED <<clients, received, readers, letters, workers>>

\* The end of the iteration: info goes out of scope.
AcceptNext ==
  /\ accepting # None
  /\ accepting' = None
  /\ UNCHANGED <<clients, received, fd, queue, signal, readers, letters, workers>>
  /\ Release

-----------------------------------------------------------------------------
(* TcpReader: the callback of the queue's eventfd *)

Idle(r) == reading[r] = None /\ todo[r] = 0

\* Defect: one connection per wake-up.
ReadSignalOnce(r) ==
  /\ Idle(r) /\ signal > 0
  /\ todo' = [todo EXCEPT ![r] = 1]
  /\ signal' = 0
  /\ UNCHANGED <<clients, received, fds, fd, accepting, queue, missed,
                 conn_map, reading, i_buffer, message, handed, letters, workers>>

ReadSignal(r) ==
  /\ Idle(r) /\ signal > 0
  /\ todo' = [todo EXCEPT ![r] = signal]
  /\ signal' = 0
  /\ UNCHANGED <<clients, received, fds, fd, accepting, queue, missed,
                 conn_map, reading, i_buffer, message, handed, letters, workers>>

\* One turn of the loop: pop, and enter the connection under its descriptor.
\* emplace leaves an entry that is there already, and the new one is dropped.
Take(r) ==
  LET c == Head(queue)
  IN  /\ todo[r] > 0 /\ queue # << >>
      /\ todo' = [todo EXCEPT ![r] = @ - 1]
      /\ queue' = Tail(queue)
      /\ conn_map' = [conn_map EXCEPT ![r][fd[c]] = IF @ = None THEN c ELSE @]
      /\ UNCHANGED <<clients, received, fd, accepting, signal, missed,
                     reading, i_buffer, message, handed, letters, workers>>
      /\ Release

\* pop returns false: the queue is empty, or other readers have popped, and the ring
\* has been filled, since this one loaded _read_index (ServicePool counts how often).
\* "break" forgets the remaining count.
TakeMiss(r) ==
  /\ todo[r] > 0
  /\ queue = << >> \/ Readers \ {r} # {}
  /\ todo' = [todo EXCEPT ![r] = 0]
  /\ missed' = (missed \/ queue # << >>)
  /\ UNCHANGED <<clients, received, fds, pool, conn_map,
                 reading, i_buffer, message, handed, letters, workers>>

-----------------------------------------------------------------------------
(* TcpReader: the callback of a connection *)

Readable(c) == inbox[c] # << >> \/ link[c] \in {"shut", "reset"}

\* The event loop finds the descriptor of a connection readable.
ReadEvent(r) ==
  /\ Idle(r)
  /\ \E f \in Fds :
       /\ conn_map[r][f] # None /\ Readable(conn_map[r][f])
       /\ reading' = [reading EXCEPT ![r] = conn_map[r][f]]
  /\ UNCHANGED <<clients, received, fds, pool,
                 todo, missed, conn_map, i_buffer, message, handed, letters, workers>>

Full(c) == Len(i_buffer[c]) = InSize

\* append_from_fd with data: as much as there is, and as there is room for.
ReadSome(r) ==
  LET c == reading[r]
      n == IF Len(inbox[c]) <= InSize - Len(i_buffer[c])
           THEN Len(inbox[c]) ELSE InSize - Len(i_buffer[c])
  IN  /\ c # None /\ ~ Full(c) /\ inbox[c] # << >>
      /\ i_buffer' = [i_buffer EXCEPT ![c] = @ \o SubSeq(inbox[c], 1, n)]
      /\ inbox' = [inbox EXCEPT ![c] = SubSeq(@, n + 1, Len(@))]
      /\ UNCHANGED <<link, sent, received, fds, pool,
                     todo, missed, conn_map, reading, message, handed, letters, workers>>

\* Defect: the callback returns on EAGAIN without parsing.
ReadAgainLater(r) ==
  LET c == reading[r]
  IN  /\ c # None /\ ~ Full(c) /\ inbox[c] = << >> /\ link[c] = "open"
      /\ reading' = [reading EXCEPT ![r] = None]
      /\ UNCHANGED <<clients, received, fds, pool, todo, missed, conn_map,
                     i_buffer, message, handed, letters, workers>>

\* append_from_fd returns -1 with EAGAIN: parse, and send a complete message as
\* a letter. send ignores the result of push.
ReadAgain(r) ==
  LET c == reading[r]
  IN  /\ c # None /\ ~ Full(c) /\ inbox[c] = << >> /\ link[c] = "open"
      /\ \E k \in 0 .. Len(i_buffer[c]) :
         \E one \in Executed(message[c], SubSeq(i_buffer[c], 1, k)) :
         \E m \in Parsed(i_buffer[c], k, one) :
           /\ i_buffer' = [i_buffer EXCEPT ![c] =
                             SubSeq(@, Cut(@, k, one) + 1, Len(@))]
           /\ IF m.completed
              THEN /\ message' = [message EXCEPT ![c] = NewMessage]
                   /\ handed' = [handed EXCEPT ![c] = @ \o m.pieces]
                   /\ letters' = IF Len(letters) < QueueSize
                                 THEN Append(letters, [conn |-> c, pieces |-> m.pieces])
                                 ELSE letters
              ELSE /\ message' = [message EXCEPT ![c] = m]
                   /\ UNCHANGED <<handed, letters>>
      /\ reading' = [reading EXCEPT ![r] = None]
      /\ UNCHANGED <<clients, received, fds, pool, todo, missed, conn_map, workers>>

\* Defects: the descriptor is closed at once, or the connection stays.
ReadEndCloses(r) ==
  LET c == reading[r]
  IN  /\ c # None
      /\ Full(c) \/ (inbox[c] = << >> /\ link[c] # "open")
      /\ conn_map' = [conn_map EXCEPT ![r][fd[c]] = None]
      /\ reading' = [reading EXCEPT ![r] = None]
      /\ fds' = [fds EXCEPT ![fd[c]] = None]
      /\ UNCHANGED <<clients, received, pool,
                     todo, missed, i_buffer, message, handed, letters, workers>>

ReadEndStays(r) ==
  LET c == reading[r]
  IN  /\ c # None
      /\ Full(c) \/ (inbox[c] = << >> /\ link[c] # "open")
      /\ reading' = [reading EXCEPT ![r] = None]
      /\ UNCHANGED <<clients, received, fds, pool, conn_map,
                     todo, missed, i_buffer, message, handed, letters, workers>>

\* append_from_fd returns 0 (end of file, or no room), or an error: the connection
\* leaves the map with what was read and not parsed.
ReadEnd(r) ==
  LET c == reading[r]
  IN  /\ c # None
      /\ Full(c) \/ (inbox[c] = << >> /\ link[c] # "open")
      /\ conn_map' = [conn_map EXCEPT ![r][fd[c]] = None]
      /\ reading' = [reading EXCEPT ![r] = None]
      /\ UNCHANGED <<clients, received, pool,
                     todo, missed, i_buffer, message, handed, letters, workers>>
      /\ Release

-----------------------------------------------------------------------------
(* ServProc: the call of the method, and Control::~Control *)

\* Defect: the letter is copied, and stays in the queue.
CopyLetter(w) ==
  /\ phase[w] = "idle" /\ letters # << >>
  /\ serving' = [serving EXCEPT ![w] = Head(letters)]
  /\ phase' = [phase EXCEPT ![w] = "call"]
  /\ UNCHANGED <<clients, received, fds, pool, readers, letters,
                 written, deferred, o_buffer, overlapped>>

TakeLetter(w) ==
  /\ phase[w] = "idle" /\ letters # << >>
  /\ serving' = [serving EXCEPT ![w] = Head(letters)]
  /\ letters' = Tail(letters)
  /\ phase' = [phase EXCEPT ![w] = "call"]
  /\ UNCHANGED <<clients, received, fds, pool, readers,
                 written, deferred, o_buffer, overlapped>>

\* From here a worker uses the o_buffer of c, until it has stored _read_index.
Storing(w, c)   == phase[w] = "store" /\ serving[w].conn = c
Answering(w, c) == phase[w] \in {"answer", "write", "store"} /\ serving[w].conn = c

Answer(w, c) ==
  /\ phase' = [phase EXCEPT ![w] = "answer"]
  /\ overlapped' = overlapped \cup
       (IF \E v \in Workers \ {w} : Answering(v, c) THEN {c} ELSE {})

\* The method has returned, and nothing else refers to the Control ...
Return(w) ==
  /\ phase[w] = "call"
  /\ Answer(w, serving[w].conn)
  /\ UNCHANGED <<clients, received, fds, pool, readers, letters,
                 serving, written, deferred, o_buffer>>

\* ... or a callback of Redis does,
Defer(w) ==
  /\ phase[w] = "call"
  /\ deferred' = [deferred EXCEPT ![w] = @ \cup {serving[w]}]
  /\ serving' = [serving EXCEPT ![w] = None]
  /\ phase' = [phase EXCEPT ![w] = "idle"]
  /\ UNCHANGED <<clients, received, fds, pool, readers, letters,
                 written, o_buffer, overlapped>>

\* ... which runs later in the same thread and drops it.
Resume(w) ==
  /\ phase[w] = "idle"
  /\ \E l \in deferred[w] :
       /\ deferred' = [deferred EXCEPT ![w] = @ \ {l}]
       /\ serving' = [serving EXCEPT ![w] = l]
       /\ Answer(w, l.conn)
  /\ UNCHANGED <<clients, received, fds, pool, readers, letters, written, o_buffer>>

\* What append leaves in an o_buffer: what does not fit is left out. When another
\* worker appends to it at the same time (a data race), the new bytes may be lost or
\* lie over the last ones.
Appended(w, c, piece) ==
  LET buf == o_buffer[c]
      put == IF Len(buf) < OutSize THEN Append(buf, piece) ELSE buf
  IN  IF \E v \in Workers \ {w} : Answering(v, c) /\ ~ Storing(v, c)
      THEN {put, buf} \cup (IF buf = << >> THEN {} ELSE {[buf EXCEPT ![Len(buf)] = piece]})
      ELSE {put}

\* Control::~Control: set_response appends status line and headers ...
SetResponse(w) ==
  /\ phase[w] = "answer"
  /\ \E buf \in Appended(w, serving[w].conn, Reply(serving[w], "first")) :
       o_buffer' = [o_buffer EXCEPT ![serving[w].conn] = buf]
  /\ phase' = [phase EXCEPT ![w] = "write"]
  /\ UNCHANGED <<clients, received, fds, pool, readers, letters,
                 serving, written, deferred, overlapped>>

\* ... and the content; cut_into_fd writes to whoever is behind the descriptor as
\* much as the kernel takes. Nothing writes the rest before the next reply does.
CutIntoFd(w) ==
  LET c == serving[w].conn
      peer == fds[fd[c]]
  IN  /\ phase[w] = "write"
      /\ \E buf \in Appended(w, c, Reply(serving[w], "second")) :
           \E n \in IF peer = None \/ link[peer] = "reset" THEN {0} ELSE 0 .. Len(buf) :
             /\ o_buffer' = [o_buffer EXCEPT ![c] = buf]
             /\ received' = IF n = 0 THEN received
                            ELSE [received EXCEPT ![peer] = @ \o SubSeq(buf, 1, n)]
             /\ written' = [written EXCEPT ![w] = n]
      /\ phase' = [phase EXCEPT ![w] = "store"]
      /\ UNCHANGED <<clients, fds, pool, readers, letters, serving, deferred, overlapped>>

\* The ring after _read_index has advanced by n. Beyond the write index it comes round
\* to what is then nearly a whole ring of bytes nobody has appended.
Advanced(buf, n) ==
  IF n <= Len(buf) THEN SubSeq(buf, n + 1, Len(buf))
  ELSE [i \in 1 .. OutSize + 1 + Len(buf) - n |-> Stray]

\* Defect: what has been written stays in the buffer.
KeepIndex(w) ==
  /\ phase[w] = "store"
  /\ written' = [written EXCEPT ![w] = 0]
  /\ serving' = [serving EXCEPT ![w] = None]
  /\ phase' = [phase EXCEPT ![w] = "idle"]
  /\ UNCHANGED <<clients, received, pool, readers, letters, deferred, o_buffer, overlapped>>
  /\ Release

\* The client may have received all of the reply, and asked again, before cut_into_fd
\* adds ret to _read_index. Of two workers that do so at the same time one may undo what
\* the other has stored. Then the Control and its letter are gone.
StoreIndex(w) ==
  LET c == serving[w].conn
      racing == \E v \in Workers \ {w} : Storing(v, c) /\ written[v] > 0
  IN  /\ phase[w] = "store"
      /\ \E buf \in {Advanced(o_buffer[c], written[w])} \cup
                    (IF racing THEN {o_buffer[c]} ELSE {}) :
           o_buffer' = [o_buffer EXCEPT ![c] = buf]
      /\ written' = [written EXCEPT ![w] = 0]
      /\ serving' = [serving EXCEPT ![w] = None]
      /\ phase' = [phase EXCEPT ![w] = "idle"]
      /\ UNCHANGED <<clients, received, pool, readers, letters, deferred, overlapped>>
      /\ Release

-----------------------------------------------------------------------------
Reader(r) ==
  \/ ReadSignal(r) \/ Take(r) \/ TakeMiss(r)
  \/ ReadEvent(r) \/ ReadSome(r) \/ ReadAgain(r) \/ ReadEnd(r)

Worker(w) ==
  \/ TakeLetter(w) \/ Return(w) \/ Defer(w) \/ Resume(w)
  \/ SetResponse(w) \/ CutIntoFd(w) \/ StoreIndex(w)

Next ==
  \/ \E c \in Clients : Connect(c) \/ Send(c) \/ Finish(c) \/ Accept(c)
  \/ AcceptNext
  \/ \E r \in Readers : Reader(r)
  \/ \E w \in Workers : Worker(w)

Spec == Init /\ [][Next]_vars

\* The acceptor finishes its iteration, and the loop of a reader goes on as long
\* as there is something to do. Nothing is assumed of clients, workers and Redis.
FairSpec == Spec /\ WF_vars(AcceptNext) /\ \A r \in Readers : WF_vars(Reader(r))

-----------------------------------------------------------------------------
TypeOK ==
  /\ link \in [Clients -> {"new", "open", "shut", "reset"}]
  /\ sent \in [Clients -> Seq(Pieces)] /\ inbox \in [Clients -> Seq(Pieces)]
  /\ i_buffer \in [Clients -> Seq(Pieces)] /\ handed \in [Clients -> Seq(Pieces)]
  /\ received \in [Clients -> Seq(Replies)] /\ o_buffer \in [Clients -> Seq(Replies)]
  /\ fds \in [Fds -> Clients \cup {None}]
  /\ fd \in [Clients -> Fds \cup {None}]
  /\ accepting \in Clients \cup {None} /\ queue \in Seq(Clients) /\ signal \in Nat
  /\ todo \in [Readers -> Nat] /\ missed \in BOOLEAN
  /\ conn_map \in [Readers -> [Fds -> Clients \cup {None}]]
  /\ reading \in [Readers -> Clients \cup {None}]
  /\ message \in [Clients -> Messages]
  /\ letters \in Seq(Letters)
  /\ serving \in [Workers -> Letters \cup {None}]
  /\ phase \in [Workers -> {"idle", "call", "answer", "write", "store"}]
  /\ written \in [Workers -> 0 .. OutSize]
  /\ \A w \in Workers : phase[w] # "idle" => serving[w] \in Letters
  /\ deferred \in [Workers -> SUBSET Letters] /\ overlapped \subseteq Clients
  /\ \A c \in Clients : Len(i_buffer[c]) <= InSize /\ Len(o_buffer[c]) <= OutSize

Mapped(c) == \E r \in Readers : c \in Range(conn_map[r])

\* A reply of connection c, or after an overlap bytes nobody has appended.
Theirs(reply, c) == reply.to = c \/ (reply = Stray /\ c \in overlapped)

\* A reply is written to the client that asked, however long its letter or its
\* Control has outlived the entry of the connection in the reader's map, and
\* whatever connections have been accepted since. Bytes nobody has appended are
\* written only when two workers have answered the connection at the same time.
RepliesToTheirClient ==
  \A c \in Clients : \A i \in 1 .. Len(received[c]) : Theirs(received[c][i], c)

\* The keys of all maps are the descriptors the kernel knows these connections by,
\* and a queued connection finds its key free in every map, so that emplace never
\* drops it and a callback never erases another connection's entry.
KeysCurrent ==
  /\ \A r \in Readers : \A f \in Fds :
       conn_map[r][f] # None => fds[f] = conn_map[r][f] /\ fd[conn_map[r][f]] = f
  /\ \A c \in Range(queue) : fds[fd[c]] = c /\ \A r \in Readers : conn_map[r][fd[c]] = None

\* What a client has sent is, in this order, in letters, in the message under
\* construction, in i_buffer or not yet read: nothing is passed on twice, out of
\* order or left out, wherever reads and parses cut the stream.
PiecesAccounted ==
  \A c \in Clients :
    link[c] # "reset" /\ Rejected \notin Range(sent[c])
      => sent[c] = handed[c] \o message[c].pieces \o i_buffer[c] \o inbox[c]

\* Nothing locks an o_buffer. When a client waits for its answers, a second worker comes
\* to use it in one moment only: the first one has written the whole reply, all that was
\* in the buffer, and has not yet stored _read_index.
OneWriter ==
  [][\A c \in Clients \ Hasty : c \in overlapped' \ overlapped =>
       \E w \in Workers : Storing(w, c) /\ written[w] = Len(o_buffer[c])]_vars

\* The pieces ps are those of request n.
About(ps, n) == {p.req : p \in Range(ps)} = {n}

\* The replies to the first, second ... request, each in its two parts.
OneByOne(rs) ==
  \A i \in 1 .. Len(rs) : /\ rs[i].part = IF i % 2 = 1 THEN "first" ELSE "second"
                          /\ About(rs[i].of, (i + 1) \div 2)

\* When a client waits for its answers, it receives the replies to its first,
\* second ... request one after the other, each once and undamaged, until a second
\* worker has met the first one in the moment of OneWriter.
RepliesInOrder == \A c \in Clients \ (Hasty \cup overlapped) : OneByOne(received[c])

-----------------------------------------------------------------------------
(* The inductive invariant *)

\* What something refers to is open, under the number its IO has.
Held == \A c \in Referenced : fd[c] \in Fds /\ fds[fd[c]] = c

\* An open number is the number of the connection behind it, and a key of a map is
\* the number of its connection.
Numbers ==
  /\ \A f \in Fds : fds[f] # None => fd[fds[f]] = f
  /\ \A r \in Readers : \A f \in Fds : conn_map[r][f] # None => fd[conn_map[r][f]] = f

\* A connection is queued once and then in no map.
QueueFresh ==
  /\ \A i, j \in 1 .. Len(queue) : queue[i] = queue[j] => i = j
  /\ \A i \in 1 .. Len(queue) : \A r \in Readers : \A f \in Fds : conn_map[r][f] # queue[i]

\* Buffers hold replies of their own connection, and stray bytes only after an overlap.
OwnReplies ==
  \A c \in Clients : /\ \A i \in 1 .. Len(o_buffer[c]) : Theirs(o_buffer[c][i], c)
                     /\ \A i \in 1 .. Len(received[c]) : Theirs(received[c][i], c)

\* Without an overlap one worker uses an o_buffer, and what it has written is in there.
SoleAnswers ==
  \A c \in Clients \ overlapped : \A w \in Workers :
    /\ \A v \in Workers : Answering(v, c) /\ Answering(w, c) => v = w
    /\ Storing(w, c) => written[w] <= Len(o_buffer[c])

\* Only what a client has sent is read and makes its parser fail.
OwnInput ==
  \A c \in Clients :
    /\ Range(inbox[c]) \cup Range(i_buffer[c]) \subseteq Range(sent[c])
    /\ message[c].failed => Rejected \in Range(sent[c])

\* A client that waits for its answers has sent n requests, and the n-th is on its way
\* to the service pool, in the hands of the service pool, or answered as far as it will be.
Unparsed(c) == message[c].pieces \o i_buffer[c] \o inbox[c]

\* What is in the o_buffer and has not been written.
Kept(c) ==
  IF \E w \in Workers : Storing(w, c)
  THEN LET w == CHOOSE w \in Workers : Storing(w, c)
       IN  SubSeq(o_buffer[c], written[w] + 1, Len(o_buffer[c]))
  ELSE o_buffer[c]
Replied(c) == received[c] \o Kept(c)

Served(w, c)   == phase[w] \in {"call", "answer", "write"} /\ serving[w].conn = c
Deferred(w, c) == \E l \in deferred[w] : l.conn = c
Writing(c)     == \E w \in Workers : phase[w] = "write" /\ serving[w].conn = c

NoCall(c) ==
  /\ \A i \in 1 .. Len(letters) : letters[i].conn # c
  /\ \A w \in Workers : ~ Served(w, c) /\ ~ Deferred(w, c)

\* At most one letter of the connection is queued, served or deferred, about request n.
OneCall(c, n) ==
  /\ \A i \in 1 .. Len(letters) : letters[i].conn = c =>
       /\ About(letters[i].pieces, n)
       /\ \A j \in 1 .. Len(letters) : letters[j].conn = c => i = j
       /\ \A w \in Workers : ~ Served(w, c) /\ ~ Deferred(w, c)
  /\ \A w \in Workers :
       /\ Served(w, c) => About(serving[w].pieces, n) /\ ~ Deferred(w, c)
       /\ \A l \in deferred[w] : l.conn = c =>
            About(l.pieces, n) /\ \A k \in deferred[w] : k.conn = c => k = l
       /\ Served(w, c) \/ Deferred(w, c) =>
            \A v \in Workers : Served(v, c) \/ Deferred(v, c) => v = w

Underway(c, n) ==
  /\ NoCall(c) /\ n > 0 /\ Len(Replied(c)) = 2 * n - 2
  /\ \A i \in 1 .. Len(Unparsed(c)) :
       /\ Unparsed(c)[i].req = n
       /\ Unparsed(c)[i].last => i = Len(Unparsed(c)) /\ ~ MidRequest(c)

InHands(c, n) ==
  /\ OneCall(c, n) /\ Unparsed(c) = << >> /\ ~ MidRequest(c)
  /\ Len(Replied(c)) = IF Writing(c) THEN 2 * n - 1 ELSE 2 * n - 2

Settled(c, n) ==
  /\ NoCall(c) /\ Unparsed(c) = << >> /\ ~ MidRequest(c)
  /\ Len(Replied(c)) <= 2 * n

InTurn(c, n) ==
  /\ Requests(c) = 1 .. n /\ Rejected \notin Range(sent[c])
  /\ ~ message[c].completed /\ ~ message[c].failed
  /\ Len(received[c]) >= 2 * n - 2 /\ OneByOne(Replied(c))
  /\ Underway(c, n) \/ InHands(c, n) \/ Settled(c, n)

Turns ==
  \A c \in Clients \ (Hasty \cup overlapped) : \E n \in 0 .. MaxRequests : InTurn(c, n)

\* The invariant of the proofs: references, numbers, keys, buffers, input and turns.
IInv ==
  /\ TypeOK /\ Held /\ Numbers /\ QueueFresh /\ OwnReplies /\ OwnInput /\ PiecesAccounted
  /\ SoleAnswers /\ Turns

-----------------------------------------------------------------------------
(* Progress *)

\* An accepted connection that is in the queue is taken out by some reader, also
\* when the wake-ups are spread over the readers unevenly, as long as no pop has
\* missed and made a reader forget the count it had read.
ConnectionsTaken ==
  \A c \in Clients : (c \in Range(queue)) ~> (c \notin Range(queue) \/ missed)

\* A complete request of a client that waits for its answer is handed to the
\* service pool, unless the connection ends first, as it does when a request fills the
\* whole buffer: ReadEnd then comes before the parse.
RequestsHanded ==
  \A c \in Clients \ Hasty :
    (Mapped(c) /\ sent[c] # << >> /\ Last(sent[c]).last)
      ~> (handed[c] = sent[c] \/ ~ Mapped(c))

\* A connection whose client has closed or reset it leaves its reader's map.
EndedConnectionsLeave ==
  \A c \in Clients : (Mapped(c) /\ link[c] \in {"shut", "reset"}) ~> ~ Mapped(c)

=============================================================================
