# A TLA+ model of smart

`smart` is a small RPC server in C++: clients send HTTP requests with JSON
bodies, the server calls a method of a registered service and answers, most
methods asking Redis on the way. Two programs are built from the repository:
`server.cpp` with the multi-threaded code under `service/`, and
`server_small.cpp` with the single-threaded variant under `small/`. This
directory holds TLA+ modules for both servers, from the lock-free queue and the
event loop up to the methods of the services, the TLC configurations that check
them and TLAPS proofs about them.

Contents: [inventory](#inventory), [plan](#plan), [modules](#modules),
[runs](#runs), [bounds](#bounds), [fairness](#fairness), [proofs](#proofs),
[findings](#findings), [what is not modelled](#what-is-not-modelled).

## Inventory

How a request travels through `server.cpp`:

```
 TcpService thread           TcpReader threads             ServProc threads
 accept loop                 one event loop each           one event loop each
   | sp_push + eventfd         | append_from_fd, parse       | pop, call method
   v                           v                             v
 MPMCQueue<SConnection> ---> connection -- send --------> MPMCQueue<Letter>
                              (i_buffer)   push + eventfd        |
 client <---- cut_into_fd ---- o_buffer <---- Control::~Control -+-- RedisProxy
```

Every thread is a `LoopThread` with a thread-local `Loop` (libev). In the small
server one thread does all of this and methods are called in the callback.

| component | state | operations | interacts with | hard behaviours | correct when |
|---|---|---|---|---|---|
| `MPMCQueue` (`public/mpmc_queue.hpp`) | four indices into a ring of slots | `push`, `sp_push`, `pop`, `sc_pop`, `empty`, `full`, destructor | shared by all threads | lock-free claims and commits, stale index loads, slot numbers that repeat, spinning | a slot is built and taken once, by one thread; elements leave in the order their slots were claimed; failures have a cause |
| `ServicePool`, `ServProc` (`service/service_pool.*`, `service/service.h`) | queue of letters, one eventfd, worker threads | `run`, `send`, the `on_read` callback, `stop`, `Control` | `MPMCQueue`, `Loop`, `LoopThread`, `Buffer` | all workers wake for one counter, early `break`, ignored push result, stop while readers send | a queued request is called; `stop` returns |
| `Buffer` (`public/buffer.h`) | ring, read and write index | `append`, `cut`, `clear`, `append_from_fd`, `cut_into_fd`, SSL variants, `str`, `strs`, iterator | connection, parser, replies | wrap-around, full and empty, partial transfers, failures between two parts | it is a byte queue, and every view shows the same bytes |
| `Loop`, `IO` (`core/loop.*`, `core/io.h`) | table of watchers with weak references, queue of idle slots, index per object | `add_io`, `remove_io`, `start_io`, `stop_io`, dispatch, `quit` | libev, every component with a descriptor | slots reused while events are pending, objects that vanish, callbacks that change the table | an event reaches the object it was collected for or none |
| `LoopThread` (`core/loop_thread.*`) | thread, promise, loop pointer | `run`, `process`, `stop` | `Loop`, libev's async watcher | stop at any time, failing initialisation, skipped wake-up writes | `run` and `stop` return, `process_end` runs when it should |
| `TcpReader`, `TcpReaderPool` (`service/tcp_reader.*`) | map of connections, parser per connection | hand-over, read and parse, close | `MPMCQueue`, `Loop`, `Buffer`, `HttpMessage`, `ServicePool` | data and end of file together, full buffer, erasing a connection in its own callback, replies after close | a descriptor is not reused while something refers to it; a complete request is sent once |
| `TcpService` (`service/`, `small/`) | listening socket, reader pool or map of connections | accept, `process_end`; small: SSL, gateway protocol, method calls | as above | descriptor exhaustion, uninitialised error code, SSL data left in the session | connections are served or closed |
| `HttpMessage` (`http/http_message.*`) | parser, stage, header and body | `parse`, callbacks, `set_response` | `Buffer`, http_parser | input split anywhere, pipelined requests, parse errors | the message does not depend on how its bytes were split |
| `RedisProxy` (`redis/`) | hiredis context, queue of callbacks, two watchers | `connect`, `send_request`, `redis_callback`, add/del read/write | `Loop`, hiredis | disconnects, failed sends, null replies | a reply reaches the callback of its request |
| `AccessService`, `CustomerService`, `SmartService` | Redis hashes and tokens | register, login, switches, gateway reports | `RedisProxy`, `Control` | several asynchronous calls per request | one registration per name, tokens that are valid when returned |
| `sockets`, `ssl`, `hazard`, `rw_spin_lock`, `mysql` | - | thin wrappers, or not used by any program | - | - | - |

Vendored: libev (`open_source/`, patched), http_parser, nlohmann json,
rapidjson, easylogging, md5, ini. The repository has no documentation of its
own; what the code promises stands in comments and in `test/`.
`PROJECT.json` lists the hazards found in the survey line by line.

## Plan

1. `MPMCQueue` with `BoundedFifo`: the lock-free queue, access by access. *Done; refinement proved.*
2. `ServicePool`: wake-up protocol and shutdown over an atomic queue with the
   spurious failures found in 1. *Done; proved but for liveness.*
3. `Buffer` with `ByteQueue`, with the SSL operations. *Done; refinement proved.*
4. `Loop` with `Registry`: slot table. *Done; refinement proved.*
5. `LoopThread`: start, stop and the asynchronous wake-up. *Done; safety proved.*
6. `TcpServer`: acceptor, readers, descriptor numbers, parse and cut, letters and
   replies that outlive the connection. *Done; invariant proved.*
7. `SmallServer`: accept with the spare descriptor, the three protocols of a
   connection, method calls and late replies in one thread. *Done; invariant proved.*
8. `HttpPieces` and `HttpMessage`: where `parse` stops in a stream of requests, and how the
   callbacks put one request together. *Done; invariants proved.*
9. `RedisProxy`: callback queue against replies, lost connections, refused commands. *Done;
   invariant proved.*
10. `Accounts`: the methods of all services over asynchronous Redis calls. *Done; safety of
    accounts and tokens proved.*
11. Left: the shutdown of both pools in the order of `server.cpp`, with `process_end` and
    failures of `prepare`; `hazard.h`, which no program uses.

How modules use each other: `TcpServer` and `SmallServer` extend `HttpPieces`. `ServicePool` and
`TcpServer` take the queue as atomic, as `ImplementsFifo` allows, and add its spurious failures.
`SmallServer` and `TcpServer` take buffers as byte queues (`ImplementsByteQueue`) and count on
events reaching their object (`EventsReachTheirIO`). `Accounts` takes a connection to Redis as two
queues, as `RepliesMatch` allows as long as no command is refused.

## Modules

**`MPMCQueue`** has one action per access to shared memory: a call loads an
index, tests it against a fresh commit index of the other side, claims by
compare-and-swap (`PushClaim`/`PushRetry`), builds or moves the element, and
commits when the commit index has reached its slot. Indices are slot numbers that
wrap with `Inc`, and the compare-and-swap compares slots, as in the code, so that
the ABA case is in the model. `overtaken` counts how often a thread has been overtaken between its
load and its compare-and-swap, with no bound but a lap of the ring, and `overrun` records the first claim
that succeeds on a full or an empty ring: from then on elements are overwritten or taken twice, so the other
properties speak of the time before it, and `OverrunTakesALap` says what it takes.
`sp_push` and `sc_pop` may be called by any thread while it is the only one of its side (`Alone`, `Shared`).
A load returns the present value and loads keep their order, as on x86. There the interleavings are what can
happen; C++ and weaker machines also allow that a call pairs a new index (a relaxed load) with an older commit
index, which is not modelled. `MCMPMCQueue` adds the constraint that stops the search after an overrun.
`BoundedFifo` is the abstract queue; an element enters it when its push
commits and leaves when it is claimed by a pop.

**`ServicePool`** models `send` as push followed by the eventfd write, and the
callback of a worker as waking, reading the counter, popping that many letters
and calling their methods. The queue is atomic, which `ImplementsFifo`
justifies, except that push may fail under competition and pop may miss when its
index is outdated and the ring has filled up to it (`lag`). A method replies at
once or keeps its `Control` (`deferred`). `stop` quits and joins worker after
worker and closes the eventfd. `Counts` is the set of all counts that will make
somebody pop: those a sender is about to write, those in the eventfd, those a worker
has read and not used up; `NoLetterStranded` compares it with the queue. The hand-over of accepted connections to the
readers (`tcp_reader.cpp:24-36,120-124`) is the same protocol with one sender.

**`Buffer`** has the code's indices, masks and case distinctions; `append_from_fd`
and `cut_into_fd` take any part the kernel may take, or fail. `Store` is the
split copy, `Gather` the vector given to `writev`, `str`, `strs` and `Content`
the three ways of reading. `ByteQueue` is what the buffer promises.
Both record the last operation and its arguments (`call`), so the refinement is
about the very bytes that were offered, not about some bytes of that length.
`append_from_ssl` and `cut_into_ssl` move the first part, then the second, and
forget what they did when the second call fails, though the session has given out
or taken the first part: the bytes are gone, or are sent twice. `ByteQueue` says
so, and that nothing else is harmed.

**`Loop`** has the slot table (`sio`, `index`, `idle`) and of libev the started
watchers and the list of pending events. I/O objects are created, dropped, added
and so on by user code, which runs in callbacks and outside `ev_run`. Reusing a
slot resets the watcher but not libev's list, so only the `ev_io_stop` in
`remove_io` keeps an old event from the new owner. `Registry` is the abstract
view without slots. A removed slot's number, the order of events and which
descriptors are ready are nondeterministic or left out; descriptors themselves
are not in this module.

**`LoopThread`** models `run`, `process` and `stop`, and of libev the protocol by
which `ev_async_send` wakes a loop: the sender writes the eventfd only when the
loop has said that it may block (`pipe_write_wanted`), else it leaves a note
(`pipe_write_skipped`). Each access is an action; the code has full fences
between the accesses that matter, so interleaving is the right semantics.
One thread calls `run` and `stop`, as everywhere in the program.

**`TcpServer`** follows connections from `accept` to the last reference. A
connection is named by its client; `fd` is the number in its `IO`, `fds` what the
kernel has behind each number. `Referenced` collects whoever holds a
`shared_ptr`: acceptor, queue, readers' maps, the running callback, letters, and
Controls of workers or of Redis callbacks. Whatever drops a reference has
`Release` as its last part: `IO::~IO` closes what nothing refers to any more, and
the next `Accept` gets the lowest free number. Input is a sequence of pieces of
requests; a read takes as many as there are and fit (`ReadSome`), `ReadAgain` is
the end of the loop with EAGAIN, then parse, cut and send, `ReadEnd` the end with
0 or an error. The ring of the i_buffer ends at an arbitrary place `k`, so that
parse gets one or two runs. A reply has two pieces because `set_response` appends
it in several calls; while two workers are in `Control::~Control` of one
connection their appends race, and `Appended` lets bytes get lost or be
overwritten. `writev` and the store of `_read_index` behind it are two steps (`CutIntoFd`,
`StoreIndex`): between them the client has its reply and may ask again, and another worker may answer. It then
sends the first reply again, or both advance the index, which can carry it past the write index and make
whatever lies in the ring readable (`Advanced`, `Stray`). `overlapped` records whom this has happened to. A
`pop` may miss on a queue that is not empty, and `break` then forgets the remaining count (`TakeMiss`,
`missed`). The queues are atomic (`MPMCQueue` has the details; `push` failing under competition is in `ServicePool`; here a full queue
loses what is pushed). `MCTcpServer` adds the bound on what clients send and the symmetry of interchangeable
clients and workers.

What the model shows the code to do, beyond the properties: a request that arrives
together with its client's end of file is discarded; after malformed input a
connection stays open and silent, since `_deposited_msg` keeps its error; a
pipelined request is merged into the message before it when both are in one run
of the ring, and when it is in the second run it waits in the buffer until more
input arrives; what the kernel does not take of a reply waits for the next reply
of the connection; a connection that does not fit the queue is dropped.

**`HttpPieces`** says what `HttpMessage::parse` accepts of a stream of requests, over the
two runs of the ring, and what becomes of a second request in one object or after an
error. A piece is a request or a half of one. Both servers extend it.

**`HttpMessage`** has the fields of one message and the callbacks of http_parser that fill
them. The parser is external: it passes on the tokens of a request in parts of any length,
and `place`, `header` and `offset` say where it is. The url so far is taken apart with every
part of it; a header's name is lowered part by part; the first part of a value goes into a
new entry of the map, the others are appended to the entry there is. `MCHttpMessage` has short strings with what
matters: one, two and three path segments, a slash in the query, a url without a method, a
name in upper case, an empty value, headers that `set_response` does not echo.
`FieldsAsSent` compares the message with a reference definition over the whole request.

**`RedisProxy`** has the proxy's queue of callbacks and hiredis' own list of them, which
only the order connects. hiredis calls back to start and stop the two watchers of its
connection, and it calls `redis_callback` once per reply, from `on_read`, or with a null
reply for each outstanding command when the connection is lost, which ends the process
(`down`). `_connected` is never reset, so a lost connection leaves a dangling `_context`;
`send_request_dangling` is what a request does then. A command refused by hiredis'
formatting leaves its callback behind, and all later callbacks get the reply before theirs.

**`Accounts`** has every method of the three services as a chain of actions: `Call` picks
the thread and sends the first command, `Redis(w)` executes the oldest command of a
thread's connection, and each `...Reply` action is one callback, with what it sends next,
until no command on its way holds the Control and the client is answered (`Captured`).
Threads share Redis only, and may as well be those of several processes. A gateway reports
the positions of switches, the Lua script compares them with what was requested, and a
difference makes an order. `answer` is the reply under construction, because several
callbacks write into one `shared_json`.

**`SmallServer`** has the two callbacks of `small/tcp_service.cpp`. Between the steps of a
callback (`running`, `step`) only clients and the network act. What a connection is taken for is asked at
each read: two bytes EB 90 ahead, and it goes to `SmartService` (`Peeked`, `ReadGateway`), whoever sent
them, which is so for a report that begins with the read, never for a request that does, and open for the
rest of anything; what six bytes say about SSL is asked once (`Checked`). A session keeps decrypted bytes (`session`) that the event loop does not
see; SSL calls that fail lose or repeat bytes as in `Buffer`. Running out of descriptors is
part of the model: `AcceptFull` gives up the spare one, accepts, closes and opens it again.
What else has a descriptor takes some of the numbers (`Other`). `called` is the history of
what reached a method, `reports` of what `SmartService` took for a report. `MCSmallServer` adds the bound on
what clients send.

What these models show, beyond the properties: `is_ssl` needs six bytes, and with fewer
the connection is taken for plain; when the unread rest of a body begins with EB 90, it is
taken for a report, and the part that has been read is dropped with it; bytes left in an SSL session are read only when more
arrive from the network; of several reports that arrive together only the first is dealt
with; a token is sent to the client while its SETEX is still on its way, which is harmless
on one connection and a refusal on another (`TokensArrive` says when).

Operators introduced by a comment "Defect" are variants of the definition after
them with a plausible bug. They are used by no specification; each shows that
some property would notice it.

## Runs

| run | what it asks and shows |
|---|---|
| `queue_mpmc` | 2 producers, 2 consumers: only a claim a whole lap late overruns the ring (`OverrunTakesALap`); until then slots are only accessed in the state they must be in (`AccessesValid`), the inductive invariant `IInv` holds (order of the cursors, exclusive slots), the queue implements `BoundedFifo` (`ImplementsFifo`), and every claim is committed (`ClaimsComplete`) |
| `queue_push` | 2 producers, 1 consumer: expects a violation of `PushFailsOnlyWhenFull`, what the comment on `push` and the test with two producers say, see [findings](#findings) |
| `service_pool` | no lost wake-up (`NoLetterStranded`), queued letters are called (`LettersCalled`), `stop` returns (`StopReturns`) |
| `buffer` | every state of a ring of four: views agree (`ViewsAgree`), refinement of `ByteQueue` (`ImplementsByteQueue`) |
| `loop` | slot table (`IInv`) and refinement of `Registry` (`EventsReachTheirIO`) |
| `loop_thread` | a quit is never lost (`QuitOnItsWay`), `run` and `stop` return (`RunCompletes`, `StopReturns`) |
| `tcp_waiting` | clients that wait for answers, two workers, connections that end at any time: references, descriptor numbers and map keys agree (`IInv`), replies go to the client that asked (`RepliesToTheirClient`); two workers come to use one o_buffer only between a `writev` and the store of `_read_index` (`OneWriter`), and until that happens to a client its replies come in order and undamaged (`RepliesInOrder`) |
| `tcp_progress` | two readers, one client that waits and one that pipelines two requests and may send malformed input: no piece is lost or repeated (`PiecesAccounted`), queued connections are taken unless a pop has missed (`ConnectionsTaken`), complete requests handed over (`RequestsHanded`), ended connections removed (`EndedConnectionsLeave`) |
| `http_message` | every request of the bounds, cut everywhere: the message has the client's fields (`FieldsAsSent`) and a callback for a value always finds a header to put it into (`ValuesExpected`) |
| `redis_proxy` | refused commands and a connection lost at any moment: lists, flags and watchers agree (`IInv`), replies match their requests unless a command was refused (`RepliesMatch`), no event leads into a freed context (`NoEventAfterFree`), commands taken are answered (`CommandsAnswered`) |
| `accounts` | two clients, two threads, a gateway: a registration that was confirmed lasts (`RegistrationsKept`), no token leads to another's account and nobody else's `UploadData` or `GetBaseInfo` reaches its data (`OwnDataOnly`), tokens work from when Redis has them (`TokensArrive`), answers contain what was known before the question (`AnswersCurrent`), every call is answered (`RequestsAnswered`), switches follow requests (`SwitchesFollow`) |
| `small_server` | a waiting plain client and one of any kind, with too few descriptors: references and numbers, and plain input intact as long as nothing of it is taken for a report (`IInv`); input called once and in order, whatever is lost and whatever a client is taken for (`InputAccounted`); the backlog empties (`BacklogServed`); complete requests are called unless the rest of a body is taken for a report (`RequestsCalled`) |

## Bounds

- Queue: three slots hold two elements, so full, empty and wrap-around all occur
  with two threads a side. A thread may be overtaken any number of times, so laps happen; states behind
  an overrun are not searched (`UntilOverrun`), since every property concedes them.
- Pool: three letters fill a queue of two and let a letter arrive while both
  workers are busy; two workers and two senders give every kind of competition.
  Each letter is sent once, so behaviours end: deadlock is not checked there.
- Buffer: `Capacity = 4` with two byte values and chunks up to four reaches every
  pair of indices and every cut longer than the content.
- Loop: three objects, because a misdelivery needs one that is removed, one whose
  callback does it and one that takes the slot. Objects are created once, so
  behaviours end and deadlock is not checked.
- TcpServer: two clients, so that a number is reused by another client while
  letters of the first are still about; two descriptor numbers are the number of
  connections. Two requests per client give an order of replies to get wrong, and pieces of two
  requests in one buffer; all clients together send at most `MaxLoad` pieces, five in `tcp_waiting` (two requests in
  halves and one piece of the other client) and three in `tcp_progress`. In `tcp_waiting` clients are interchangeable, and workers, so
  TLC uses their symmetry; that run has only safety properties, and no definition tells one of them
  from another; requests have one or two pieces (`Pieces`), an i_buffer holds two
  pieces, so it is empty, partly filled and full. Clients in `Hasty` do not wait for
  answers, and send malformed input, too: `{c2}` in `tcp_progress`, nobody in `tcp_waiting`,
  where the order of replies depends on waiting. Clients
  connect once and send `MaxRequests` requests, so behaviours end: deadlock is not
  checked. Workers are left out of `tcp_progress`, whose properties end where the
  letter is sent.
- HttpMessage: up to three headers, so that a name occurs twice with another between; strings
  of at most five characters, cut at every place. The request ends, so deadlock is not checked.
- RedisProxy: five requests: some refused, some written, some answered at the same time, and
  one made from within a callback. `Malformed = TRUE` lets any of them be refused.
- Accounts: two clients compete for one mobile through two threads, of which one also serves
  the gateway; three calls let a client register, log in and use its token while the other
  does the same or interferes; one switch in two positions; one token expires. Calls and
  expiries are the bounds (`MaxCalls`, `MaxExpired`), so behaviours end.
- SmallServer: two descriptor numbers of which none, one or both are taken already, so that
  accept succeeds, fails for the second client, or for both; one request each, of one piece or of three, which is
  one more than a buffer holds, so that a request fits, or fills it and goes on, and a session may hold more than
  fits. All clients together send at most `MaxLoad` = 3 pieces.
- LoopThread has no bound; behaviours end when `run` throws.

## Fairness

- `MPMCQueue!FairSpec`: a thread that can take a step of its call takes it. The
  system's threads are scheduled preemptively. Nothing is assumed of starting calls.
- `ServicePool`: senders finish `send`, workers go on with their callback (weak
  fairness), and a worker whose loop has been told to quit leaves it (strong
  fairness: the worker may be in a callback again and again, but `ev_run` looks at
  `loop_done` after each batch; `LoopThread` shows the quit arrives). `stop`, once
  called, goes on. That readers ever stop sending is not assumed.
- `TcpServer!FairSpec`: the acceptor ends its iteration, and each reader's event
  loop takes some step as long as it can (weak fairness of the reader as a whole,
  not of single actions or connections). A level-triggered loop comes back to every
  readable descriptor; with at most two connections, whose input ends, this is
  enough. Clients, workers and Redis need not do anything.
- `RedisProxy!FairSpec`: the thread's loop goes on, and Redis answers while the
  connection is open. Weak fairness of the loop as a whole suffices.
- `Accounts!FairSpec`: Redis and the threads go on (weak fairness for each connection), the
  gateway reports and obeys, as its protocol has it do for ever. Nobody need call a method or touch a switch.
- `SmallServer!FairSpec`: a callback ends (weak fairness); each iteration of `ev_run` calls back
  every descriptor that is ready, so none is passed over for ever (strong fairness for
  each connection and for the listening socket, which are disabled while another
  callback runs). Nothing is assumed of clients and Redis.
- `LoopThread`: both threads are scheduled. No other descriptor need ever become
  ready, so a wake-up that relied on luck would be noticed.

## Proofs

All proofs are checked by TLAPS, for every value of the constants.

**`MPMCQueueProofs`**. No bound on overtaking is assumed. The invariants the runs check are
not inductive: that a producer builds in raw storage depends on where all other
calls are. The strengthening `IInv` says that the four cursors cut the ring into
four regions - slots being taken, live elements, slots being built, raw storage -
that each slot of the two regions in progress belongs to exactly one call, that a
call that has passed its test and not been overtaken by a lap lies as far behind the cursor as it
has been overtaken, and what each slot contains: all this until an overrun. `OverrunsTakeALap` is the step from there: a
claim that succeeds found its index unchanged, and if that is less than a lap old, it has not moved at all, so that the
test before it still holds. Theorems `Inductive`, and from it `TypeCorrect`, `CursorsOrdered`,
`Exclusive`, `ValidAccesses` and `ExactDestructor`, each up to the first overrun. `Refinement` shows that, as long,
the ring implements `BoundedFifo`: with `IInv`, that arguments go with their calls and
a pop holds nothing before it has claimed (`Hands`), and that the slot to be committed holds its
producer's argument (`Built`), a commit appends an element to the content (`ContentGrows`), a pop's
claim removes the first (`ContentShrinks`), and building and taking, outside the region of
elements, are not seen. Behind an overrun these are false of the code, as TLC shows when it is let go on.

`JustifiedFailures` and `ExactFailures` hold for ever, also behind an overrun. A thread that has not been overtaken
finds its own index where it has loaded it (`Current`), and a thread that is alone on its side finds its own
index where it has loaded it, since only its own claim moves it (`Fresh`), so that the comparison on which it gives up is that of the
present indices.

**`ServicePoolProofs`**. `WakeUps` counts: `Counts` is a union of sets of tokens, one for each
sender, each count in the eventfd and each pop a worker still means to make; a step
adds a token (`SenderCounts`, `EventfdCounts`), removes one (`PopCounts`) or hands them from
the eventfd to a worker (`ReadCounts`, by an injection). Pushing adds a letter together with its
sender's token, popping removes both. The invariant needs that a worker has tokens only while it
pops and calls, and that nobody closes the eventfd or leaves before `stop` (`PoolState`).

**`InputProofs`**, for `Buffer` (assuming a positive capacity). `TypeOK` is inductive by itself.
The work is in two lemmas: storing n bytes leaves the content in place and puts
them right behind it, in one part or two (`StoreAt`, `PutContent`), and moving the
read index drops a prefix (`DropContent`). The SSL operations combine both, with the failure between
their parts. `Refinement` follows operation by
operation; `Views` shows that `str`, `strs`, the iterator and `writev` agree.

The same module has the proofs for `HttpMessage` (assuming `HttpAssumption`, which TLC evaluates), whose
specification is called `MessageSpec` beside that of the buffer. `HttpInv` says for each place in a request which
part of it the message holds: the url up to there (`Located`), the name so far in lower case (`Spelled`), an entry of the map for
each header that has begun, with its value up to there unless a name occurs twice (`Filed`), the content up to there
(`Filled`). Each part goes behind the ones before it (`Grown`), and putting a name into lower case part by part is
the same as at once (`LoweredGrows`). The url is taken apart anew with every part; that a service which an earlier
part gave does not remain needs that its slash remains (`Deep`, `UrlGrows`, `TakenApart`). The first question mark and
the last slash exist because a set of numbers has a least element, which follows from the finite sets being well
founded (`Least`, `Greatest`).

**`LoopProofs`**. The inductive invariant: index and slot point at each other, the
idle queue is exactly the empty slots without repetition, started watchers belong
to an added object and pending ones are started (`TableConsistent`). The last part
is what makes reuse safe: an idle slot has no pending event, so adding an object
to it adds no event (`AddReuseRefines`). `Delivery` is the refinement of `Registry`.

The same module has the proof for `LoopThread`, whose specification is therefore called `ThreadSpec`.
`QuitSteps` follows a quit along the owner's accesses: until it has written or skipped the write, the loop has been
asked (`Asked`) and cannot have taken the wake-up away without taking the quit along (`Noticed`, `QuitCame`); a write
is skipped only when the loop is not between announcing that it may block and taking that back (`Flagged`), so it will
see the note before it blocks. The second `stop` finds the thread gone. `LoopThread` has no constants, so TLC's
search is complete as well; the proof says why it finds nothing.

**`TcpServerProofs`** (no assumption on the constants but their types). `IInv` is
inductive: what is referenced is open under the number its IO has (`Held`), an open
number belongs to one connection and a map key is its connection's number
(`Numbers`), a queued connection is queued once and in no map (`QueueFresh`),
buffers hold only what belongs to their client (`OwnReplies`, `OwnInput`), and the
stream is accounted for (`PiecesAccounted`). The first three need each other: a
close is right because the number is the connection's own, and the number stays its
own because nothing is closed while referenced. They hold in every step because
`IO::~IO` is the only place that closes (`HeldKept`, `ReleaseType`). The stream is
split into four parts, and the lemmas `SendAccounts`, `ReadAccounts` and
`ParseAccounts` regroup them; they hold for waiting and hasty clients alike. From `Invariance` follow
`TypeCorrect`, `ReplyOwner`, `Keys` and `Accounted`.

That a client that waits is answered in order follows, until two workers have met (`SoleAnswers`), from where
its last request is (`Turns`): still on its way to the service pool with no letter or Control of the connection
anywhere (`Underway`), in one letter or Control (`InHands`), or answered as far as it will be
(`Settled`, also when a full queue has dropped the letter). In each phase the number of parts in
`received` and in what of the `o_buffer` has not been written (`Kept`) is known, so that the next part goes where it belongs
(`SetResponseTurn`, `CutIntoFdTurn`), and only a client with all parts of its answers asks again
(`AnswersReceived`, `SendTurn`). A worker between `writev` and the store has nothing more to do for
the request, so a second letter may exist then; its worker is the only one that can meet it, and does so when
everything has been written (`OverlapMoment`). `SoleWriter` and `OrderedReplies` are the results. After a meeting only
`RepliesToTheirClient` is claimed, where bytes that nobody has appended may be among what is received.

**`SmallServerProofs`**. The same argument with one thread: `Held`, `Numbers`, `OwnReplies`, and
that only SSL clients have sessions (`OwnSessions`), so that what a plain client sends is what its
methods got, what the parser holds, the i_buffer and the descriptor (`PlainAccounted`), as long as no rest of
it has been taken for a report. Sessions make
reads longer than the buffer has room for; `TypeCorrect` says that neither buffer overflows.

Whatever is lost in sessions and by `SmartService`, what is called is called once and in
order, for clients of every kind and whatever they are taken for: what the methods got, what the parser holds, the i_buffer, the session and the descriptor are,
one behind the other, a subsequence of what was sent (`Partly`). Each step moves pieces from one of
the parts to the next or drops them, and the lemmas about `Subsequence` say that both keep it one.
It needs that a connection not known to speak SSL makes no use of a session (`Kinds`). `AllAccounted` is the result;
outside of sessions it also says that `SmartService` takes nothing twice and nothing out of order.

**`RedisProxyProofs`**. The proxy's queue of callbacks is hiredis' list plus one for each refused
command (`ListsCount`), both consist of consecutive requests (`QueueDense`, `Shifted`), and so the
first callback belongs to the reply that comes next unless a command was refused: `Replies`. Flags,
watchers and waiting events agree (`FlagsFollowLoop`, `WatchersAsked`), from which `Freed`.

**`AccountsProofs`**. The state of a chain of callbacks is in the commands and replies on their way, so
the invariant is about those: every command is one its client may send, every reply one its client
may get (`Sound`, `SoundReplies`), relative to the passwords Redis has. A password, once set by
HSETNX, never changes, so what is sound remains so, and `Registrations` and `OwnData` follow. Nothing is
assumed of the hashes that `SetSwitchInfo` names: it sets a field that no other property reads there.

`TokensReach` follows where a token is: a token that a client holds, or that a lookup names, is stored,
has expired, or its SETEX is among the commands some connection has yet to deliver (`Awaited`); a lookup
that is behind this SETEX on the same connection finds it.

`UpToDate` is about what a client that waits for an answer was told before. A client has one command or
reply on all connections, or several that ask for switches on one connection (`Apart`), which suit what
it has asked (`Fits`). What it knew is in Redis by then (`Learned`), because data are confirmed only by
the reply of the HMSET that stored them: confirmations and replies on their way are together at most the
data stored (`Counted`), and the status of a switch is never taken back. Each reply tells at least what
was known when its request was made (`Told`), and while a client waits for switches, each one it knew is
asked for or already in the answer (`Listing`). `NoneAssumption` says that the value for "no answer" and
"no request" is neither the code of an answer nor a note of a request.

Only model-checked: liveness (`ClaimsComplete`, `LettersCalled`, `StopReturns`, `RunCompletes`,
`ConnectionsTaken`, `RequestsHanded`, `EndedConnectionsLeave`, `CommandsAnswered`, `RequestsAnswered`,
`SwitchesFollow`, `BacklogServed`, `RequestsCalled`), which the prover does not handle.
Every other property of a passing run is also a theorem.

## Findings

One run expects a violation:

- `queue_push`: `push` may return false on a queue that was not full at any moment of the call, when two
  threads push: `next_write` comes from an old index, and is compared with a fresh commit index
  (`mpmc_queue.hpp:204`). The comment at 191-192 says "false: queue is full", and
  `test/test_mpmc_queue.cpp:305-315` expects each of the pushes of its two producers to succeed
  (`EXPECT_TRUE(mq.push(i))`). In TLC's behaviour another producer takes the slot in between, its element is popped,
  and the push is refused on an empty queue. `JustifiedFailures` proves when it can happen: only if another thread of the same
  side has moved on meanwhile; `ExactFailures` that it never does with one thread on each side. `pop` misses on a
  full queue in the same way (line 123).

Where else the code does less than a reader may hope for, no comment, test or document promises more, or only
under a reading that can be disputed. What the models show:

- The compare-and-swap knows a slot only by its number, so a thread that is overtaken by a whole lap may
  claim a slot in the wrong state (`OverrunTakesALap` says that nothing less does it).
- A client that waits for its answers may get one twice, or bytes of the ring that nobody has appended: it has its whole
  reply before `cut_into_fd` stores `_read_index` (`buffer.h:591-594`), and its next request may be answered by another
  thread in between.
- In the small server a body whose unread rest begins with EB 90 at some read is taken for a gateway's report
  (`small/tcp_service.cpp:132-139`), and what has been read of the request is dropped with it.
- `SetSwitchInfo` writes `request_status` into the hash the client names, be it another account's
  (`customer_service.cpp:200-204`).
- `ServicePool::send` ignores a failed push: the request is never answered. A worker or a reader whose
  `pop` fails without the queue being empty forgets the counts it has read (`missed`).
- `append_from_ssl` loses, and `cut_into_ssl` repeats, the first part when the second call fails
  (`buffer.h:517`, `651`). `small/tcp_service.cpp:160` reads `ssl_error` before anything has set it.
- What an SSL session keeps after a full buffer is read only at the next event of the descriptor;
  of several gateway reports that arrive together, the first one counts; with fewer than six bytes a
  connection is taken for plain.
- A refused command shifts the callbacks of all later ones, and a lost connection leaves a dangling
  context behind (`redis_proxy.h:30`, `redis_proxy.cpp:170`).
- A token is given to the client before Redis has stored it.
- Of a second header with a name, the first part of its value is dropped and the others are appended
  to the first header's value; for a url that ends in a slash the method is what an earlier
  part of the url gave, or empty.

## What is not modelled

Third-party code: json, rapidjson, easylogging, http_parser, hiredis, md5, ini and most of libev, which
are the larger part of the lines of the repository. Of libev what `Loop` and `LoopThread` rely on is
translated; http_parser, hiredis, OpenSSL, Redis and the kernel appear as their callers meet them. EV_ET
is declared by the patched `ev.h` but lost in an 8-bit field of `ev.c`; `Loop` collects events
nondeterministically, which covers edge- and level-triggered polling. `hazard.h`, `rw_spin_lock.h` and
`mysql/` are used by no program. The main programs only start and stop the rest.

Of the modelled components:

- the shutdown of `server.cpp` as a whole (`ServicePool::stop` before `TcpService::stop`), `process_end`,
  and failures of `prepare`; what happens to an eventfd number that is reused after `stop`;
- copy and move of `Buffer` and `MPMCQueue`, `Loop`'s destructor, `pending` and `resume`, `clear` of
  `HttpMessage` and `refresh_token`: nothing calls them; the mutex of `LoopThread` (one caller);
- `ServicePool`: the content of requests. `find_service` and `find_method` always find a method;
- `HttpMessage`: responses, upgrades and absolute urls, which no client of the servers sends;
- `RedisProxy`: a `redisAsyncConnect` that fails at once and a request without a context change
  nothing. The branches for a connection that fails later are unreachable, since `_connected` is never reset;
- `Accounts`: a client has one password, md5 is injective, checks of parameters and `GetLocation` and
  `Health` answer at once and change nothing, the fields of a mobile are a counter, `UploadData` always
  has fields, a request sets one switch, a gateway's message is whole and well-formed and comes when the
  last one has been dealt with. All switches start in one position, which by symmetry is no restriction;
- `SmallServer`: the handshake is a number of calls that return nothing, sessions are always allocated,
  a report tells of one switch, `accept` fails for want of descriptors only, and the length in a report is never
  less than that of its header (the subtraction in `SmartService::parse` would wrap round and `new` throw);
- `MPMCQueue`: executions that only weaker memory orders than those of x86 allow;
- `TcpServer`: the details of `MPMCQueue` and `Buffer`, which have modules of their own. A full queue
  loses what is pushed.

Logging, configuration and the wording of replies are outside the models.
