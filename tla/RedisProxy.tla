----------------------------- MODULE RedisProxy -----------------------------
(***************************************************************************)
(* redis/redis_proxy.h and redis_proxy.cpp: a thread's connection to       *)
(* Redis. send_request queues a callback in _callbacks and gives the       *)
(* command to hiredis, which keeps a list of its own: for each command it  *)
(* has taken, one entry that calls redis_callback. Nothing but the order   *)
(* connects the two lists. The connection has two watchers in the thread's *)
(* loop, which hiredis asks the proxy to start and to stop.                *)
(*                                                                         *)
(* hiredis, the kernel and Redis are external; they are modelled as the    *)
(* proxy meets them. Requests are numbered in the order they are made.     *)
(***************************************************************************)
EXTENDS Integers, Sequences

CONSTANTS
  MaxRequests, \* requests made in a run (a bound on the load)
  Malformed,   \* whether some commands are refused by hiredis' formatting
  None

ASSUME ProxyAssumption ==
  /\ MaxRequests \in Nat /\ Malformed \in BOOLEAN
  /\ None \notin [fn : Nat, reply : Nat]

VARIABLES
  \* RedisProxy
  context,   \* _context: "null", "connecting", "up", "freed" or "gone"
  connected, \* _connected
  callbacks, \* _callbacks, by request
  reading,   \* _reading
  writting,  \* _writting
  sent,      \* requests made
  refused,   \* requests that hiredis did not take (history)
  down,      \* the process has failed
  \* the thread's loop
  watched,   \* which of _read_io and _write_io are started
  due,       \* which of their events wait in the loop
  \* hiredis
  entries,   \* the length of its list of callbacks
  output,    \* commands not yet written
  got,       \* replies read, not yet passed on
  call,      \* the callback that runs, and the reply it has been given
  \* Redis and the network
  peer,      \* "open" or "closed"
  wire,      \* commands written, not yet answered
  input      \* replies not yet read

request == <<callbacks, sent, refused>>
loop    == <<reading, writting, watched, due>>
hiredis == <<entries, output, got, call>>
redis   == <<peer, wire, input>>
vars    == <<context, connected, request, down, loop, hiredis, redis>>

Events == {"read", "write"}

Init ==
  /\ context = "null" /\ connected = FALSE /\ callbacks = << >>
  /\ reading = FALSE /\ writting = FALSE
  /\ sent = 0 /\ refused = 0 /\ down = FALSE
  /\ watched = {} /\ due = {}
  /\ entries = 0 /\ output = << >> /\ got = << >> /\ call = None
  /\ peer = "open" /\ wire = << >> /\ input = << >>

-----------------------------------------------------------------------------
(* What hiredis calls to have watchers started and stopped: redis_add_read *)
(* and redis_add_write, redis_del_read and redis_del_write, redis_cleanup. *)
(* They act when the flag changes.                                         *)

Started(r, w) == (IF r /\ ~ reading THEN {"read"} ELSE {}) \cup (IF w /\ ~ writting THEN {"write"} ELSE {})
Stopped(r, w) == (IF reading /\ ~ r THEN {"read"} ELSE {}) \cup (IF writting /\ ~ w THEN {"write"} ELSE {})

\* Defects: a flag is not reset with its watcher; only reading is cleaned up.
SetWatchersNoReset(r, w, happened) ==
  /\ reading' = (reading \/ r) /\ writting' = (writting \/ w)
  /\ watched' = (watched \ Stopped(r, w)) \cup Started(r, w)
  /\ due' = happened \ Stopped(r, w)

redis_cleanup_read ==
  /\ reading' = FALSE /\ UNCHANGED writting
  /\ watched' = watched \ Stopped(FALSE, writting)
  /\ due' = due \ Stopped(FALSE, writting)

\* A watcher that is stopped loses its waiting event, too (ev_io_stop).
SetWatchers(r, w, happened) ==
  /\ reading' = r /\ writting' = w
  /\ watched' = (watched \ Stopped(r, w)) \cup Started(r, w)
  /\ due' = happened \ Stopped(r, w)

redis_cleanup == SetWatchers(FALSE, FALSE, due)

-----------------------------------------------------------------------------
(* The users' side: callbacks of the thread's loop, among them the         *)
(* callbacks of earlier requests.                                          *)

Idle == call = None /\ got = << >>
UserCode == ~ down /\ context # "gone" /\ (Idle \/ call # None)

\* get_local_redis when not connected: connect. redisAsyncConnect may fail at once,
\* which leaves _context null. Otherwise add_io succeeds for both objects, the loop
\* being there, and redisAsyncSetConnectCallback asks for the writing watcher.
connect ==
  /\ UserCode /\ ~ connected
  /\ context' = "connecting" /\ connected' = TRUE
  /\ SetWatchers(reading, TRUE, due)
  /\ UNCHANGED <<request, down, hiredis, redis>>

\* send_request on a context that lives. With a null context it returns false and
\* drops the callback, which leaves nothing to describe.
send_request ==
  /\ UserCode /\ sent < MaxRequests /\ context \in {"connecting", "up"}
  /\ sent' = sent + 1
  /\ callbacks' = Append(callbacks, sent')
  /\ entries' = entries + 1
  /\ output' = Append(output, sent')
  /\ SetWatchers(reading, TRUE, due)
  /\ UNCHANGED <<context, connected, refused, down, got, call, redis>>

\* redisAsyncCommand takes the text as a format; when that is malformed it fails,
\* and the result of the call is ignored.
send_request_malformed ==
  /\ Malformed
  /\ UserCode /\ sent < MaxRequests /\ context \in {"connecting", "up"}
  /\ sent' = sent + 1 /\ refused' = refused + 1
  /\ callbacks' = Append(callbacks, sent')
  /\ UNCHANGED <<context, connected, down, loop, hiredis, redis>>

\* send_request after hiredis has freed the context (undefined): the command is
\* refused, the freed memory still saying "disconnecting", or the process fails.
send_request_dangling ==
  /\ UserCode /\ sent < MaxRequests /\ context = "freed"
  /\ sent' = sent + 1 /\ refused' = refused + 1
  /\ callbacks' = Append(callbacks, sent')
  /\ down' \in BOOLEAN
  /\ UNCHANGED <<context, connected, loop, hiredis, redis>>

-----------------------------------------------------------------------------
(* The end of a connection *)

\* hiredis gives up: it calls redis_callback for each entry of its list without a
\* reply, which the proxy dereferences; without entries it calls redis_cleanup and
\* handle_disconnect, and frees the context. _context and _connected stay.
Disconnect(to) ==
  /\ IF entries > 0
     THEN down' = TRUE /\ UNCHANGED <<context, loop>>
     ELSE context' = to /\ redis_cleanup /\ UNCHANGED down
  /\ UNCHANGED <<connected, request, hiredis, redis>>

\* ~RedisProxy at the end of the thread: redisAsyncFree, also of a context that
\* hiredis has freed before (undefined).
Destroy ==
  /\ ~ down /\ Idle
  /\ \/ context \in {"connecting", "up"} /\ Disconnect("gone")
     \/ context = "null" /\ context' = "gone"
        /\ UNCHANGED <<connected, request, down, loop, hiredis, redis>>
     \/ context = "freed" /\ context' = "gone" /\ down' \in BOOLEAN
        /\ UNCHANGED <<connected, request, loop, hiredis, redis>>

-----------------------------------------------------------------------------
(* The thread's loop *)

Ready == {"write"} \cup (IF input # << >> \/ peer = "closed" THEN {"read"} ELSE {})

\* epoll reports all that has happened to the descriptor.
Poll ==
  /\ ~ down /\ context # "gone" /\ Idle /\ due = {}
  /\ watched \cap Ready # {}
  /\ due' = watched \cap Ready
  /\ UNCHANGED <<context, connected, request, down, reading, writting, watched, hiredis, redis>>

\* Defect: nothing asks for the answers.
on_write_only ==
  /\ ~ down /\ Idle /\ "write" \in due /\ context \in {"connecting", "up"}
  /\ context' = "up"
  /\ \E n \in IF output = << >> THEN {0} ELSE 1 .. Len(output) :
       /\ output' = SubSeq(output, n + 1, Len(output))
       /\ wire' = wire \o SubSeq(output, 1, n)
  /\ SetWatchers(reading, output' # << >>, due \ {"write"})
  /\ UNCHANGED <<connected, request, down, entries, got, call, peer, input>>

\* _write_io's callback: redisAsyncHandleWrite, which finds out about the connect
\* first. Some whole commands are written, or the connection turns out to be lost.
on_write ==
  /\ ~ down /\ Idle /\ "write" \in due /\ context \in {"connecting", "up"}
  /\ context' = "up"
  /\ \E n \in IF output = << >> THEN {0} ELSE 1 .. Len(output) :
       /\ output' = SubSeq(output, n + 1, Len(output))
       /\ wire' = wire \o SubSeq(output, 1, n)
  /\ SetWatchers(TRUE, output' # << >>, due \ {"write"})
  /\ UNCHANGED <<connected, request, down, entries, got, call, peer, input>>

on_write_fails ==
  /\ ~ down /\ Idle /\ "write" \in due
  /\ context = "connecting" \/ peer = "closed"
  /\ Disconnect("freed")

\* _read_io's callback: redisAsyncHandleRead, which reads some whole replies ...
on_read ==
  /\ ~ down /\ Idle /\ "read" \in due /\ input # << >>
  /\ \E n \in 1 .. Len(input) :
       /\ got' = SubSeq(input, 1, n)
       /\ input' = SubSeq(input, n + 1, Len(input))
  /\ SetWatchers(TRUE, writting, due \ {"read"})
  /\ UNCHANGED <<context, connected, request, down, entries, output, call, peer, wire>>

\* ... or finds the connection closed, possibly before the last replies are read.
on_read_fails ==
  /\ ~ down /\ Idle /\ "read" \in due /\ peer = "closed"
  /\ Disconnect("freed")

\* Defect: the callback stays in the queue.
redis_callback_peeks ==
  /\ ~ down /\ call = None /\ got # << >>
  /\ call' = [fn |-> Head(callbacks), reply |-> Head(got)]
  /\ got' = Tail(got)
  /\ entries' = entries - 1
  /\ UNCHANGED <<context, connected, callbacks, sent, refused, down, loop, output, redis>>

\* redis_callback: the next reply goes to the first callback of the queue.
redis_callback ==
  /\ ~ down /\ call = None /\ got # << >>
  /\ call' = [fn |-> Head(callbacks), reply |-> Head(got)]
  /\ callbacks' = Tail(callbacks)
  /\ got' = Tail(got)
  /\ entries' = entries - 1
  /\ UNCHANGED <<context, connected, sent, refused, down, loop, output, redis>>

\* fn returns.
Return ==
  /\ ~ down /\ call # None
  /\ call' = None
  /\ UNCHANGED <<context, connected, request, down, loop, entries, output, got, redis>>

-----------------------------------------------------------------------------
(* Redis and the network *)

Answer ==
  /\ peer = "open" /\ wire # << >>
  /\ input' = Append(input, Head(wire)) /\ wire' = Tail(wire)
  /\ UNCHANGED <<context, connected, request, down, loop, hiredis, peer>>

\* A restart, a time limit or the network ends the connection.
Close ==
  /\ context = "up" /\ peer = "open"
  /\ peer' = "closed"
  /\ UNCHANGED <<context, connected, request, down, loop, hiredis, wire, input>>

-----------------------------------------------------------------------------
Thread == Poll \/ on_write \/ on_write_fails \/ on_read \/ on_read_fails
          \/ redis_callback \/ Return

Next ==
  \/ connect \/ send_request \/ send_request_malformed \/ send_request_dangling
  \/ Thread \/ Destroy
  \/ Answer \/ Close

Spec == Init /\ [][Next]_vars

\* The loop goes on, and Redis answers while the connection is open.
FairSpec == Spec /\ WF_vars(Thread) /\ WF_vars(Answer)

-----------------------------------------------------------------------------
Requests == 1 .. sent

TypeOK ==
  /\ context \in {"null", "connecting", "up", "freed", "gone"}
  /\ sent \in Nat /\ refused \in Nat /\ entries \in Nat
  /\ {connected, reading, writting, down} \subseteq BOOLEAN
  /\ callbacks \in Seq(Requests)
  /\ output \in Seq(Requests) /\ wire \in Seq(Requests)
  /\ input \in Seq(Requests) /\ got \in Seq(Requests)
  /\ call \in [fn : Requests, reply : Requests] \cup {None}
  /\ watched \subseteq Events /\ due \subseteq Events
  /\ peer \in {"open", "closed"}

\* The commands hiredis has taken and not yet answered, oldest first.
Pipe == got \o (input \o (wire \o output))

\* hiredis' list has an entry for each of them, and the proxy's queue one more
\* callback for each refused request.
ListsCount ==
  /\ entries = Len(Pipe)
  /\ Len(callbacks) = entries + refused

\* The proxy's queue holds the latest requests, all of them.
QueueDense == \A i \in 1 .. Len(callbacks) : callbacks[i] = sent - Len(callbacks) + i

\* How far each callback lies from the reply it is going to get.
Shifted ==
  \A i \in 1 .. Len(Pipe) : callbacks[i] <= Pipe[i] /\ Pipe[i] <= callbacks[i] + refused

\* A callback is given the reply to its own request as long as hiredis has taken
\* every command; each refused command moves later replies to the callbacks of
\* requests made one before, never to those of requests made after.
RepliesMatch ==
  call # None => /\ call.fn <= call.reply
                 /\ call.reply <= call.fn + refused

\* The flags say which watchers are started, and only those have events.
FlagsFollowLoop ==
  /\ reading <=> "read" \in watched
  /\ writting <=> "write" \in watched
  /\ due \subseteq watched

\* Nothing in the loop can call into a context that has been freed, also when the
\* connection was lost in one of two events that came together.
NoEventAfterFree ==
  context \notin {"connecting", "up"} => watched = {} /\ due = {} /\ Idle

\* What waits to be written has its watcher, what has been written the other.
WatchersAsked ==
  context \in {"connecting", "up"} =>
    /\ output # << >> \/ context = "connecting" => "write" \in watched
    /\ context = "up" => "read" \in watched

IInv == TypeOK /\ ListsCount /\ QueueDense /\ Shifted /\ RepliesMatch
        /\ FlagsFollowLoop /\ NoEventAfterFree /\ WatchersAsked

-----------------------------------------------------------------------------
\* Each command that hiredis has taken is answered, as long as the connection and
\* the process last: no command waits for a watcher nobody has started.
CommandsAnswered ==
  \A r \in 1 .. MaxRequests :
    (\E i \in 1 .. Len(output) : output[i] = r)
      ~> (down \/ context = "gone" \/ peer = "closed" \/ \A i \in 1 .. Len(Pipe) : Pipe[i] # r)

=============================================================================
