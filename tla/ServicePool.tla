----------------------------- MODULE ServicePool -----------------------------
(***************************************************************************)
(* service/service_pool.cpp: reader threads hand parsed requests           *)
(* ("letters") to a pool of worker threads through an MPMCQueue, and wake  *)
(* them through one eventfd that every worker's event loop watches.        *)
(* service/tcp_reader.cpp hands new connections to the readers in the same *)
(* way, with a single sender.                                              *)
(*                                                                         *)
(* push and pop are atomic here, as MPMCQueue!ImplementsFifo allows, except *)
(* for their two spurious failures: a push under competition, and a pop    *)
(* whose index has been overtaken while the ring was filled up to it.      *)
(***************************************************************************)
EXTENDS Integers, Sequences, FiniteSets

CONSTANTS
  Senders,   \* threads that call ServicePool::send
  Workers,   \* the ServProc threads of _proc_pool
  Letters,   \* the requests sent, each once (a bound on the load)
  Size,      \* slots of the queue's ring: its capacity plus one
  None

ASSUME PoolAssumption ==
  /\ IsFiniteSet(Senders) /\ IsFiniteSet(Workers) /\ IsFiniteSet(Letters)
  /\ Workers # {}   \* one for each thread of the hardware
  /\ Size \in Nat /\ Size > 1
  /\ None \notin Letters \cup Workers

VARIABLES
  queue,     \* _letters
  signal,    \* the counter of the eventfd _queue_write_fd
  sending,   \* senders between push and eventfd_write
  at,        \* where each worker is: "wait" in ev_run, "read", "pop", "call", "gone"
  left,      \* num - i: how many letters the worker still means to pop
  lag,       \* pops by others since the worker's pop loaded _read_index
  job,       \* the letter the worker has popped
  sent,      \* letters handed to send
  called,    \* letters whose method has been called
  deferred,  \* letters whose method keeps the Control for a later reply
  quit,      \* workers whose loop has been told to quit
  joining,   \* the worker that ServicePool::stop waits for
  stopping,  \* ServicePool::stop has been called
  closed,    \* ... and has closed the eventfd
  missed     \* some pop has returned false on a non-empty queue (history)

pool == <<queue, signal, sending, sent>>
work == <<at, left, lag, job, called, deferred, missed>>
stop == <<quit, joining, stopping, closed>>
vars == <<pool, work, stop>>

Init ==
  /\ queue = << >> /\ signal = 0 /\ sending = {} /\ sent = {}
  /\ at = [w \in Workers |-> "wait"]
  /\ left = [w \in Workers |-> 0]
  /\ lag = [w \in Workers |-> 0]
  /\ job = [w \in Workers |-> None]
  /\ called = {} /\ deferred = [w \in Workers |-> {}] /\ missed = FALSE
  /\ quit = {} /\ joining = None /\ stopping = FALSE /\ closed = FALSE

-----------------------------------------------------------------------------
(* ServicePool::send *)

SendPush(s, l) ==
  /\ s \notin sending /\ l \notin sent
  /\ Len(queue) < Size - 1
  /\ queue' = Append(queue, l)
  /\ sending' = sending \cup {s}
  /\ sent' = sent \cup {l}
  /\ UNCHANGED <<signal, work, stop>>

\* push returns false: the queue is full, or senders compete. send ignores the
\* result, so the letter is lost and the eventfd is written all the same.
SendLost(s, l) ==
  /\ s \notin sending /\ l \notin sent
  /\ Len(queue) = Size - 1 \/ Cardinality(Senders) > 1
  /\ sending' = sending \cup {s}
  /\ sent' = sent \cup {l}
  /\ UNCHANGED <<queue, signal, work, stop>>

\* Defect: wake the workers only when the queue was empty before.
SendNotifyFirst(s) ==
  /\ s \in sending
  /\ signal' = IF closed \/ Len(queue) > 1 THEN signal ELSE signal + 1
  /\ sending' = sending \ {s}
  /\ UNCHANGED <<queue, sent, work, stop>>

\* eventfd_write(_queue_write_fd, 1); nobody counts on a closed eventfd.
SendNotify(s) ==
  /\ s \in sending
  /\ signal' = IF closed THEN signal ELSE signal + 1
  /\ sending' = sending \ {s}
  /\ UNCHANGED <<queue, sent, work, stop>>

-----------------------------------------------------------------------------
(* The on_read callback of ServProc::prepare, in the event loop of w. *)

\* The loop of every waiting worker finds the eventfd readable.
Wake(w) ==
  /\ at[w] = "wait" /\ signal > 0
  /\ at' = [at EXCEPT ![w] = "read"]
  /\ UNCHANGED <<pool, left, lag, job, called, deferred, missed, stop>>

\* Defect: one letter per wake-up, as if the eventfd were a semaphore.
ReadOne(w) ==
  /\ at[w] = "read"
  /\ left' = [left EXCEPT ![w] = IF signal > 0 THEN 1 ELSE 0]
  /\ at' = [at EXCEPT ![w] = IF signal = 0 THEN "wait" ELSE "pop"]
  /\ lag' = [lag EXCEPT ![w] = 0]
  /\ signal' = 0
  /\ UNCHANGED <<queue, sending, sent, job, called, deferred, missed, stop>>

\* eventfd_read takes the whole counter; when another worker has been faster
\* it fails with EAGAIN and num stays 0.
ReadSignal(w) ==
  /\ at[w] = "read"
  /\ left' = [left EXCEPT ![w] = signal]
  /\ at' = [at EXCEPT ![w] = IF signal = 0 THEN "wait" ELSE "pop"]
  /\ lag' = [lag EXCEPT ![w] = 0]
  /\ signal' = 0
  /\ UNCHANGED <<queue, sending, sent, job, called, deferred, missed, stop>>

\* A pop is overtaken by less than a lap of the ring here; what a whole lap does is in
\* MPMCQueue.
PopTake(w) ==
  /\ at[w] = "pop" /\ lag[w] = 0 /\ queue # << >>
  /\ job' = [job EXCEPT ![w] = Head(queue)]
  /\ queue' = Tail(queue)
  /\ at' = [at EXCEPT ![w] = "call"]
  /\ LET late == {u \in Workers \ {w} : at[u] = "pop"}
     IN  /\ \A u \in late : lag[u] < Size - 1
         /\ lag' = [u \in Workers |-> IF u \in late THEN lag[u] + 1 ELSE lag[u]]
  /\ UNCHANGED <<signal, sending, sent, left, called, deferred, missed, stop>>

\* The compare-and-swap fails and reloads _read_index.
PopRetry(w) ==
  /\ at[w] = "pop" /\ lag[w] > 0 /\ Len(queue) + lag[w] # Size
  /\ lag' = [lag EXCEPT ![w] = 0]
  /\ UNCHANGED <<pool, at, left, job, called, deferred, missed, stop>>

\* cur_read equals _write_commit_index: the queue is empty, or the ring is
\* filled up to the outdated cur_read. "break" forgets the remaining count.
PopMiss(w) ==
  /\ at[w] = "pop"
  /\ Len(queue) + lag[w] \in {0, Size}
  /\ missed' = (missed \/ queue # << >>)
  /\ at' = [at EXCEPT ![w] = "wait"]
  /\ left' = [left EXCEPT ![w] = 0]
  /\ lag' = [lag EXCEPT ![w] = 0]
  /\ UNCHANGED <<pool, job, called, deferred, stop>>

\* find_service and find_method always find a method; it replies before it
\* returns (or throws, which also replies), or keeps the Control.
Call(w) ==
  /\ at[w] = "call"
  /\ called' = called \cup {job[w]}
  /\ \/ UNCHANGED deferred
     \/ deferred' = [deferred EXCEPT ![w] = @ \cup {job[w]}]
  /\ job' = [job EXCEPT ![w] = None]
  /\ left' = [left EXCEPT ![w] = @ - 1]
  /\ at' = [at EXCEPT ![w] = IF left[w] = 1 THEN "wait" ELSE "pop"]
  /\ lag' = [lag EXCEPT ![w] = 0]
  /\ UNCHANGED <<pool, missed, stop>>

\* The last reference to a kept Control goes, in the same worker's loop.
Reply(w, l) ==
  /\ at[w] = "wait" /\ l \in deferred[w]
  /\ deferred' = [deferred EXCEPT ![w] = @ \ {l}]
  /\ UNCHANGED <<pool, at, left, lag, job, called, missed, stop>>

-----------------------------------------------------------------------------
(* ServicePool::stop: for each worker quit its loop and join its thread. *)

\* Defect: join without quit.
StopForgetsQuit(w) ==
  /\ joining = None /\ at[w] # "gone"
  /\ stopping' = TRUE /\ joining' = w
  /\ UNCHANGED <<quit, closed, pool, work>>

StopProc(w) ==
  /\ joining = None /\ at[w] # "gone"
  /\ stopping' = TRUE /\ joining' = w
  /\ quit' = quit \cup {w}
  /\ UNCHANGED <<closed, pool, work>>

\* The quit event breaks the loop once the current callback has returned.
LoopEnds(w) ==
  /\ at[w] = "wait" /\ w \in quit
  /\ at' = [at EXCEPT ![w] = "gone"]
  /\ joining' = None
  /\ UNCHANGED <<pool, left, lag, job, called, deferred, missed, quit, stopping, closed>>

Close ==
  /\ \A w \in Workers : at[w] = "gone"
  /\ ~ closed
  /\ closed' = TRUE /\ signal' = 0
  /\ UNCHANGED <<queue, sending, sent, work, quit, joining, stopping>>

-----------------------------------------------------------------------------
Worker(w) ==
  Wake(w) \/ ReadSignal(w) \/ PopTake(w) \/ PopRetry(w) \/ PopMiss(w) \/ Call(w)

Next ==
  \/ \E s \in Senders : SendNotify(s) \/ \E l \in Letters : SendPush(s, l) \/ SendLost(s, l)
  \/ \E w \in Workers : Worker(w) \/ \E l \in Letters : Reply(w, l)
  \/ \E w \in Workers : StopProc(w) \/ LoopEnds(w)
  \/ Close

\* Threads are scheduled; every iteration of ev_run looks at the quit event;
\* stop, once called, goes on through the pool.
Fairness ==
  /\ \A s \in Senders : WF_vars(SendNotify(s))
  /\ \A w \in Workers : WF_vars(Worker(w)) /\ SF_vars(LoopEnds(w))
  /\ WF_vars(stopping /\ \E w \in Workers : StopProc(w))
  /\ WF_vars(Close)

Spec == Init /\ [][Next]_vars /\ Fairness

-----------------------------------------------------------------------------
\* The queue never holds more than its capacity, counts never go below zero,
\* a worker has a letter exactly while it calls its method.
TypeOK ==
  /\ queue \in Seq(Letters) /\ Len(queue) < Size
  /\ signal \in Nat /\ sending \subseteq Senders /\ sent \subseteq Letters
  /\ at \in [Workers -> {"wait", "read", "pop", "call", "gone"}]
  /\ left \in [Workers -> Nat] /\ lag \in [Workers -> 0 .. Size - 1]
  /\ job \in [Workers -> Letters \cup {None}]
  /\ \A w \in Workers : job[w] # None <=> at[w] = "call"
  /\ called \subseteq sent /\ deferred \in [Workers -> SUBSET called]
  /\ quit \subseteq Workers /\ joining \in Workers \cup {None}
  /\ stopping \in BOOLEAN /\ closed \in BOOLEAN /\ missed \in BOOLEAN

\* How many letters worker w still means to pop, and all such counts: in the eventfd,
\* in a worker's loop, or about to be written by a sender.
Pops(w) == IF at[w] = "call" THEN left[w] - 1 ELSE left[w]

Counts ==
  (sending \X {0}) \cup ({None} \X (1 .. signal)) \cup UNION {{w} \X (1 .. Pops(w)) : w \in Workers}

\* No lost wake-up: each queued letter is matched by a count. A worker that breaks out
\* of its loop throws counts away, but only when the queue is really empty, unless a
\* pop has missed.
NoLetterStranded == ~ missed /\ ~ stopping => Len(queue) <= Cardinality(Counts)

\* A worker counts while it pops and calls; letters in the pool have been sent; nobody
\* leaves or closes before stop is called.
PoolState ==
  /\ \A w \in Workers : IF at[w] \in {"pop", "call"} THEN left[w] > 0 ELSE left[w] = 0
  /\ \A i \in 1 .. Len(queue) : queue[i] \in sent
  /\ \A w \in Workers : job[w] \in sent \cup {None}
  /\ \A w \in Workers : at[w] = "gone" => w \in quit
  /\ quit # {} \/ closed => stopping

\* The invariant of the proofs.
IInv == TypeOK /\ PoolState /\ NoLetterStranded

Queued(l) == \E i \in 1 .. Len(queue) : queue[i] = l

\* A letter that send has queued gets its method called, as long as the pool
\* is not stopped.
LettersCalled ==
  \A l \in Letters : Queued(l) ~> (l \in called \/ stopping \/ missed)

\* stop returns: every worker leaves its loop and is joined, whatever readers
\* still send.
StopReturns == stopping ~> closed

=============================================================================
