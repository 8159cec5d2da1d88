------------------------------ MODULE MPMCQueue ------------------------------
(***************************************************************************)
(* public/mpmc_queue.hpp: the bounded lock-free ring through which the     *)
(* acceptor hands connections to the reader threads (sp_push / pop) and    *)
(* the readers hand parsed requests to the service threads (push / pop).   *)
(*                                                                         *)
(* Each action is one access to shared memory: an atomic load, a           *)
(* compare-and-swap, an atomic store, or the access to one ring slot that  *)
(* a successful claim makes the thread's own. A load returns the present   *)
(* value, and in program order, as on x86; on weaker machines a call may   *)
(* also pair a fresh index with an older commit index.                     *)
(***************************************************************************)
EXTENDS Integers

CONSTANTS
  Producers,  \* threads that call push, or sp_push while they are the only ones
  Consumers,  \* threads that call pop, or sc_pop while they are the only ones
  Values,     \* what is pushed: instances of the template parameter T
  Raw,        \* a slot that holds no constructed T
  Size        \* _size: number of slots, one more than the capacity

ASSUME QueueAssumption ==
  /\ Producers \cap Consumers = {}
  /\ Raw \notin Values
  /\ Size \in Nat /\ Size > 1          \* assert(_size > 1)

Threads == Producers \cup Consumers
Slots   == 0 .. (Size - 1)

VARIABLES
  read_index, write_index, read_commit_index, write_commit_index,
  ring,       \* _ring_buffer
  pc,         \* where each thread is in its call
  cur,        \* cur_write of a producer, cur_read of a consumer
  val,        \* the argument of a push, the result of a pop
  overtaken,  \* claims by others since the thread last loaded cur, a whole lap of
              \* the ring counted as Size whatever follows (history)
  overrun     \* a claim has succeeded on a full or on an empty ring (history)

indices == <<read_index, write_index, read_commit_index, write_commit_index>>
vars    == <<indices, ring, pc, cur, val, overtaken, overrun>>

-----------------------------------------------------------------------------
(* Index arithmetic. *)

\* "next = cur + 1; if (next == _size) next = 0"
Inc(i) == IF i + 1 = Size THEN 0 ELSE i + 1

\* Number of increments that lead from index a to index b.
Dist(a, b) == IF a <= b THEN b - a ELSE (Size - a) + b

\* Slot s lies in the circular interval [a, b).
Within(a, s, b) == Dist(a, s) < Dist(a, b)

\* Going round the ring from a one meets b, then c, then d.
InOrder(a, b, c, d) == Dist(a, b) + Dist(b, c) + Dist(c, d) = Dist(a, d)

\* empty() and full(), when nobody moves an index between their two loads.
empty == read_index = write_commit_index
full  == Inc(write_index) = read_commit_index

-----------------------------------------------------------------------------
Goto(t, from, to) == pc[t] = from /\ pc' = [pc EXCEPT ![t] = to]

\* A successful claim by t of the index that the threads in T compete for.
\* Everyone between the load of that index and the compare-and-swap has been
\* overtaken once more.
Overtake(T, t) ==
  LET late == {u \in T \ {t} : pc[u] \in {"check", "claim"}}
  IN  overtaken' = [u \in Threads |->
                      IF u = t THEN 0
                      ELSE IF u \in late /\ overtaken[u] < Size THEN overtaken[u] + 1
                      ELSE overtaken[u]]

\* cur[t] is read from index i: no one has overtaken t since.
Load(t, i) ==
  /\ cur' = [cur EXCEPT ![t] = i]
  /\ overtaken' = [overtaken EXCEPT ![t] = 0]
  /\ UNCHANGED overrun

\* The call returns; what its locals held no longer matters.
Return(t) ==
  /\ cur' = [cur EXCEPT ![t] = 0]
  /\ overtaken' = [overtaken EXCEPT ![t] = 0]
  /\ UNCHANGED overrun

\* sp_push and sc_pop are for the only caller of their side: whoever calls them sees to
\* it that no other call of that side is under way, nor starts, until they return.
Solo == {"sp_claim", "sp_build", "sp_commit", "sc_claim", "sc_take", "sc_commit"}

Alone(T, t) == \A u \in T \ {t} : pc[u] = "idle"
Shared(T)   == \A u \in T : pc[u] \notin Solo

-----------------------------------------------------------------------------
(* push: any number of producers. *)

PushLoad(p, v) ==
  /\ Goto(p, "idle", "check") /\ Shared(Producers)
  /\ val' = [val EXCEPT ![p] = v]
  /\ Load(p, write_index)
  /\ UNCHANGED <<indices, ring>>

\* next_write == _read_commit_index: "queue is full", return false.
PushFull(p) ==
  /\ Goto(p, "check", "idle")
  /\ Inc(cur[p]) = read_commit_index
  /\ val' = [val EXCEPT ![p] = Raw]
  /\ Return(p)
  /\ UNCHANGED <<indices, ring>>

\* Defect: cur_write instead of next_write is compared.
PushNotFullAtOwnIndex(p) ==
  /\ Goto(p, "check", "claim")
  /\ cur[p] # read_commit_index
  /\ UNCHANGED <<indices, ring, cur, val, overtaken, overrun>>

PushNotFull(p) ==
  /\ Goto(p, "check", "claim")
  /\ Inc(cur[p]) # read_commit_index
  /\ UNCHANGED <<indices, ring, cur, val, overtaken, overrun>>

\* Defect: a plain store instead of the compare-and-swap.
PushClaimByStore(p) ==
  /\ Goto(p, "claim", "build")
  /\ write_index' = Inc(cur[p])
  /\ Overtake(Producers, p) /\ overrun' = (overrun \/ full)
  /\ UNCHANGED <<read_index, read_commit_index, write_commit_index, ring, cur, val>>

\* _write_index.compare_exchange_weak succeeds: the slot cur[p] is p's.
PushClaim(p) ==
  /\ Goto(p, "claim", "build")
  /\ write_index = cur[p]
  /\ write_index' = Inc(cur[p])
  /\ Overtake(Producers, p) /\ overrun' = (overrun \/ full)
  /\ UNCHANGED <<read_index, read_commit_index, write_commit_index, ring, cur, val>>

\* ... or fails, spuriously or because the index moved; it reloads cur_write.
PushRetry(p) ==
  /\ Goto(p, "claim", "check")
  /\ Load(p, write_index)
  /\ UNCHANGED <<indices, ring, val>>

\* new (&_ring_buffer[cur_write]) T(...)
PushBuild(p) ==
  /\ Goto(p, "build", "commit")
  /\ ring' = [ring EXCEPT ![cur[p]] = val[p]]
  /\ UNCHANGED <<indices, cur, val, overtaken, overrun>>

\* Defects: committing without waiting for the earlier claims, and waiting for
\* the index that only the own commit would set.
PushCommitAtOnce(p) ==
  /\ Goto(p, "commit", "idle")
  /\ write_commit_index' = Inc(write_commit_index)
  /\ val' = [val EXCEPT ![p] = Raw]
  /\ Return(p)
  /\ UNCHANGED <<read_index, write_index, read_commit_index, ring>>

PushCommitAfterNext(p) ==
  /\ Goto(p, "commit", "idle")
  /\ write_commit_index = Inc(cur[p])
  /\ write_commit_index' = Inc(cur[p])
  /\ val' = [val EXCEPT ![p] = Raw]
  /\ Return(p)
  /\ UNCHANGED <<read_index, write_index, read_commit_index, ring>>

\* The commit loop spins until every earlier claim has been committed; a
\* failed or spurious exchange leaves everything as it was.
PushCommit(p) ==
  /\ Goto(p, "commit", "idle")
  /\ write_commit_index = cur[p]
  /\ write_commit_index' = Inc(cur[p])
  /\ val' = [val EXCEPT ![p] = Raw]
  /\ Return(p)
  /\ UNCHANGED <<read_index, write_index, read_commit_index, ring>>

-----------------------------------------------------------------------------
(* sp_push: the only caller, so nobody else writes _write_index and its    *)
(* load and the check of _read_commit_index are one step.                  *)

SpPushFull(p) ==
  /\ Alone(Producers, p) /\ pc[p] = "idle"
  /\ full
  /\ UNCHANGED vars

SpPushCheck(p, v) ==
  /\ Alone(Producers, p)
  /\ ~ full
  /\ Goto(p, "idle", "sp_claim")
  /\ val' = [val EXCEPT ![p] = v]
  /\ Load(p, write_index)
  /\ UNCHANGED <<indices, ring>>

SpPushClaim(p) ==
  /\ Goto(p, "sp_claim", "sp_build")
  /\ write_index' = Inc(cur[p])
  /\ UNCHANGED <<read_index, read_commit_index, write_commit_index,
                 ring, cur, val, overtaken, overrun>>

SpPushBuild(p) ==
  /\ Goto(p, "sp_build", "sp_commit")
  /\ ring' = [ring EXCEPT ![cur[p]] = val[p]]
  /\ UNCHANGED <<indices, cur, val, overtaken, overrun>>

SpPushCommit(p) ==
  /\ Goto(p, "sp_commit", "idle")
  /\ write_commit_index' = Inc(cur[p])
  /\ val' = [val EXCEPT ![p] = Raw]
  /\ Return(p)
  /\ UNCHANGED <<read_index, write_index, read_commit_index, ring>>

-----------------------------------------------------------------------------
(* pop: any number of consumers. *)

PopLoad(c) ==
  /\ Goto(c, "idle", "check") /\ Shared(Consumers)
  /\ val' = [val EXCEPT ![c] = Raw]
  /\ Load(c, read_index)
  /\ UNCHANGED <<indices, ring>>

\* cur_read == _write_commit_index: "queue is empty", return false.
PopEmpty(c) ==
  /\ Goto(c, "check", "idle")
  /\ cur[c] = write_commit_index
  /\ Return(c)
  /\ UNCHANGED <<indices, ring, val>>

PopNotEmpty(c) ==
  /\ Goto(c, "check", "claim")
  /\ cur[c] # write_commit_index
  /\ UNCHANGED <<indices, ring, cur, val, overtaken, overrun>>

PopClaim(c) ==
  /\ Goto(c, "claim", "take")
  /\ read_index = cur[c]
  /\ read_index' = Inc(cur[c])
  /\ Overtake(Consumers, c) /\ overrun' = (overrun \/ empty)
  /\ UNCHANGED <<write_index, read_commit_index, write_commit_index, ring, cur, val>>

PopRetry(c) ==
  /\ Goto(c, "claim", "check")
  /\ Load(c, read_index)
  /\ UNCHANGED <<indices, ring, val>>

\* *data = std::move(_ring_buffer[cur_read]); _ring_buffer[cur_read].~T()
PopTake(c) ==
  /\ Goto(c, "take", "commit")
  /\ val' = [val EXCEPT ![c] = ring[cur[c]]]
  /\ ring' = [ring EXCEPT ![cur[c]] = Raw]
  /\ UNCHANGED <<indices, cur, overtaken, overrun>>

PopCommit(c) ==
  /\ Goto(c, "commit", "idle")
  /\ read_commit_index = cur[c]
  /\ read_commit_index' = Inc(cur[c])
  /\ Return(c)
  /\ UNCHANGED <<read_index, write_index, write_commit_index, ring, val>>

-----------------------------------------------------------------------------
(* sc_pop: the only caller. *)

ScPopEmpty(c) ==
  /\ Alone(Consumers, c) /\ pc[c] = "idle"
  /\ empty
  /\ val' = [val EXCEPT ![c] = Raw]
  /\ UNCHANGED <<indices, ring, pc, cur, overtaken, overrun>>

ScPopCheck(c) ==
  /\ Alone(Consumers, c)
  /\ ~ empty
  /\ Goto(c, "idle", "sc_claim")
  /\ val' = [val EXCEPT ![c] = Raw]
  /\ Load(c, read_index)
  /\ UNCHANGED <<indices, ring>>

ScPopClaim(c) ==
  /\ Goto(c, "sc_claim", "sc_take")
  /\ read_index' = Inc(cur[c])
  /\ UNCHANGED <<write_index, read_commit_index, write_commit_index,
                 ring, cur, val, overtaken, overrun>>

ScPopTake(c) ==
  /\ Goto(c, "sc_take", "sc_commit")
  /\ val' = [val EXCEPT ![c] = ring[cur[c]]]
  /\ ring' = [ring EXCEPT ![cur[c]] = Raw]
  /\ UNCHANGED <<indices, cur, overtaken, overrun>>

ScPopCommit(c) ==
  /\ Goto(c, "sc_commit", "idle")
  /\ read_commit_index' = Inc(cur[c])
  /\ Return(c)
  /\ UNCHANGED <<read_index, write_index, write_commit_index, ring, val>>

-----------------------------------------------------------------------------
Init ==
  /\ read_index = 0 /\ write_index = 0
  /\ read_commit_index = 0 /\ write_commit_index = 0
  /\ ring = [s \in Slots |-> Raw]
  /\ pc = [t \in Threads |-> "idle"]
  /\ cur = [t \in Threads |-> 0]
  /\ val = [t \in Threads |-> Raw]
  /\ overtaken = [t \in Threads |-> 0]
  /\ overrun = FALSE

PushStart(p)   == SpPushFull(p) \/ \E v \in Values : PushLoad(p, v) \/ SpPushCheck(p, v)
PushCompete(p) == PushFull(p) \/ PushNotFull(p) \/ PushClaim(p) \/ PushRetry(p)
PushFinish(p)  == PushBuild(p) \/ PushCommit(p)
SpPushRest(p)  == SpPushClaim(p) \/ SpPushBuild(p) \/ SpPushCommit(p)

PopStart(c)    == PopLoad(c) \/ ScPopEmpty(c) \/ ScPopCheck(c)
PopCompete(c)  == PopEmpty(c) \/ PopNotEmpty(c) \/ PopClaim(c) \/ PopRetry(c)
PopFinish(c)   == PopTake(c) \/ PopCommit(c)
ScPopRest(c)   == ScPopClaim(c) \/ ScPopTake(c) \/ ScPopCommit(c)

ProducerStep(p) == PushStart(p) \/ PushCompete(p) \/ PushFinish(p) \/ SpPushRest(p)
ConsumerStep(c) == PopStart(c) \/ PopCompete(c) \/ PopFinish(c) \/ ScPopRest(c)

Next ==
  \/ \E p \in Producers : ProducerStep(p)
  \/ \E c \in Consumers : ConsumerStep(c)

Spec == Init /\ [][Next]_vars

\* A thread that is scheduled again and again finishes what it has claimed.
FairSpec ==
  /\ Spec
  /\ \A p \in Producers : WF_vars(PushFinish(p)) /\ WF_vars(SpPushRest(p))
  /\ \A c \in Consumers : WF_vars(PopFinish(c)) /\ WF_vars(ScPopRest(c))

-----------------------------------------------------------------------------
(* Properties. *)

Stages ==
  {"idle", "check", "claim", "build", "take", "commit",
   "sp_claim", "sp_build", "sp_commit", "sc_claim", "sc_take", "sc_commit"}

\* The thread has claimed the slot cur[t] and not yet given it up.
Owns(t) == pc[t] \in {"build", "take", "commit",
                      "sp_build", "sp_commit", "sc_take", "sc_commit"}

\* The four atomic indices stay inside the ring, slots hold values or raw
\* storage, every thread is at a known place of push, sp_push, pop or sc_pop.
TypeOK ==
  /\ read_index \in Slots /\ write_index \in Slots
  /\ read_commit_index \in Slots /\ write_commit_index \in Slots
  /\ ring \in [Slots -> Values \cup {Raw}]
  /\ pc \in [Threads -> Stages]
  /\ cur \in [Threads -> Slots]
  /\ val \in [Threads -> Values \cup {Raw}]
  /\ overtaken \in [Threads -> 0 .. Size] /\ overrun \in BOOLEAN

\* A compare-and-swap takes the slot of somebody else (a push on a full ring, a pop on
\* an empty one) only if its caller has been overtaken by a whole lap of the ring or more
\* since it loaded the index: nothing short of that makes the queue go wrong.
OverrunTakesALap ==
  [][overrun' /\ ~ overrun => \E t \in Threads : pc[t] = "claim" /\ overtaken[t] = Size]_vars

\* The cursors keep the order read_commit, read, write_commit, write round the ring: until
\* an overrun no compare-and-swap carries an index past the one in front of it.
CursorOrder == InOrder(read_commit_index, read_index, write_commit_index, write_index)

\* No two calls are between claim and commit on the same slot, whether two
\* pushes, two pops or a push and a pop: the plain accesses to
\* _ring_buffer[cur] never race, until an overrun.
SlotsExclusive ==
  overrun \/ \A t, u \in Threads : t # u /\ Owns(t) /\ Owns(u) => cur[t] # cur[u]

\* The placement new of push never lands on a live object, and pop never
\* moves from a slot that is not constructed or already destroyed, until an overrun.
AccessesValid ==
  \/ overrun
  \/ /\ \A p \in Producers : pc[p] \in {"build", "sp_build"} => ring[cur[p]] = Raw
     /\ \A c \in Consumers : pc[c] \in {"take", "sc_take"} => ring[cur[c]] # Raw

\* With no call in progress the live objects are those from _read_index up to
\* _write_index: ~MPMCQueue, which destroys exactly these, neither leaks an
\* element nor destroys one twice, unless there has been an overrun.
DestructorExact ==
  ~ overrun /\ (\A t \in Threads : pc[t] = "idle")
    => \A s \in Slots : ring[s] # Raw <=> Within(read_index, s, write_index)

GaveUp(t) == pc[t] = "check" /\ pc'[t] = "idle"

\* push returns false when the "queue is full", and only then: what the comment on push
\* says, and what the test with two producers expects. Two producers do break it.
PushFailsOnlyWhenFull ==
  [][\A p \in Producers : GaveUp(p) => full]_vars

\* With one thread on each side push returns false only when the queue is full at that
\* moment, and pop only when it is empty, whatever the other side is about to do.
SingleFailuresExact ==
  [][/\ \A p \in Producers : GaveUp(p) => full
     /\ \A c \in Consumers : GaveUp(c) => empty]_vars

\* With several threads on one side a call may also fail because another one
\* of that side claimed a slot after the call had loaded its index, and only
\* then: a failure without competition is never spurious.
FailuresJustified ==
  [][/\ \A p \in Producers : GaveUp(p) => full \/ overtaken[p] > 0
     /\ \A c \in Consumers : GaveUp(c) => empty \/ overtaken[c] > 0]_vars

\* A call that has claimed a slot returns: the commit loops, which wait for
\* every earlier claim, never wait for each other in a circle, without an overrun.
ClaimsComplete == \A t \in Threads : Owns(t) ~> (pc[t] = "idle" \/ overrun)

-----------------------------------------------------------------------------
(* The inductive invariant: who owns which part of the ring.               *)
(*   [read_commit, read)          slots being taken, one per consumer      *)
(*   [read, write_commit)         elements                                 *)
(*   [write_commit, write)        slots being built, one per producer      *)
(*   the rest                     raw storage                              *)

Building(p) == pc[p] \in {"build", "commit", "sp_build", "sp_commit"}
Taking(c)   == pc[c] \in {"take", "commit", "sc_take", "sc_commit"}

RingState ==
  \A s \in Slots :
    /\ Within(read_index, s, write_commit_index) => ring[s] # Raw
    /\ ~ Within(read_commit_index, s, write_index) => ring[s] = Raw

ProducersOwn ==
  /\ \A p \in Producers : Building(p) =>
       /\ Within(write_commit_index, cur[p], write_index)
       /\ ring[cur[p]] = Raw <=> pc[p] \in {"build", "sp_build"}
  /\ \A p, q \in Producers : p # q /\ Building(p) /\ Building(q) => cur[p] # cur[q]
  /\ \A s \in Slots : Within(write_commit_index, s, write_index) =>
       \E p \in Producers : Building(p) /\ cur[p] = s

ConsumersOwn ==
  /\ \A c \in Consumers : Taking(c) =>
       /\ Within(read_commit_index, cur[c], read_index)
       /\ ring[cur[c]] # Raw <=> pc[c] \in {"take", "sc_take"}
  /\ \A c, d \in Consumers : c # d /\ Taking(c) /\ Taking(d) => cur[c] # cur[d]
  /\ \A s \in Slots : Within(read_commit_index, s, read_index) =>
       \E c \in Consumers : Taking(c) /\ cur[c] = s

\* An index that is found unchanged by a thread that has not been overtaken by a lap has
\* not moved at all, so what the thread checked before is still so.
ProducerChecks ==
  \A p \in Producers :
    /\ pc[p] \in {"check", "claim"} /\ overtaken[p] < Size =>
         Dist(cur[p], write_index) = overtaken[p]
    /\ pc[p] = "claim" /\ overtaken[p] = 0 => ~ full
    /\ pc[p] = "sp_claim" => cur[p] = write_index /\ ~ full

ConsumerChecks ==
  \A c \in Consumers :
    /\ pc[c] \in {"check", "claim"} /\ overtaken[c] < Size =>
         Dist(cur[c], read_index) = overtaken[c]
    /\ pc[c] = "claim" /\ overtaken[c] = 0 => ~ empty
    /\ pc[c] = "sc_claim" => cur[c] = read_index /\ ~ empty

ChecksHold == ProducerChecks /\ ConsumerChecks

RoleOK ==
  /\ \A p \in Producers :
       /\ pc[p] \in {"idle", "check", "claim", "build", "commit",
                     "sp_claim", "sp_build", "sp_commit"}
       /\ pc[p] \in Solo => Alone(Producers, p)
       /\ pc[p] # "idle" => val[p] # Raw
  /\ \A c \in Consumers :
       /\ pc[c] \in {"idle", "check", "claim", "take", "commit",
                     "sc_claim", "sc_take", "sc_commit"}
       /\ pc[c] \in Solo => Alone(Consumers, c)

Orderly ==
  CursorOrder /\ RingState /\ ProducersOwn /\ ConsumersOwn /\ ChecksHold

\* Every slot is accounted for between any two steps of any two threads, until an overrun.
IInv == TypeOK /\ RoleOK /\ (overrun \/ Orderly)

-----------------------------------------------------------------------------
(* The queue as its callers see it: elements appear when their push commits *)
(* and leave when a pop claims them.                                        *)

At(i, k) == IF i + k < Size THEN i + k ELSE i + k - Size

content ==
  [k \in 1 .. Dist(read_index, write_commit_index) |-> ring[At(read_index, k - 1)]]

received ==
  [c \in Consumers |->
     IF pc[c] \in {"take", "sc_take"} THEN ring[cur[c]] ELSE val[c]]

Fifo ==
  INSTANCE BoundedFifo
    WITH Nothing <- Raw, Capacity <- Size - 1, queue <- content,
         arg <- [p \in Producers |-> val[p]], res <- received

\* Every push takes effect exactly once or not at all, every element is
\* delivered to exactly one pop, in the order the pushes committed, and never
\* more than Size - 1 are held, up to the step that overruns the ring, if there is one.
ImplementsFifo == Fifo!Init /\ [][Fifo!Next \/ overrun']_(Fifo!vars)

=============================================================================
