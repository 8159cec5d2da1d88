----------------------------- MODULE BoundedFifo -----------------------------
(***************************************************************************)
(* What MPMCQueue promises its callers: a bounded first-in-first-out queue *)
(* whose operations take effect atomically.                                *)
(***************************************************************************)
EXTENDS Naturals, Sequences

CONSTANTS Producers, Consumers, Values, Capacity,
          Nothing   \* no argument pending, no result received

VARIABLES
  queue,   \* the elements, oldest first
  arg,     \* the argument of each producer's pending push
  res      \* the result of each consumer's last pop

vars == <<queue, arg, res>>

Init ==
  /\ queue = << >>
  /\ arg = [p \in Producers |-> Nothing]
  /\ res = [c \in Consumers |-> Nothing]

\* A push is called, takes effect, or gives up without effect.
Call(p, v) ==
  /\ arg[p] = Nothing
  /\ arg' = [arg EXCEPT ![p] = v]
  /\ UNCHANGED <<queue, res>>

Enqueue(p) ==
  /\ arg[p] # Nothing
  /\ Len(queue) < Capacity
  /\ queue' = Append(queue, arg[p])
  /\ arg' = [arg EXCEPT ![p] = Nothing]
  /\ UNCHANGED res

Refuse(p) ==
  /\ arg[p] # Nothing
  /\ arg' = [arg EXCEPT ![p] = Nothing]
  /\ UNCHANGED <<queue, res>>

\* A pop is called (and so far has nothing), or takes the oldest element.
Ask(c) ==
  /\ res' = [res EXCEPT ![c] = Nothing]
  /\ UNCHANGED <<queue, arg>>

Dequeue(c) ==
  /\ queue # << >>
  /\ res[c] = Nothing
  /\ res' = [res EXCEPT ![c] = Head(queue)]
  /\ queue' = Tail(queue)
  /\ UNCHANGED arg

Next ==
  \/ \E p \in Producers : Enqueue(p) \/ Refuse(p) \/ \E v \in Values : Call(p, v)
  \/ \E c \in Consumers : Ask(c) \/ Dequeue(c)

Spec == Init /\ [][Next]_vars

=============================================================================
