------------------------------ MODULE Registry ------------------------------
(***************************************************************************)
(* What smart::Loop promises its users: I/O objects can be added, started, *)
(* stopped and removed at any time, also from a callback, and an event     *)
(* that has been collected reaches the object it was collected for, once,  *)
(* or is forgotten because that object has been stopped or has gone.       *)
(***************************************************************************)
CONSTANTS IOs, None

VARIABLES
  held,      \* I/O objects some user refers to
  added,     \* objects known to the loop
  watched,   \* those whose events are collected
  due,       \* those that a collected event waits for
  running    \* the one whose callback runs

vars == <<held, added, watched, due, running>>

\* User code runs in callbacks, before the loop and after it.
UserCode == running # None \/ due = {}

Init == held = {} /\ added = {} /\ watched = {} /\ due = {} /\ running = None

Create(i) ==
  /\ UserCode /\ i \notin held \cup added
  /\ held' = held \cup {i}
  /\ UNCHANGED <<added, watched, due, running>>

Add(i, start) ==
  /\ UserCode /\ i \in held \ added
  /\ added' = added \cup {i}
  /\ watched' = IF start THEN watched \cup {i} ELSE watched
  /\ UNCHANGED <<held, due, running>>

Remove(i) ==
  /\ UserCode /\ i \in held \cap added
  /\ added' = added \ {i} /\ watched' = watched \ {i} /\ due' = due \ {i}
  /\ UNCHANGED <<held, running>>

Stop(i) ==
  /\ UserCode /\ i \in held \cap added
  /\ watched' = watched \ {i} /\ due' = due \ {i}
  /\ UNCHANGED <<held, added, running>>

Start(i) ==
  /\ UserCode /\ i \in held \cap added
  /\ watched' = watched \cup {i}
  /\ UNCHANGED <<held, added, due, running>>

\* The last user lets go of i; a callback in progress still completes.
Drop(i) ==
  /\ UserCode /\ i \in held
  /\ held' = held \ {i}
  /\ due' = due \ {i}
  /\ UNCHANGED <<added, watched, running>>

Collect(S) ==
  /\ running = None /\ due = {} /\ S # {}
  /\ S \subseteq watched
  /\ due' = S \cap held
  /\ UNCHANGED <<held, added, watched, running>>

Handle(i) ==
  /\ running = None /\ i \in due
  /\ running' = i /\ due' = due \ {i}
  /\ UNCHANGED <<held, added, watched>>

Return ==
  /\ running # None
  /\ running' = None
  /\ UNCHANGED <<held, added, watched, due>>

Next ==
  \/ \E i \in IOs : Create(i) \/ Remove(i) \/ Stop(i) \/ Start(i) \/ Drop(i) \/ Handle(i)
  \/ \E i \in IOs, start \in BOOLEAN : Add(i, start)
  \/ \E S \in SUBSET IOs : Collect(S)
  \/ Return

Spec == Init /\ [][Next]_vars

=============================================================================
