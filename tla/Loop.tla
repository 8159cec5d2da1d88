-------------------------------- MODULE Loop --------------------------------
(***************************************************************************)
(* core/loop.cpp: the table that connects I/O objects with libev watchers. *)
(* A slot of _ios keeps a watcher and a weak reference to its IO; the      *)
(* slots of removed objects wait in _idle_io_index to be used again. libev *)
(* (open_source/ev.c) collects events as pointers to watchers and calls    *)
(* them back one after the other, while callbacks add and remove objects.  *)
(* Slots are counted from 1, so that the index 0 stands for the code's -1. *)
(***************************************************************************)
EXTENDS Integers, Sequences

CONSTANTS IOs,   \* the I/O objects that are ever created
          None

ASSUME LoopAssumption == None \notin IOs

VARIABLES
  sio,       \* _ios[s]->sio, for every slot s
  active,    \* slots whose watcher is started
  pending,   \* slots whose watcher is in libev's list of pending events
  idle,      \* _idle_io_index
  index,     \* IO::_index
  born,      \* the I/O objects that have been created
  held,      \* those that some user still refers to
  running    \* the IO whose callback runs

table == <<sio, active, pending, idle, index>>
users == <<born, held>>
vars  == <<table, users, running>>

Slots == 1 .. Len(sio)

\* The loop's thread runs user code in a callback, or outside ev_run.
UserCode == running # None \/ pending = {}

Init ==
  /\ sio = << >> /\ active = {} /\ pending = {} /\ idle = << >>
  /\ index = [i \in IOs |-> 0]
  /\ born = {} /\ held = {} /\ running = None

-----------------------------------------------------------------------------
(* I/O objects. *)

\* std::make_shared<IO>
Create(i) ==
  /\ UserCode /\ i \notin born
  /\ born' = born \cup {i} /\ held' = held \cup {i}
  /\ UNCHANGED <<table, running>>

\* The last reference goes; the weak reference in a slot stays behind. A
\* callback in progress holds a reference of its own.
Drop(i) ==
  /\ UserCode /\ i \in held
  /\ held' = held \ {i}
  /\ UNCHANGED <<born, table, running>>

-----------------------------------------------------------------------------
(* Operations of Loop. *)

\* add_io when no slot is idle.
AddNew(i, start) ==
  /\ UserCode /\ i \in held /\ index[i] = 0 /\ idle = << >>
  /\ sio' = Append(sio, i)
  /\ index' = [index EXCEPT ![i] = Len(sio')]
  /\ active' = IF start THEN active \cup {Len(sio')} ELSE active
  /\ UNCHANGED <<pending, idle, users, running>>

\* add_io into a slot that was given back. ev_io_init resets the watcher but
\* not the list of pending events.
AddReuse(i, start) ==
  /\ UserCode /\ i \in held /\ index[i] = 0 /\ idle # << >>
  /\ sio' = [sio EXCEPT ![Head(idle)] = i]
  /\ index' = [index EXCEPT ![i] = Head(idle)]
  /\ active' = IF start THEN active \cup {Head(idle)} ELSE active \ {Head(idle)}
  /\ idle' = Tail(idle)
  /\ UNCHANGED <<pending, users, running>>

\* ev_io_stop, with clear_pending; ev_io_start.
ev_io_stop(s) == active' = active \ {s} /\ pending' = pending \ {s}
ev_io_start(s) == active' = active \cup {s} /\ UNCHANGED pending

\* Defect: the slot is given back with its watcher still pending.
RemoveKeepsPending(i) ==
  /\ UserCode /\ i \in held /\ index[i] # 0
  /\ active' = active \ {index[i]} /\ UNCHANGED pending
  /\ idle' = Append(idle, index[i])
  /\ index' = [index EXCEPT ![i] = 0]
  /\ sio' = [sio EXCEPT ![index[i]] = None]
  /\ UNCHANGED <<users, running>>

\* Defect: the slot is not given back.
RemoveLeaks(i) ==
  /\ UserCode /\ i \in held /\ index[i] # 0
  /\ ev_io_stop(index[i])
  /\ index' = [index EXCEPT ![i] = 0]
  /\ sio' = [sio EXCEPT ![index[i]] = None]
  /\ UNCHANGED <<idle, users, running>>

\* The code refuses to remove i from some of the slots that are not its own;
\* SlotsMatch shows that it never meets one.
remove_io(i) ==
  /\ UserCode /\ i \in held /\ index[i] # 0
  /\ ev_io_stop(index[i])
  /\ idle' = Append(idle, index[i])
  /\ index' = [index EXCEPT ![i] = 0]
  /\ sio' = [sio EXCEPT ![index[i]] = None]
  /\ UNCHANGED <<users, running>>

stop_io(i) ==
  /\ UserCode /\ i \in held /\ index[i] # 0
  /\ ev_io_stop(index[i])
  /\ UNCHANGED <<sio, idle, index, users, running>>

start_io(i) ==
  /\ UserCode /\ i \in held /\ index[i] # 0
  /\ ev_io_start(index[i])
  /\ UNCHANGED <<sio, idle, index, users, running>>

-----------------------------------------------------------------------------
(* An iteration of ev_run. *)

\* Descriptors of some started watchers are ready.
backend_poll(P) ==
  /\ running = None /\ pending = {} /\ P # {}
  /\ P \subseteq active
  /\ pending' = P
  /\ UNCHANGED <<sio, active, idle, index, users, running>>

\* ev_invoke_pending calls ev_io_common_cb, which locks the weak reference
\* and calls handle_event. libev takes the events from the end of its list;
\* any order is allowed here.
ev_io_common_cb(s) ==
  /\ running = None /\ s \in pending
  /\ pending' = pending \ {s}
  /\ running' = IF sio[s] \in held THEN sio[s] ELSE None
  /\ UNCHANGED <<sio, active, idle, index, users>>

\* handle_event returns.
Return ==
  /\ running # None
  /\ running' = None
  /\ UNCHANGED <<table, users>>

Next ==
  \/ \E i \in IOs : Create(i) \/ Drop(i) \/ remove_io(i) \/ stop_io(i) \/ start_io(i)
  \/ \E i \in IOs, start \in BOOLEAN : AddNew(i, start) \/ AddReuse(i, start)
  \/ \E P \in SUBSET active : backend_poll(P)
  \/ \E s \in pending : ev_io_common_cb(s)
  \/ Return

Spec == Init /\ [][Next]_vars

-----------------------------------------------------------------------------
\* Indices and idle entries are slots of the table.
TypeOK ==
  /\ sio \in Seq(IOs \cup {None})
  /\ active \subseteq Slots /\ pending \subseteq Slots
  /\ idle \in Seq(Slots)
  /\ index \in [IOs -> 0 .. Len(sio)]
  /\ born \subseteq IOs /\ held \subseteq born /\ running \in born \cup {None}

\* An object's index leads to the slot that refers back to it, and no two
\* objects share one: add, remove, stop and start always act on the right
\* watcher, and the warning of remove_io is never given.
SlotsMatch ==
  /\ \A i \in IOs : index[i] # 0 => sio[index[i]] = i
  /\ \A s \in Slots : sio[s] # None => index[sio[s]] = s

\* The idle queue holds every empty slot, once, and nothing else: no slot is
\* lost and none is given to two objects.
IdleExact ==
  /\ \A j, k \in 1 .. Len(idle) : idle[j] = idle[k] => j = k
  /\ \A s \in Slots : sio[s] = None <=> \E k \in 1 .. Len(idle) : idle[k] = s

\* Only watchers of added objects are started, only started ones are pending,
\* and only objects that exist are added.
WatchersOwned ==
  /\ pending \subseteq active
  /\ \A s \in active : sio[s] # None
  /\ \A i \in IOs \ born : index[i] = 0

IInv == TypeOK /\ SlotsMatch /\ IdleExact /\ WatchersOwned

Watchers == INSTANCE Registry WITH
  added   <- {i \in IOs : index[i] # 0},
  watched <- {i \in IOs : index[i] \in active},
  due     <- {i \in held : index[i] \in pending}

\* An event reaches the object it was collected for, or no object at all,
\* however slots are reused while it is pending.
EventsReachTheirIO == Watchers!Spec

=============================================================================
