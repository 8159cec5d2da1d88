----------------------------- MODULE LoopProofs -----------------------------
(***************************************************************************)
(* The slot table of Loop is consistent, and Loop implements Registry, for *)
(* every set of I/O objects; and the quit that stop() sends to the thread  *)
(* of a loop is not lost.                                                  *)
(***************************************************************************)
EXTENDS Loop, LoopThread, SequenceTheorems, TLAPS

-----------------------------------------------------------------------------
(* The table. *)

\* A freshly constructed Loop.
LEMMA InitTable == Init => IInv
BY EmptySeq DEF Init, IInv, TypeOK, SlotsMatch, IdleExact, WatchersOwned, Slots

\* Assigning to an entry of _ios keeps the number of slots.
LEMMA SlotAssigned ==
  ASSUME TypeOK, NEW s \in Slots, NEW x \in IOs \cup {None},
         sio' = [sio EXCEPT ![s] = x]
  PROVE  /\ sio' \in Seq(IOs \cup {None}) /\ Len(sio') = Len(sio) /\ Slots' = Slots
         /\ \A t \in Slots : sio'[t] = IF t = s THEN x ELSE sio[t]
<1>1. /\ sio' \in Seq(IOs \cup {None}) /\ Len(sio') = Len(sio)
      /\ \A t \in 1 .. Len(sio) : sio'[t] = IF t = s THEN x ELSE sio[t]
  BY ExceptSeq DEF TypeOK, Slots
<1>2. QED BY <1>1 DEF Slots

\* add_io appends a slot when none is idle.
LEMMA AddNewTable ==
  ASSUME IInv, NEW i \in IOs, NEW start \in BOOLEAN, AddNew(i, start)
  PROVE  IInv'
<1> USE DEF IInv
<1>1. /\ sio' = Append(sio, i) /\ Len(sio') = Len(sio) + 1 /\ Len(sio) \in Nat
      /\ sio' \in Seq(IOs \cup {None})
      /\ sio'[Len(sio) + 1] = i
      /\ \A s \in Slots : sio'[s] = sio[s]
  BY AppendProperties DEF AddNew, TypeOK, Slots
<1>2. Slots' = Slots \cup {Len(sio) + 1} /\ Len(sio) + 1 \notin Slots
  BY <1>1 DEF Slots
<1>3. /\ index' = [index EXCEPT ![i] = Len(sio) + 1]
      /\ index \in [IOs -> 0 .. Len(sio)] /\ index[i] = 0
      /\ idle = << >> /\ idle' = << >> /\ pending' = pending
      /\ active' \in {active, active \cup {Len(sio) + 1}}
  BY <1>1 DEF AddNew, TypeOK
<1>4. TypeOK'
  BY <1>1, <1>2, <1>3, EmptySeq DEF TypeOK, AddNew, users
<1>5. \A s \in Slots : sio[s] # None /\ sio[s] \in IOs /\ sio[s] # i
  BY <1>3, LoopAssumption DEF IdleExact, TypeOK, SlotsMatch, Slots
<1>6. SlotsMatch'
  <2>1. ASSUME NEW j \in IOs, index'[j] # 0 PROVE sio'[index'[j]] = j
    BY <2>1, <1>1, <1>3 DEF SlotsMatch, Slots
  <2>2. ASSUME NEW s \in Slots', sio'[s] # None PROVE index'[sio'[s]] = s
    <3>1. CASE s = Len(sio) + 1 BY <3>1, <1>1, <1>3
    <3>2. CASE s \in Slots
      <4>1. sio'[s] = sio[s] /\ sio[s] # None /\ sio[s] \in IOs /\ sio[s] # i
        BY <3>2, <1>1, <1>5
      <4>2. index[sio[s]] = s BY <3>2, <4>1 DEF SlotsMatch
      <4>3. QED BY <4>1, <4>2, <1>3
    <3>3. QED BY <2>2, <3>1, <3>2, <1>2
  <2>3. QED BY <2>1, <2>2 DEF SlotsMatch
<1>7. IdleExact'
  <2>1. 1 .. Len(idle') = {}
    BY <1>3, EmptySeq
  <2>2. \A s \in Slots' : sio'[s] # None
    BY <1>1, <1>2, <1>5, LoopAssumption
  <2>3. QED BY <2>1, <2>2 DEF IdleExact
<1>8. WatchersOwned'
  <2>1. Len(sio) + 1 \in Slots' /\ sio'[Len(sio) + 1] # None
    BY <1>1, <1>2, LoopAssumption
  <2>2. \A s \in active : s \in Slots /\ sio[s] # None
    BY DEF WatchersOwned, TypeOK
  <2>3. \A s \in active' : sio'[s] # None
    BY <2>1, <2>2, <1>1, <1>3
  <2>4. pending' \subseteq active'
    BY <1>3 DEF WatchersOwned
  <2>5. ASSUME NEW j \in IOs \ born' PROVE index'[j] = 0
    <3>1. j \in IOs \ born /\ i \in born
      BY DEF AddNew, users, TypeOK
    <3>2. QED BY <3>1, <1>3 DEF WatchersOwned
  <2>6. QED BY <2>3, <2>4, <2>5 DEF WatchersOwned
<1>9. QED BY <1>4, <1>6, <1>7, <1>8

\* add_io takes the first idle slot.
LEMMA AddReuseTable ==
  ASSUME IInv, NEW i \in IOs, NEW start \in BOOLEAN, AddReuse(i, start)
  PROVE  IInv'
<1> USE DEF IInv
<1> DEFINE h == Head(idle)
<1>1. /\ idle \in Seq(Slots) /\ idle # << >> /\ h \in Slots /\ h = idle[1]
      /\ Len(idle) \in Nat /\ Len(idle) > 0
      /\ idle' = Tail(idle) /\ idle' \in Seq(Slots) /\ Len(idle') = Len(idle) - 1
      /\ \A k \in 1 .. Len(idle) - 1 : idle'[k] = idle[k + 1]
  BY HeadTailProperties DEF AddReuse, TypeOK
<1>2. /\ sio' = [sio EXCEPT ![h] = i]
      /\ index' = [index EXCEPT ![i] = h]
      /\ index \in [IOs -> 0 .. Len(sio)] /\ index[i] = 0
      /\ pending' = pending
      /\ active' \in {active \cup {h}, active \ {h}}
  BY DEF AddReuse, TypeOK
<1>3. sio[h] = None
  BY <1>1 DEF IdleExact
<1> HIDE DEF h
<1>4. /\ sio' \in Seq(IOs \cup {None}) /\ Len(sio') = Len(sio) /\ Slots' = Slots
      /\ \A t \in Slots : sio'[t] = IF t = h THEN i ELSE sio[t]
  <2>1. TypeOK /\ i \in IOs \cup {None}
    OBVIOUS
  <2>2. QED BY <2>1, <1>1, <1>2, SlotAssigned, Zenon
<1>5. TypeOK'
  <2>1. h \in 0 .. Len(sio) /\ active' \subseteq Slots /\ pending' \subseteq Slots
    BY <1>1, <1>2 DEF TypeOK, Slots
  <2>2. index' \in [IOs -> 0 .. Len(sio)]
    BY <2>1, <1>2
  <2>3. born' \subseteq IOs /\ held' \subseteq born' /\ running' \in born' \cup {None}
    BY DEF TypeOK, AddReuse, users
  <2>4. QED BY <2>1, <2>2, <2>3, <1>1, <1>4 DEF TypeOK
<1>6. SlotsMatch'
  <2>1. ASSUME NEW j \in IOs, index'[j] # 0 PROVE sio'[index'[j]] = j
    BY <2>1, <1>1, <1>2, <1>3, <1>4, LoopAssumption DEF SlotsMatch, Slots
  <2>2. ASSUME NEW s \in Slots', sio'[s] # None PROVE index'[sio'[s]] = s
    <3>1. CASE s = h
      BY <3>1, <1>1, <1>2, <1>4
    <3>2. CASE s # h
      <4>1. sio'[s] = sio[s] /\ sio[s] \in IOs /\ index[sio[s]] = s /\ s # 0
        BY <3>2, <2>2, <1>4 DEF SlotsMatch, TypeOK, Slots
      <4>2. QED BY <4>1, <1>2
    <3>3. QED BY <3>1, <3>2
  <2>3. QED BY <2>1, <2>2 DEF SlotsMatch
<1>7. IdleExact'
  <2>1. ASSUME NEW j \in 1 .. Len(idle'), NEW k \in 1 .. Len(idle'), idle'[j] = idle'[k]
        PROVE  j = k
    BY <2>1, <1>1 DEF IdleExact
  <2>2. ASSUME NEW s \in Slots, sio'[s] = None
        PROVE  \E k \in 1 .. Len(idle') : idle'[k] = s
    <3>1. s # h /\ sio[s] = None
      BY <2>2, <1>4, LoopAssumption
    <3>2. PICK k \in 1 .. Len(idle) : idle[k] = s
      BY <3>1 DEF IdleExact
    <3>3. k # 1
      BY <3>1, <3>2, <1>1
    <3>4. k - 1 \in 1 .. Len(idle') /\ idle'[k - 1] = s
      BY <3>2, <3>3, <1>1
    <3>5. QED BY <3>4
  <2>3. ASSUME NEW s \in Slots, NEW k \in 1 .. Len(idle'), idle'[k] = s
        PROVE  sio'[s] = None
    <3>1. k + 1 \in 1 .. Len(idle) /\ 1 \in 1 .. Len(idle) /\ idle[k + 1] = s /\ k + 1 # 1
      BY <2>3, <1>1
    <3>2. s # h
      BY <3>1, <1>1 DEF IdleExact
    <3>3. sio[s] = None
      BY <3>1 DEF IdleExact
    <3>4. QED BY <3>2, <3>3, <1>4
  <2>4. QED BY <2>1, <2>2, <2>3, <1>4 DEF IdleExact
<1>8. WatchersOwned'
  BY <1>1, <1>2, <1>3, <1>4, LoopAssumption DEF WatchersOwned, TypeOK, AddReuse, users
<1>9. QED BY <1>5, <1>6, <1>7, <1>8

\* remove_io empties the slot and queues it.
LEMMA RemoveTable ==
  ASSUME IInv, NEW i \in IOs, remove_io(i)
  PROVE  IInv'
<1> USE DEF IInv
<1> DEFINE h == index[i]
<1>1. h \in Slots /\ sio[h] = i /\ h # 0
  BY DEF remove_io, TypeOK, SlotsMatch, Slots
<1>2. /\ sio' = [sio EXCEPT ![h] = None]
      /\ index' = [index EXCEPT ![i] = 0]
      /\ index \in [IOs -> 0 .. Len(sio)]
      /\ active' = active \ {h} /\ pending' = pending \ {h}
      /\ idle' = Append(idle, h)
  BY DEF remove_io, ev_io_stop, TypeOK
<1> HIDE DEF h
<1>3. /\ sio' \in Seq(IOs \cup {None}) /\ Len(sio') = Len(sio) /\ Slots' = Slots
      /\ \A t \in Slots : sio'[t] = IF t = h THEN None ELSE sio[t]
  BY <1>1, <1>2, SlotAssigned
<1>4. /\ idle' \in Seq(Slots) /\ Len(idle) \in Nat /\ Len(idle') = Len(idle) + 1
      /\ idle'[Len(idle) + 1] = h
      /\ \A k \in 1 .. Len(idle) : idle'[k] = idle[k]
  BY <1>1, <1>2, AppendProperties DEF TypeOK
<1>5. TypeOK'
  BY <1>1, <1>2, <1>3, <1>4 DEF TypeOK, remove_io, users, Slots
<1>6. SlotsMatch'
  <2>1. ASSUME NEW j \in IOs, index'[j] # 0 PROVE sio'[index'[j]] = j
    <3>1. j # i /\ index'[j] = index[j] /\ index[j] \in Slots /\ sio[index[j]] = j
      BY <2>1, <1>2 DEF SlotsMatch, Slots
    <3>2. QED BY <3>1, <1>1, <1>3
  <2>2. ASSUME NEW s \in Slots', sio'[s] # None PROVE index'[sio'[s]] = s
    <3>1. s # h /\ sio'[s] = sio[s] /\ sio[s] \in IOs /\ index[sio[s]] = s
      BY <2>2, <1>3 DEF SlotsMatch, TypeOK, Slots
    <3>2. sio[s] # i
      BY <3>1 DEF h
    <3>3. QED BY <3>1, <3>2, <1>2
  <2>3. QED BY <2>1, <2>2 DEF SlotsMatch
<1>7. IdleExact'
  <2>0. \A k \in 1 .. Len(idle) : idle[k] \in Slots /\ idle[k] # h
    BY <1>1, LoopAssumption DEF IdleExact, TypeOK
  <2>1. ASSUME NEW j \in 1 .. Len(idle'), NEW k \in 1 .. Len(idle'), idle'[j] = idle'[k]
        PROVE  j = k
    BY <2>0, <2>1, <1>4 DEF IdleExact
  <2>2. ASSUME NEW s \in Slots, sio'[s] = None
        PROVE  \E k \in 1 .. Len(idle') : idle'[k] = s
    <3>1. CASE s = h
      BY <3>1, <1>4
    <3>2. CASE s # h
      <4>1. PICK k \in 1 .. Len(idle) : idle[k] = s
        BY <3>2, <2>2, <1>3 DEF IdleExact
      <4>2. QED BY <4>1, <1>4
    <3>3. QED BY <3>1, <3>2
  <2>3. ASSUME NEW s \in Slots, NEW k \in 1 .. Len(idle'), idle'[k] = s
        PROVE  sio'[s] = None
    BY <2>3, <1>3, <1>4 DEF IdleExact
  <2>4. QED BY <2>1, <2>2, <2>3, <1>3 DEF IdleExact
<1>8. WatchersOwned'
  BY <1>2, <1>3 DEF WatchersOwned, TypeOK, remove_io, users
<1>9. QED BY <1>5, <1>6, <1>7, <1>8

\* The other steps leave the slots alone.
LEMMA RestTable ==
  ASSUME IInv,
         \/ \E i \in IOs : Create(i) \/ Drop(i) \/ stop_io(i) \/ start_io(i)
         \/ \E P \in SUBSET active : backend_poll(P)
         \/ \E s \in pending : ev_io_common_cb(s)
         \/ Return
         \/ UNCHANGED vars
  PROVE  IInv'
<1> USE DEF IInv
<1>0. sio' = sio /\ idle' = idle /\ index' = index
  BY DEF Create, Drop, stop_io, start_io, backend_poll, ev_io_common_cb, Return, vars, table
<1>1. Slots' = Slots /\ SlotsMatch' /\ IdleExact'
  BY <1>0 DEF Slots, SlotsMatch, IdleExact
<1>2. /\ active' \subseteq Slots /\ pending' \subseteq active'
      /\ \A s \in active' : sio[s] # None
  <2>1. ASSUME NEW i \in IOs, stop_io(i) \/ start_io(i)
        PROVE  /\ active' \subseteq Slots /\ pending' \subseteq active'
               /\ \A s \in active' : sio[s] # None
    <3>1. index[i] \in Slots /\ sio[index[i]] = i /\ i # None
      BY <2>1, LoopAssumption DEF stop_io, start_io, TypeOK, SlotsMatch, Slots
    <3>2. QED BY <2>1, <3>1 DEF stop_io, start_io, ev_io_stop, ev_io_start,
                                TypeOK, WatchersOwned
  <2>2. QED
    BY <2>1 DEF Create, Drop, backend_poll, ev_io_common_cb, Return, vars, table,
                TypeOK, WatchersOwned
<1>3. /\ born' \subseteq IOs /\ held' \subseteq born' /\ running' \in born' \cup {None}
      /\ born \subseteq born'
  BY DEF Create, Drop, stop_io, start_io, backend_poll, ev_io_common_cb, Return,
         vars, users, TypeOK
<1>4. TypeOK'
  BY <1>0, <1>1, <1>2, <1>3 DEF TypeOK
<1>5. QED BY <1>0, <1>1, <1>2, <1>3, <1>4 DEF WatchersOwned

\* Every step of the loop keeps the table consistent.
LEMMA NextTable == IInv /\ [Next]_vars => IInv'
<1>1. SUFFICES ASSUME IInv, [Next]_vars PROVE IInv'
  OBVIOUS
<1>2. ASSUME NEW i \in IOs, NEW start \in BOOLEAN, AddNew(i, start) PROVE IInv'
  BY <1>1, <1>2, AddNewTable
<1>3. ASSUME NEW i \in IOs, NEW start \in BOOLEAN, AddReuse(i, start) PROVE IInv'
  BY <1>1, <1>3, AddReuseTable
<1>4. ASSUME NEW i \in IOs, remove_io(i) PROVE IInv'
  BY <1>1, <1>4, RemoveTable
<1>5. CASE \/ \E i \in IOs : Create(i) \/ Drop(i) \/ stop_io(i) \/ start_io(i)
           \/ \E P \in SUBSET active : backend_poll(P)
           \/ \E s \in pending : ev_io_common_cb(s)
           \/ Return
           \/ UNCHANGED vars
  BY <1>1, <1>5, RestTable
<1>6. QED BY <1>1, <1>2, <1>3, <1>4, <1>5 DEF Next

\* The slot table is consistent in every reachable state: indices and slots
\* match, the idle queue is exactly the empty slots, only watchers of added
\* objects are started or pending (add_io, remove_io, start_io, stop_io).
THEOREM TableConsistent == Spec => []IInv
BY InitTable, NextTable, PTL DEF Spec

\* Indices and idle entries never point outside _ios.
THEOREM TypeCorrect == Spec => []TypeOK
<1>1. IInv => TypeOK
  BY DEF IInv
<1>2. QED BY <1>1, TableConsistent, PTL

\* add, remove, stop and start always find the caller's own slot; the warning
\* of remove_io is never given.
THEOREM OwnSlots == Spec => []SlotsMatch
<1>1. IInv => SlotsMatch
  BY DEF IInv
<1>2. QED BY <1>1, TableConsistent, PTL

\* No slot is lost or handed out twice.
THEOREM NoSlotLost == Spec => []IdleExact
<1>1. IInv => IdleExact
  BY DEF IInv
<1>2. QED BY <1>1, TableConsistent, PTL

-----------------------------------------------------------------------------
(* Loop implements Registry. *)

\* The refinement mapping.
Added   == {i \in IOs : index[i] # 0}
Watched == {i \in IOs : index[i] \in active}
Due     == {i \in held : index[i] \in pending}

\* An object is watched or due only through its own slot, never through 0.
LEMMA OwnWatcher ==
  ASSUME IInv
  PROVE  /\ 0 \notin active /\ 0 \notin pending /\ held \subseteq IOs
         /\ \A s \in active : sio[s] \in IOs /\ index[sio[s]] = s
         /\ \A i, j \in IOs : index[i] # 0 /\ index[i] = index[j] => i = j
         /\ pending \subseteq active
BY DEF IInv, TypeOK, SlotsMatch, WatchersOwned, Slots

\* A new loop watches nothing.
LEMMA InitRefines == Init => Watchers!Init
BY DEF Init, Watchers!Init

\* User code runs in Registry when it does in Loop.
LEMMA UserCodeRefines == UserCode => Watchers!UserCode
BY DEF UserCode, Watchers!UserCode

\* make_shared<IO>.
LEMMA CreateRefines == ASSUME IInv, NEW i \in IOs, Create(i) PROVE Watchers!Create(i)
<1>1. index[i] = 0 /\ i \notin held
  BY DEF Create, IInv, WatchersOwned, TypeOK
<1>2. QED BY <1>1, UserCodeRefines, OwnWatcher DEF Create, Watchers!Create, table

\* The last reference to an IO goes.
LEMMA DropRefines == ASSUME IInv, NEW i \in IOs, Drop(i) PROVE Watchers!Drop(i)
BY UserCodeRefines, OwnWatcher DEF Drop, Watchers!Drop, table

\* add_io with a new slot: no event is pending for it.
LEMMA AddNewRefines ==
  ASSUME IInv, NEW i \in IOs, NEW start \in BOOLEAN, AddNew(i, start)
  PROVE  Watchers!Add(i, start)
<1>1. /\ Len(sio') = Len(sio) + 1 /\ Len(sio) \in Nat
      /\ Len(sio) + 1 \notin active /\ Len(sio) + 1 \notin pending
      /\ \A j \in IOs : index[j] # Len(sio) + 1
  BY AppendProperties DEF AddNew, IInv, TypeOK, Slots
<1>2. /\ index' = [index EXCEPT ![i] = Len(sio) + 1] /\ index[i] = 0
      /\ active' = IF start THEN active \cup {Len(sio) + 1} ELSE active
      /\ pending' = pending /\ held' = held /\ running' = running /\ i \in held
      /\ index \in [IOs -> 0 .. Len(sio)] /\ UserCode
  BY <1>1 DEF AddNew, users, IInv, TypeOK
<1>3. Added' = Added \cup {i} /\ Due' = Due /\ i \notin Added
  BY <1>1, <1>2, OwnWatcher DEF Added, Due
<1>4. Watched' = IF start THEN Watched \cup {i} ELSE Watched
  BY <1>1, <1>2, OwnWatcher DEF Watched
<1>5. QED BY <1>2, <1>3, <1>4, UserCodeRefines DEF Watchers!Add, Added, Watched, Due

\* add_io with an idle slot: no event is pending for it either, which is what
\* keeps an event from reaching the slot's next owner.
LEMMA AddReuseRefines ==
  ASSUME IInv, NEW i \in IOs, NEW start \in BOOLEAN, AddReuse(i, start)
  PROVE  Watchers!Add(i, start)
<1> DEFINE h == Head(idle)
<1>1. idle \in Seq(Slots) /\ idle # << >> /\ h \in Slots /\ h = idle[1] /\ 1 \in 1 .. Len(idle)
  BY HeadTailProperties DEF AddReuse, IInv, TypeOK
<1>2. sio[h] = None /\ h # 0
  BY <1>1 DEF IInv, IdleExact, Slots
<1>3. h \notin active /\ h \notin pending /\ \A j \in IOs : index[j] # h
  BY <1>2, OwnWatcher, LoopAssumption DEF IInv, WatchersOwned, SlotsMatch
<1>4. /\ index' = [index EXCEPT ![i] = h] /\ index[i] = 0
      /\ active' = IF start THEN active \cup {h} ELSE active \ {h}
      /\ pending' = pending /\ held' = held /\ running' = running /\ i \in held
      /\ index \in [IOs -> 0 .. Len(sio)] /\ UserCode
  BY DEF AddReuse, users, IInv, TypeOK
<1> HIDE DEF h
<1>5. Added' = Added \cup {i} /\ Due' = Due /\ i \notin Added
  BY <1>2, <1>3, <1>4, OwnWatcher DEF Added, Due
<1>6. Watched' = IF start THEN Watched \cup {i} ELSE Watched
  BY <1>3, <1>4, OwnWatcher DEF Watched
<1>7. QED BY <1>4, <1>5, <1>6, UserCodeRefines DEF Watchers!Add, Added, Watched, Due

\* remove_io forgets the object and its pending event.
LEMMA RemoveRefines == ASSUME IInv, NEW i \in IOs, remove_io(i) PROVE Watchers!Remove(i)
<1>1. /\ index' = [index EXCEPT ![i] = 0] /\ index[i] # 0
      /\ active' = active \ {index[i]} /\ pending' = pending \ {index[i]}
      /\ held' = held /\ running' = running /\ i \in held
      /\ index \in [IOs -> 0 .. Len(sio)] /\ UserCode
  BY DEF remove_io, ev_io_stop, users, IInv, TypeOK
<1>2. Added' = Added \ {i} /\ i \in Added
  BY <1>1 DEF Added
<1>3. Watched' = Watched \ {i} /\ Due' = Due \ {i}
  BY <1>1, OwnWatcher DEF Watched, Due
<1>4. QED BY <1>1, <1>2, <1>3, UserCodeRefines DEF Watchers!Remove, Added, Watched, Due

\* stop_io forgets the pending event.
LEMMA StopRefines == ASSUME IInv, NEW i \in IOs, stop_io(i) PROVE Watchers!Stop(i)
<1>1. /\ index' = index /\ index[i] # 0
      /\ active' = active \ {index[i]} /\ pending' = pending \ {index[i]}
      /\ held' = held /\ running' = running /\ i \in held /\ UserCode
  BY DEF stop_io, ev_io_stop, users
<1>2. Added' = Added /\ i \in Added
  BY <1>1 DEF Added
<1>3. Watched' = Watched \ {i} /\ Due' = Due \ {i}
  BY <1>1, OwnWatcher DEF Watched, Due
<1>4. QED BY <1>1, <1>2, <1>3, UserCodeRefines DEF Watchers!Stop, Added, Watched, Due

\* start_io watches the object.
LEMMA StartRefines == ASSUME IInv, NEW i \in IOs, start_io(i) PROVE Watchers!Start(i)
<1>1. /\ index' = index /\ index[i] # 0
      /\ active' = active \cup {index[i]} /\ pending' = pending
      /\ held' = held /\ running' = running /\ i \in held /\ UserCode
  BY DEF start_io, ev_io_start, users
<1>2. Added' = Added /\ i \in Added /\ Due' = Due
  BY <1>1 DEF Added, Due
<1>3. Watched' = Watched \cup {i}
  BY <1>1, OwnWatcher DEF Watched
<1>4. QED BY <1>1, <1>2, <1>3, UserCodeRefines DEF Watchers!Start, Added, Watched, Due

\* A poll collects events of watched objects.
LEMMA PollRefines ==
  ASSUME IInv, NEW P \in SUBSET active, backend_poll(P)
  PROVE  \E S \in SUBSET IOs : Watchers!Collect(S)
<1>1. PICK S \in SUBSET IOs : S = {i \in IOs : index[i] \in P}
  OBVIOUS
<1>2. PICK s \in P : TRUE
  BY DEF backend_poll
<1>3. sio[s] \in IOs /\ index[sio[s]] = s
  BY OwnWatcher
<1>4. S # {} /\ S \subseteq Watched /\ Due' = S \cap held /\ Due = {}
  BY <1>1, <1>2, <1>3, OwnWatcher DEF Watched, Due, backend_poll, users
<1>5. Watchers!Collect(S)
  BY <1>4 DEF Watchers!Collect, backend_poll, users, Watched, Due
<1>6. QED BY <1>5

\* The callback of a watcher handles its object's event, or does nothing when
\* the object has gone.
LEMMA CallbackRefines ==
  ASSUME IInv, NEW s \in pending, ev_io_common_cb(s)
  PROVE  (\E i \in IOs : Watchers!Handle(i)) \/ UNCHANGED Watchers!vars
<1>1. s \in active /\ sio[s] \in IOs /\ index[sio[s]] = s /\ s # 0
  BY OwnWatcher
<1>2. CASE sio[s] \in held
  <2>0. PICK i \in IOs : i = sio[s]
    BY <1>1
  <2>1. running' = i /\ i \in Due /\ Due' = Due \ {i}
    BY <1>1, <1>2, <2>0, OwnWatcher DEF ev_io_common_cb, users, Due
  <2>2. Watchers!Handle(i)
    BY <2>1 DEF Watchers!Handle, ev_io_common_cb, users, Due
  <2>3. QED BY <2>2
<1>3. CASE sio[s] \notin held
  <2>1. Due' = Due /\ running' = running
    BY <1>1, <1>3, OwnWatcher DEF ev_io_common_cb, users, Due
  <2>2. QED BY <2>1 DEF Watchers!vars, ev_io_common_cb, users, Due
<1>4. QED BY <1>2, <1>3

\* Every step of the loop is a step of the registry or changes nothing there.
LEMMA NextRefines ==
  ASSUME IInv, [Next]_vars
  PROVE  [Watchers!Next]_(Watchers!vars)
<1>1. ASSUME NEW i \in IOs,
             Create(i) \/ Drop(i) \/ remove_io(i) \/ stop_io(i) \/ start_io(i)
      PROVE  Watchers!Next
  BY <1>1, CreateRefines, DropRefines, RemoveRefines, StopRefines, StartRefines
     DEF Watchers!Next
<1>2. ASSUME NEW i \in IOs, NEW start \in BOOLEAN, AddNew(i, start) \/ AddReuse(i, start)
      PROVE  Watchers!Next
  BY <1>2, AddNewRefines, AddReuseRefines DEF Watchers!Next
<1>3. ASSUME NEW P \in SUBSET active, backend_poll(P) PROVE Watchers!Next
  BY <1>3, PollRefines DEF Watchers!Next
<1>4. ASSUME NEW s \in pending, ev_io_common_cb(s)
      PROVE  Watchers!Next \/ UNCHANGED Watchers!vars
  BY <1>4, CallbackRefines DEF Watchers!Next
<1>5. CASE Return
  <2>1. Watchers!Return
    BY <1>5 DEF Return, Watchers!Return, table, users
  <2>2. QED BY <2>1 DEF Watchers!Next
<1>6. CASE UNCHANGED vars
  BY <1>6 DEF vars, table, users, Watchers!vars
<1>7. QED BY <1>1, <1>2, <1>3, <1>4, <1>5, <1>6 DEF Next

\* Loop implements Registry for every set of objects: an event reaches the
\* object it was collected for or none, however callbacks reuse slots.
THEOREM Delivery == Spec => EventsReachTheirIO
<1>1. IInv /\ [Next]_vars => [Watchers!Next]_(Watchers!vars)
  BY NextRefines
<1>2. QED BY <1>1, InitRefines, TableConsistent, PTL
          DEF Spec, EventsReachTheirIO, Watchers!Spec

-----------------------------------------------------------------------------
(* The thread of a loop. *)

\* The promise is kept when the loop is set up, or when the thread ends before that;
\* the pointer to the loop is there before the promise. process_end is called by the
\* threads that have entered their loop, and by no other.
Started ==
  /\ owner = "start" <=> at = "unborn"
  /\ at \in Inside \cup {"end"} => created = "true"
  /\ created \in {"true", "false"} \/ at = "report" => known
  /\ owner = "failed" => created = "exception"
  /\ owner \in {"up", "flag", "skip", "ask", "unskip", "write", "join", "stopped"} =>
       created \in {"true", "false"}
  /\ owner = "stopped" => at = "gone"
  /\ ended <=> at = "gone" /\ created = "true"

\* What the thread's flags say of where it is.
Flagged ==
  /\ pipe_write_wanted <=> at \in {"look", "poll", "unwant"}
  /\ woken => pipe /\ at \in {"unwant", "feed", "pipe"}
  /\ loop_done => at \in {"test", "end", "gone"}

\* Nobody has sent anything to the loop.
Untouched ==
  /\ ~ async_pending /\ ~ pipe_write_skipped /\ ~ pipe /\ ~ loop_done
  /\ at \notin {"pipe", "clear", "async", "sent"}

\* The quit waits for pipecb to be called, pipecb is called or will be before the thread
\* blocks, the quit has come.
Asked    == sent /\ async_pending
Noticed  == pipe_write_skipped \/ at \in {"pipe", "clear", "async"}
QuitCame == loop_done \/ (at = "sent" /\ sent)

\* How far the quit is, at each step of the owner.
QuitSteps ==
  at \notin {"end", "gone"} =>
    /\ owner \in {"start", "run", "up", "failed"} => Untouched /\ ~ sent
    /\ owner = "flag" => Untouched /\ sent
    /\ owner = "skip" =>
         /\ Asked /\ ~ pipe_write_skipped /\ ~ pipe /\ ~ loop_done
         /\ at \notin {"pipe", "clear", "async", "sent"}
    /\ owner \in {"ask", "unskip"} => ~ pipe /\ (QuitCame \/ (Asked /\ Noticed))
    /\ owner = "write" => ~ pipe /\ (QuitCame \/ Asked)
    /\ owner = "join" =>
         QuitCame \/ /\ Asked /\ (Noticed \/ pipe)
                     /\ at = "poll" => ~ block \/ pipe

ThreadInv == ThreadTypeOK /\ Started /\ Flagged /\ QuitSteps

LEMMA ThreadBegins == ThreadInit => ThreadInv
BY DEF ThreadInit, ThreadInv, ThreadTypeOK, Started, Flagged, QuitSteps, Untouched, Before, Inside

\* A step of the owner.
LEMMA OwnerSteps ==
  ASSUME ThreadInv, Run \/ Stop \/ Owner
  PROVE  ThreadInv'
<1> USE DEF ThreadInv, ThreadTypeOK, Started, Flagged, QuitSteps,
            Untouched, Asked, Noticed, QuitCame, Before, Inside, handshake, wake, run
<1>1. CASE Run BY <1>1 DEF Run
<1>2. CASE RunReturns BY <1>2 DEF RunReturns
<1>3. CASE Stop BY <1>3 DEF Stop
<1>4. CASE SendFlag BY <1>4 DEF SendFlag
<1>5. CASE SendSkip BY <1>5 DEF SendSkip
<1>6. CASE SendAsk BY <1>6 DEF SendAsk
<1>7. CASE SendUnskip BY <1>7 DEF SendUnskip
<1>8. CASE SendWrite BY <1>8 DEF SendWrite
<1>9. CASE Join BY <1>9 DEF Join
<1>10. QED BY <1>1, <1>2, <1>3, <1>4, <1>5, <1>6, <1>7, <1>8, <1>9 DEF Owner

\* A step of the thread.
LEMMA ThreadSteps ==
  ASSUME ThreadInv, Thread \/ Poll(TRUE)
  PROVE  ThreadInv'
<1> USE DEF ThreadInv, ThreadTypeOK, Started, Flagged, QuitSteps,
            Untouched, Asked, Noticed, QuitCame, Before, Inside, handshake, wake, run
<1>1. CASE LoopInit BY <1>1 DEF LoopInit
<1>2. CASE Prepare BY <1>2 DEF Prepare
<1>3. CASE Publish BY <1>3 DEF Publish
<1>4. CASE Report BY <1>4 DEF Report
<1>5. CASE Enter BY <1>5 DEF Enter
<1>6. CASE Want BY <1>6 DEF Want
<1>7. CASE Look BY <1>7 DEF Look
<1>8. CASE Unwant BY <1>8 DEF Unwant
<1>9. CASE Feed BY <1>9 DEF Feed
<1>10. CASE PipeRead BY <1>10 DEF PipeRead
<1>11. CASE PipeClear BY <1>11 DEF PipeClear
<1>12. CASE PipeAsync BY <1>12 DEF PipeAsync
<1>13. CASE PipeSent BY <1>13 DEF PipeSent
<1>14. CASE Test BY <1>14 DEF Test
<1>15. CASE End BY <1>15 DEF End
<1>16. ASSUME NEW other \in BOOLEAN, Poll(other) PROVE ThreadInv' BY <1>16 DEF Poll
<1>17. QED BY <1>1, <1>2, <1>3, <1>4, <1>5, <1>6, <1>7, <1>8, <1>9, <1>10, <1>11, <1>12, <1>13, <1>14, <1>15, <1>16 DEF Thread

\* What stop() has sent is not lost, and process_end is called when the loop has run.
THEOREM ThreadInvariance == ThreadSpec => []ThreadInv
<1>1. ThreadInit => ThreadInv BY ThreadBegins
<1>2. ASSUME ThreadInv, [ThreadNext]_ThreadVars PROVE ThreadInv'
  <2>1. CASE ThreadNext BY <1>2, <2>1, OwnerSteps, ThreadSteps DEF ThreadNext
  <2>2. CASE UNCHANGED ThreadVars
    BY <1>2, <2>2 DEF ThreadVars, handshake, wake, run, ThreadInv, ThreadTypeOK, Started, Flagged,
       QuitSteps, Untouched, Asked, Noticed, QuitCame, Before, Inside
  <2>3. QED BY <1>2, <2>1, <2>2
<1>3. QED BY <1>1, <1>2, PTL DEF ThreadSpec

\* The loop cannot fall asleep over the quit that a stop() in join waits for.
THEOREM QuitArrives == ThreadSpec => []QuitOnItsWay
<1>1. ThreadInv => QuitOnItsWay
  BY DEF ThreadInv, Flagged, QuitSteps, QuitOnItsWay, Asked, Noticed, QuitCame, Inside
<1>2. QED BY <1>1, ThreadInvariance, PTL

=============================================================================
