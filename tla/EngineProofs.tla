----------------------------- MODULE EngineProofs -----------------------------
(* Proofs about the engine, for any number of adds, removers, clients and   *)
(* torrents, and any bounds.                                                *)
EXTENDS Engine, FiniteSetTheorems, TLAPS

(* What the type invariant needs to be inductive: an id is known in the     *)
(* phases that use it.                                                      *)
AddShape ==
    \A a \in Add :
        /\ add[a].phase \in {"answered", "registered", "stamped"} => add[a].id \in Id
        /\ add[a].phase \in {"idle", "resolving"} => add[a].id = NoId
        /\ add[a].phase = "resolving" => add[a].hash \in Hash

RemovalShape ==
    \A d \in Remover :
        removal[d].phase \in {"deleting", "deleted", "forgotten", "unstamped"}
            => removal[d].id \in Id

(* pending is left out: that it is a natural number takes counting.         *)
Typed ==
    /\ session \in [Id -> Hash \cup {NoTorrent}]
    /\ nextId \in 1 .. MaxId + 1
    /\ registry \in SUBSET Id
    /\ added \in [Id -> Time \cup {Never}]
    /\ addedFile \in [Id -> Time \cup {Never}]
    /\ add \in [Add -> [phase : AddPhase, hash : Hash \cup {NoTorrent}, id : Id \cup {NoId}]]
    /\ errors \in SUBSET Add
    /\ told \in [Add -> Nat]
    /\ removal \in [Remover -> [phase : RemovalPhase, id : Id \cup {NoId}, batch : SUBSET Id]]
    /\ now \in Time
    /\ faults \in 0 .. MaxFaults /\ unsaved \in BOOLEAN /\ stray \in SUBSET Id
    /\ AddShape
    /\ RemovalShape

(* A torrent whose entries a removal is still dropping is never one the     *)
(* session manages, now or later, for the session numbers upwards.          *)
RemovedForGood ==
    \A d \in Remover : removal[d].phase \in {"deleted", "forgotten"} =>
                          removal[d].id \notin Managed /\ removal[d].id < nextId

ManagedNumbered == \A id \in Managed : id < nextId

AddsNumbered == \A a \in Add : add[a].id \in Id => add[a].id < nextId

(* The torrent of an add whose task went on after the session's answer.     *)
Arrived(a) == /\ add[a].phase \in {"registered", "stamped", "settled", "done"}
              /\ add[a].id \in Id

ArrivedListed ==
    \A a \in Add : Arrived(a) /\ add[a].id \in Managed => add[a].id \in registry

Tracking == /\ RemovedForGood /\ ManagedNumbered /\ AddsNumbered
            /\ ArrivedListed /\ ManagedTracked

IInv == Typed /\ AddedSaved /\ Tracking /\ ErrorsToldOnce
-----------------------------------------------------------------------------
(* A step is a step of one of the three kinds of actors, a restart or a     *)
(* tick of the clock.                                                       *)
LEMMA TypedInit == ASSUME Init PROVE Typed
<1>1. 0 \in 0 .. MaxFaults /\ 1 \in 1 .. MaxId + 1 /\ 0 \in Time
  BY BoundsAssumption DEF Time
<1> QED BY <1>1
   DEF Init, Typed, AddShape, RemovalShape, IdleAdd, IdleRemoval, AddPhase, RemovalPhase

(* A save writes a map of add-times or leaves one, and counts its failure.  *)
LEMMA SaveTyped ==
    ASSUME NEW file \in [Id -> Time \cup {Never}], NEW map \in [Id -> Time \cup {Never}],
           faults \in 0 .. MaxFaults, SaveAdded(file, map)
    PROVE  /\ addedFile' \in [Id -> Time \cup {Never}]
           /\ faults' \in 0 .. MaxFaults
           /\ unsaved' \in BOOLEAN
<1>1. NoAges \in [Id -> Time \cup {Never}]
  BY DEF NoAges
<1>2. addedFile' \in [Id -> Time \cup {Never}] /\ unsaved' \in BOOLEAN
  BY <1>1 DEF SaveAdded
<1>3. faults' \in 0 .. MaxFaults
  BY BoundsAssumption DEF SaveAdded
<1> QED BY <1>2, <1>3

(* Each variable stays in its range, and ids are known where they are used. *)
LEMMA TypedAdd ==
    ASSUME Typed, NEW a \in Add, AddStep(a)
    PROVE  Typed'
<1> USE DEF Typed, AddShape, RemovalShape, AddPhase
<1>1. ASSUME NEW h \in Hash, Spawn(a, h) PROVE Typed'
  BY <1>1 DEF Spawn, librqbit, ages, report, clock, lapses
<1>2. CASE Answer(a)
  <2>1. PICK id \in IdFor(add[a].hash) :
          /\ session' = [session EXCEPT ![id] = add[a].hash]
          /\ nextId' = IF id = nextId THEN nextId + 1 ELSE nextId
          /\ add' = [add EXCEPT ![a] = [phase |-> "answered", hash |-> @.hash, id |-> id]]
    BY <1>2 DEF Answer
  <2>2. id \in Id
    BY DEF IdFor
  <2>3. nextId' \in 1 .. MaxId + 1
    BY <2>1, <2>2, BoundsAssumption DEF Id
  <2>4. session' \in [Id -> Hash \cup {NoTorrent}]
    BY <2>1, <2>2
  <2>5. add' \in [Add -> [phase : AddPhase, hash : Hash \cup {NoTorrent}, id : Id \cup {NoId}]]
    <3>1. add[a].hash \in Hash \cup {NoTorrent}
      OBVIOUS
    <3> QED BY <2>1, <2>2, <3>1 DEF AddPhase
  <2>6. AddShape'
    BY <2>1, <2>2
  <2>7. UNCHANGED <<registry, added, addedFile, errors, told, removal, now, faults, unsaved, stray>>
    BY <1>2 DEF Answer, ages, report, clock, lapses
  <2> QED BY <2>3, <2>4, <2>5, <2>6, <2>7
<1>3. CASE GiveUp(a)
  BY <1>3 DEF GiveUp, librqbit, ages, clock, lapses
<1>4. CASE Register(a)
  BY <1>4 DEF Register, librqbit, ages, report, clock, lapses
<1>5. CASE Stamp(a)
  BY <1>5 DEF Stamp, librqbit, report, clock, lapses
<1>6. CASE SaveStamp(a)
  BY <1>6, SaveTyped DEF SaveStamp, librqbit, report, clock
<1>7. CASE Finish(a)
  BY <1>7 DEF Finish, librqbit, ages, clock, lapses
<1> QED BY <1>1, <1>2, <1>3, <1>4, <1>5, <1>6, <1>7 DEF AddStep

LEMMA TypedRemover ==
    ASSUME Typed, NEW d \in Remover, RemoverStep(d)
    PROVE  Typed'
<1> USE DEF Typed, AddShape, RemovalShape, RemovalPhase
<1>1. ASSUME NEW id \in Id, Begin(d, id) PROVE Typed'
  BY <1>1 DEF Begin, librqbit, ages, report, clock, lapses
<1>2. CASE Sweep(d)
  BY <1>2 DEF Sweep, Expired, librqbit, ages, report, clock, lapses
<1>3. CASE SweepNext(d)
  BY <1>3 DEF SweepNext, librqbit, ages, report, clock, lapses
<1>4. CASE SessionDelete(d)
  BY <1>4 DEF SessionDelete, Dropped, ages, report, clock, lapses
<1>5. CASE DeleteFails(d)
  <2>1. faults' \in 0 .. MaxFaults
    BY <1>5, BoundsAssumption DEF DeleteFails
  <2> QED BY <1>5, <2>1 DEF DeleteFails, CutOff, Dropped, Rest, IdleRemoval, ages, report, clock
<1>6. CASE Forget(d)
  BY <1>6 DEF Forget, librqbit, ages, report, clock, lapses
<1>7. CASE Unstamp(d)
  BY <1>7 DEF Unstamp, librqbit, report, clock, lapses
<1>8. CASE SaveRemoval(d)
  BY <1>8, SaveTyped DEF SaveRemoval, Rest, IdleRemoval, librqbit, report, clock
<1>9. CASE Cancel(d)
  BY <1>9 DEF Cancel, CutOff, Dropped, IdleRemoval, ages, report, clock, lapses
<1> QED BY <1>1, <1>2, <1>3, <1>4, <1>5, <1>6, <1>7, <1>8, <1>9 DEF RemoverStep, DeleteStep

LEMMA TypedPoll ==
    ASSUME Typed, NEW p \in Poller, PollStep(p)
    PROVE  Typed'
<1> USE DEF Typed, AddShape, RemovalShape
<1>1. CASE LoadPending(p)
  BY <1>1 DEF LoadPending, librqbit, ages, report, clock, lapses
<1>2. CASE DrainErrors(p)
  BY <1>2 DEF DrainErrors, librqbit, ages, clock, lapses
<1>3. CASE List(p)
  BY <1>3 DEF List, librqbit, ages, report, clock, lapses
<1>4. CASE Reply(p)
  BY <1>4 DEF Reply, librqbit, ages, report, clock, lapses
<1> QED BY <1>1, <1>2, <1>3, <1>4 DEF PollStep

LEMMA TypedRestart ==
    ASSUME Typed, Restart
    PROVE  Typed'
<1> USE DEF Typed, AddShape, RemovalShape
<1>1. session' \in [Id -> Hash \cup {NoTorrent}] /\ registry' \in SUBSET Id
  BY DEF Restart, Managed
<1>2. nextId' \in 1 .. MaxId + 1
  BY BoundsAssumption DEF Restart
<1>3. added' \in [Id -> Time \cup {Never}]
  BY DEF Restart, InitAdded, Loadable, NoAges
<1>4. /\ addedFile' \in [Id -> Time \cup {Never}]
      /\ faults' \in 0 .. MaxFaults /\ unsaved' \in BOOLEAN
  BY <1>3, SaveTyped DEF Restart, Loadable, NoAges
<1> QED BY <1>1, <1>2, <1>3, <1>4 DEF Restart, IdleAdd, LostAdd, IdleRemoval, AddPhase, RemovalPhase

LEMMA TypedNext ==
    ASSUME Typed, [Next]_vars
    PROVE  Typed'
<1>1. CASE Tick
  BY <1>1, BoundsAssumption
     DEF Tick, Typed, AddShape, RemovalShape, Time, librqbit, ages, report, lapses
<1>2. CASE UNCHANGED vars
  BY <1>2 DEF Typed, AddShape, RemovalShape, vars, librqbit, ages, report, clock, lapses
<1> QED BY <1>1, <1>2, TypedAdd, TypedRemover, TypedPoll, TypedRestart DEF Next

-----------------------------------------------------------------------------
(* torrent_added.json.  Only Stamp and Unstamp change the map in memory     *)
(* alone, and both leave their task about to save it; a save that fails     *)
(* leaves `unsaved` set until one succeeds.                                 *)
LEMMA SavedNext ==
    ASSUME Typed, AddedSaved, [Next]_vars
    PROVE  AddedSaved'
<1> USE DEF Typed, AddedSaved, Saving
<1>1. ASSUME NEW a \in Add, AddStep(a) PROVE AddedSaved'
  <2>1. CASE SaveStamp(a)
    BY <2>1 DEF SaveStamp, SaveAdded
  <2>2. CASE Stamp(a)
    BY <2>2 DEF Stamp
  <2>3. CASE (\E h \in Hash : Spawn(a, h)) \/ Answer(a) \/ GiveUp(a) \/ Register(a) \/ Finish(a)
    <3>1. UNCHANGED <<added, addedFile, unsaved, removal>>
      BY <2>3 DEF Spawn, Answer, GiveUp, Register, Finish, ages, lapses
    <3>2. \A b \in Add : add[b].phase = "stamped" => add'[b].phase = "stamped"
      BY <2>3 DEF Spawn, Answer, GiveUp, Register, Finish
    <3> QED BY <3>1, <3>2
  <2> QED BY <1>1, <2>1, <2>2, <2>3 DEF AddStep
<1>2. ASSUME NEW d \in Remover, RemoverStep(d) PROVE AddedSaved'
  <2>1. CASE SaveRemoval(d)
    BY <2>1 DEF SaveRemoval, SaveAdded
  <2>2. CASE Unstamp(d)
    BY <2>2 DEF Unstamp
  <2>3. ASSUME ~SaveRemoval(d), ~Unstamp(d)
        PROVE  /\ UNCHANGED <<added, addedFile, unsaved, add>>
               /\ \A e \in Remover : removal[e].phase = "unstamped" =>
                                     removal'[e].phase = "unstamped"
    BY <1>2, <2>3 DEF RemoverStep, DeleteStep, Begin, Sweep, SweepNext, SessionDelete,
                      DeleteFails, Cancel, Forget, ages, lapses
  <2> QED BY <2>1, <2>2, <2>3
<1>3. ASSUME NEW p \in Poller, PollStep(p) PROVE AddedSaved'
  BY <1>3 DEF PollStep, LoadPending, DrainErrors, List, Reply, ages, lapses
<1>4. CASE Restart
  BY <1>4 DEF Restart, SaveAdded
<1>5. CASE Tick \/ UNCHANGED vars
  BY <1>5 DEF Tick, vars, ages, lapses
<1> QED BY <1>1, <1>2, <1>3, <1>4, <1>5 DEF Next

-----------------------------------------------------------------------------
(* What the session manages is tracked.                                     *)
LEMMA TrackingAdd ==
    ASSUME Typed, Tracking, NEW a \in Add, AddStep(a)
    PROVE  Tracking'
<1> USE DEF Typed, AddShape, RemovalShape, Tracking, RemovedForGood, ManagedNumbered, AddsNumbered,
            Arrived, ArrivedListed, ManagedTracked, Managed
<1>1. CASE Answer(a)
  <2> HIDE DEF Typed, AddShape, RemovalShape, Tracking, RemovedForGood, ManagedNumbered, AddsNumbered,
               Arrived, ArrivedListed, ManagedTracked, Managed
  <2>1. PICK id \in IdFor(add[a].hash) :
          /\ session' = [session EXCEPT ![id] = add[a].hash]
          /\ nextId' = IF id = nextId THEN nextId + 1 ELSE nextId
          /\ add' = [add EXCEPT ![a] = [phase |-> "answered", hash |-> @.hash, id |-> id]]
    BY <1>1 DEF Answer
  <2>2. /\ id \in Id /\ Id \subseteq Nat /\ nextId \in Nat
        /\ session \in [Id -> Hash \cup {NoTorrent}] /\ add[a].hash \in Hash \cup {NoTorrent}
    BY DEF IdFor, Id, Typed
  <2>3. UNCHANGED <<registry, added, removal>>
    BY <1>1 DEF Answer, ages
  <2>4. id = nextId \/ session[id] = add[a].hash
    BY DEF IdFor
  <2>5. session'[id] = add[a].hash /\ \A e \in Id : e # id => session'[e] = session[e]
    BY <2>1, <2>2
  <2>6. Managed' \subseteq Managed \cup {id}
    BY <2>5 DEF Managed
  <2>7. id \in Managed' => id \in Managed \/ id = nextId
    BY <2>2, <2>4, <2>5 DEF Managed
  <2>8. nextId' \in Nat /\ nextId <= nextId' /\ (id = nextId => nextId' = nextId + 1)
    BY <2>1, <2>2
  <2>9. RemovedForGood'
    <3> SUFFICES ASSUME NEW d \in Remover, removal[d].phase \in {"deleted", "forgotten"}
                 PROVE  removal[d].id \notin Managed' /\ removal[d].id < nextId'
      BY <2>3 DEF RemovedForGood
    <3>1. PICK r \in Id : r = removal[d].id /\ r \notin Managed /\ r < nextId
      BY DEF Typed, RemovalShape, Tracking, RemovedForGood
    <3>2. r \notin Managed'
      BY <3>1, <2>2, <2>6, <2>7
    <3>3. r < nextId'
      BY <3>1, <2>2, <2>8
    <3> QED BY <3>1, <3>2, <3>3
  <2>10. ManagedNumbered'
    <3>1. \A e \in Managed : e \in Nat /\ e < nextId
      BY <2>2 DEF Tracking, ManagedNumbered, Managed
    <3> QED BY <3>1, <2>2, <2>6, <2>7, <2>8 DEF ManagedNumbered
  <2>11. add'[a].phase = "answered" /\ add'[a].id = id /\ \A b \in Add : b # a => add'[b] = add[b]
    BY <2>1 DEF Typed
  <2>12. ArrivedListed'
    <3> SUFFICES ASSUME NEW b \in Add, Arrived(b)', add'[b].id \in Managed'
                 PROVE  add'[b].id \in registry
      BY <2>3 DEF ArrivedListed
    <3>1. b # a /\ add'[b] = add[b]
      BY <2>11 DEF Arrived
    <3>2. add[b].id \in Id /\ add[b].id \in Nat /\ add[b].id < nextId
      BY <3>1, <2>2 DEF Arrived, Tracking, AddsNumbered
    <3>3. add[b].id \in Managed
      BY <3>1, <3>2, <2>2, <2>6, <2>7
    <3> QED BY <3>1, <3>3 DEF Tracking, ArrivedListed, Arrived
  <2>13. AddsNumbered'
    <3> SUFFICES ASSUME NEW b \in Add, add'[b].id \in Id
                 PROVE  add'[b].id < nextId'
      BY DEF AddsNumbered
    <3>1. CASE b = a
      <4>1. id = nextId \/ id \in Managed
        BY <1>1, <2>2, <2>4, SentinelAssumption DEF Answer, Typed, AddShape, Managed
      <4> QED BY <3>1, <4>1, <2>2, <2>8, <2>11 DEF Tracking, ManagedNumbered
    <3>2. CASE b # a
      <4>1. add[b].id \in Id /\ add[b].id \in Nat /\ add[b].id < nextId
        BY <3>2, <2>2, <2>11 DEF Tracking, AddsNumbered
      <4> QED BY <3>2, <4>1, <2>2, <2>8, <2>11
    <3> QED BY <3>1, <3>2
  <2>14. ManagedTracked'
    <3> SUFFICES ASSUME NEW e \in Managed'
                 PROVE  \/ e \in registry /\ added[e] # Never
                        \/ \E b \in Add : add'[b].id = e /\ add'[b].phase \in {"answered", "registered"}
      BY <2>3 DEF ManagedTracked
    <3>1. CASE e = id
      BY <3>1, <2>11
    <3>2. CASE e # id
      <4>1. e \in Managed
        BY <3>2, <2>6
      <4>2. add[a].phase \notin {"answered", "registered"}
        BY <1>1 DEF Answer
      <4> QED BY <4>1, <4>2, <2>11 DEF Tracking, ManagedTracked
    <3> QED BY <3>1, <3>2
  <2> QED BY <2>9, <2>10, <2>12, <2>13, <2>14 DEF Tracking
<1>2. ASSUME NEW h \in Hash, Spawn(a, h) PROVE Tracking'
  BY <1>2 DEF Spawn, librqbit, ages
<1>3. CASE GiveUp(a)
  BY <1>3, SentinelAssumption DEF GiveUp, librqbit, ages
<1>4. CASE Register(a)
  BY <1>4 DEF Register, librqbit, ages
<1>5. CASE Stamp(a)
  <2>1. now # Never
    BY SentinelAssumption
  <2>2. UNCHANGED <<session, nextId, registry, removal>>
    BY <1>5 DEF Stamp, librqbit
  <2> QED BY <1>5, <2>1, <2>2 DEF Stamp
<1>6. CASE SaveStamp(a)
  BY <1>6 DEF SaveStamp, librqbit
<1>7. CASE Finish(a)
  BY <1>7 DEF Finish, librqbit, ages
<1> QED BY <1>1, <1>2, <1>3, <1>4, <1>5, <1>6, <1>7 DEF AddStep

LEMMA TrackingRemover ==
    ASSUME Typed, Tracking, NEW d \in Remover, RemoverStep(d)
    PROVE  Tracking'
<1> USE DEF Typed, AddShape, RemovalShape, Tracking, RemovedForGood, ManagedNumbered, AddsNumbered,
            Arrived, ArrivedListed, ManagedTracked, Managed
<1>1. ASSUME NEW id \in Id, Begin(d, id) PROVE Tracking'
  BY <1>1 DEF Begin, librqbit, ages
<1>2. CASE Sweep(d)
  BY <1>2 DEF Sweep, librqbit, ages
<1>3. CASE SweepNext(d)
  BY <1>3 DEF SweepNext, librqbit, ages
<1>4. CASE SessionDelete(d)
  BY <1>4 DEF SessionDelete, Dropped, ages
<1>5. CASE DeleteFails(d)
  BY <1>5 DEF DeleteFails, CutOff, Dropped, Rest, IdleRemoval, ages
<1>6. CASE Forget(d)
  BY <1>6 DEF Forget, librqbit, ages
<1>7. CASE Unstamp(d)
  BY <1>7 DEF Unstamp, librqbit
<1>8. CASE SaveRemoval(d)
  BY <1>8 DEF SaveRemoval, Rest, IdleRemoval, librqbit
<1>9. CASE Cancel(d)
  BY <1>9 DEF Cancel, CutOff, Dropped, IdleRemoval, ages
<1> QED BY <1>1, <1>2, <1>3, <1>4, <1>5, <1>6, <1>7, <1>8, <1>9 DEF RemoverStep, DeleteStep

LEMMA TrackingNext ==
    ASSUME Typed, Tracking, [Next]_vars
    PROVE  Tracking'
<1> USE DEF Typed, Tracking, RemovedForGood, ManagedNumbered, AddsNumbered, Arrived,
            ArrivedListed, ManagedTracked, Managed
<1>1. ASSUME NEW p \in Poller, PollStep(p) PROVE Tracking'
  BY <1>1 DEF PollStep, LoadPending, DrainErrors, List, Reply, librqbit, ages
<1>2. CASE Restart
  <2>1. PICK restored \in SUBSET Managed :
          /\ session' = [id \in Id |-> IF id \in restored THEN session[id] ELSE NoTorrent]
          /\ registry' = restored
          /\ nextId' \in {n \in 1 .. nextId : \A id \in restored : id < n}
    BY <1>2 DEF Restart
  <2>2. Managed' = restored
    BY <2>1
  <2>3. \A id \in restored : added'[id] # Never
    <3>1. PICK loaded \in Loadable : added' = InitAdded(loaded)
      BY <1>2 DEF Restart
    <3> QED BY <2>1, <3>1, SentinelAssumption DEF InitAdded
  <2>4. /\ add' = [a \in Add |-> IF add[a] = IdleAdd THEN IdleAdd ELSE LostAdd]
        /\ removal' = [d \in Remover |-> IdleRemoval]
    BY <1>2 DEF Restart
  <2> QED BY <2>1, <2>2, <2>3, <2>4, SentinelAssumption DEF IdleAdd, LostAdd, IdleRemoval
<1>3. CASE Tick
  BY <1>3 DEF Tick, librqbit, ages
<1>4. CASE UNCHANGED vars
  BY <1>4 DEF vars, librqbit, ages
<1> QED BY <1>1, <1>2, <1>3, <1>4, TrackingAdd, TrackingRemover DEF Next

-----------------------------------------------------------------------------
(* Errors.                                                                  *)
LEMMA ToldNext ==
    ASSUME Typed, ErrorsToldOnce, [Next]_vars
    PROVE  ErrorsToldOnce'
<1> USE DEF Typed, AddShape, ErrorsToldOnce, Failed
<1>1. ASSUME NEW a \in Add, AddStep(a) PROVE ErrorsToldOnce'
  <2>1. ASSUME NEW h \in Hash, Spawn(a, h) PROVE ErrorsToldOnce'
    BY <2>1 DEF Spawn
  <2>2. CASE Answer(a)
    <3>1. /\ \E id \in Id : add' = [add EXCEPT ![a] = [phase |-> "answered", hash |-> @.hash, id |-> id]]
          /\ add[a].phase = "resolving"
          /\ UNCHANGED <<errors, told>>
      BY <2>2 DEF Answer, IdFor, report
    <3> QED BY <3>1, SentinelAssumption
  <2>3. CASE GiveUp(a)
    BY <2>3 DEF GiveUp
  <2>4. CASE Register(a)
    BY <2>4 DEF Register, report
  <2>5. CASE Stamp(a)
    BY <2>5 DEF Stamp, report
  <2>6. CASE SaveStamp(a)
    BY <2>6, SentinelAssumption DEF SaveStamp, report
  <2>7. CASE Finish(a)
    BY <2>7 DEF Finish
  <2> QED BY <1>1, <2>1, <2>2, <2>3, <2>4, <2>5, <2>6, <2>7 DEF AddStep
<1>2. ASSUME NEW d \in Remover, RemoverStep(d) PROVE ErrorsToldOnce'
  <2>1. UNCHANGED <<add, errors, told>>
    BY <1>2 DEF RemoverStep, DeleteStep, Begin, Sweep, SweepNext, SessionDelete,
                DeleteFails, Cancel, Forget, Unstamp, SaveRemoval, report
  <2> QED BY <2>1
<1>3. ASSUME NEW p \in Poller, PollStep(p) PROVE ErrorsToldOnce'
  <2>1. CASE DrainErrors(p)
    BY <2>1 DEF DrainErrors
  <2>2. CASE LoadPending(p) \/ List(p) \/ Reply(p)
    BY <2>2 DEF LoadPending, List, Reply, report
  <2> QED BY <1>3, <2>1, <2>2 DEF PollStep
<1>4. CASE Restart
  BY <1>4 DEF Restart, IdleAdd, LostAdd
<1>5. CASE Tick
  BY <1>5 DEF Tick, report
<1>6. CASE UNCHANGED vars
  BY <1>6 DEF vars, report
<1> QED BY <1>1, <1>2, <1>3, <1>4, <1>5, <1>6 DEF Next

-----------------------------------------------------------------------------
LEMMA IInvInit == Init => IInv
<1> SUFFICES ASSUME Init PROVE IInv
  OBVIOUS
<1>1. AddedSaved /\ Tracking /\ ErrorsToldOnce
  BY SentinelAssumption
     DEF Init, AddedSaved, Tracking, RemovedForGood, ManagedNumbered, AddsNumbered, Arrived,
         ArrivedListed, ManagedTracked, ErrorsToldOnce, Failed, Managed, IdleAdd, IdleRemoval
<1> QED BY <1>1, TypedInit DEF IInv

LEMMA IInvNext == IInv /\ [Next]_vars => IInv'
BY TypedNext, SavedNext, TrackingNext, ToldNext DEF IInv

(* The inductive invariant: types, the add-time file, tracking and errors.  *)
THEOREM IInvHolds == Spec => []IInv
BY IInvInit, IInvNext, PTL DEF Spec

(* torrent_added.json holds the add-times in memory whenever no add and no  *)
(* removal is between its change of the map and its save_added, unless the  *)
(* last write failed, which save_added does not report: no interleaving of  *)
(* saves leaves an older map behind.                                        *)
THEOREM AgesAreSaved == Spec => []AddedSaved
<1>1. IInv => AddedSaved
  BY DEF IInv
<1> QED BY <1>1, IInvHolds, PTL

(* Every torrent the session manages is in the registry with an add-time,   *)
(* or the add that brought it is about to put it there.                     *)
THEOREM ManagedAreTracked == Spec => []ManagedTracked
<1>1. IInv => ManagedTracked
  BY DEF IInv, Tracking
<1> QED BY <1>1, IInvHolds, PTL

(* No error of an add is lost or given to two polls.                        *)
THEOREM ErrorsAreToldOnce == Spec => []ErrorsToldOnce
<1>1. IInv => ErrorsToldOnce
  BY DEF IInv
<1> QED BY <1>1, IInvHolds, PTL

(* A torrent's add-time changes only when it is added again, or by a        *)
(* restart in the middle of a save or after a save that failed; any other   *)
(* restart keeps it (init_added).                                           *)
THEOREM AgesAreKept == Spec => AgeKept
<1> DEFINE Kept == \A id \in registry \cap Managed \cap registry' :
                     ~Saving /\ ~unsaved /\ added[id] # Never => added'[id] = added[id] \/ Restamped(id)
<1>1. IInv /\ [Next]_vars => [Kept]_vars
  <2> SUFFICES ASSUME IInv, Next, NEW id \in registry, id \in Managed, id \in registry',
                      ~Saving, ~unsaved, added[id] # Never
               PROVE  added'[id] = added[id] \/ Restamped(id)
    OBVIOUS
  <2> USE DEF IInv, Typed
  <2>1. ASSUME NEW a \in Add, AddStep(a) PROVE added'[id] = added[id] \/ Restamped(id)
    <3>1. CASE Stamp(a)
      BY <3>1 DEF Stamp, Restamped
    <3>2. CASE ~Stamp(a)
      BY <2>1, <3>2 DEF AddStep, Spawn, Answer, GiveUp, Register, SaveStamp, Finish, ages
    <3> QED BY <3>1, <3>2
  <2>2. ASSUME NEW d \in Remover, RemoverStep(d) PROVE added'[id] = added[id]
    <3>1. CASE Unstamp(d)
      BY <3>1 DEF Unstamp, Tracking, RemovedForGood
    <3>2. CASE ~Unstamp(d)
      BY <2>2, <3>2 DEF RemoverStep, DeleteStep, Begin, Sweep, SweepNext, SessionDelete,
                        DeleteFails, Cancel, Forget, SaveRemoval, ages
    <3> QED BY <3>1, <3>2
  <2>3. ASSUME NEW p \in Poller, PollStep(p) PROVE added'[id] = added[id]
    BY <2>3 DEF PollStep, LoadPending, DrainErrors, List, Reply, ages
  <2>4. CASE Restart
    <3>1. PICK loaded \in Loadable : added' = InitAdded(loaded)
      BY <2>4 DEF Restart
    <3>2. loaded = added
      BY <3>1 DEF Loadable, AddedSaved
    <3>3. id \in Id
      OBVIOUS
    <3> QED BY <3>1, <3>2, <3>3 DEF InitAdded
  <2>5. CASE Tick
    BY <2>5 DEF Tick, ages
  <2> QED BY <2>1, <2>2, <2>3, <2>4, <2>5 DEF Next
<1> QED BY <1>1, IInvHolds, PTL DEF Spec, AgeKept

-----------------------------------------------------------------------------
(* The count of adds, and what a poll has left to show.                     *)

InProgress == {a \in Add : add[a].phase \notin {"idle", "done", "lost"}}

(* `pending` counts the adds in progress, and those ever started are finite *)
(* in number, whatever Add is.                                              *)
Counted == IsFiniteSet(Started) /\ pending = Cardinality(InProgress)

PollsTyped ==
    /\ restarts \in 0 .. MaxRestarts
    /\ poll \in [Poller -> [phase : PollPhase, adding : Nat,
                            owed : SUBSET Add, listed : SUBSET Id]]
    /\ \A p \in Poller : poll[p].owed \subseteq Started

(* The adds accepted before a poll that only its count of adds still shows, *)
(* as far as it has read: at first those in flight, then those not told to  *)
(* any poll either, then those it does not list.  No step adds to them.     *)
Remaining(p) ==
    {a \in poll[p].owed :
        /\ poll[p].phase = "counted" => ~Arrived(a) /\ ~Failed(a)
        /\ poll[p].phase = "drained" => ~Arrived(a) /\ told[a] = 0
        /\ poll[p].phase = "listed"  => a \in Unseen(p)}

FewRemain ==
    \A p \in Poller : poll[p].phase # "idle" => Cardinality(Remaining(p)) <= poll[p].adding

Polling == Counted /\ PollsTyped /\ FewRemain

(* The adds in progress are finite in number, and `pending` is a number.    *)
LEMMA PendingTyped ==
    ASSUME Counted
    PROVE  IsFiniteSet(InProgress) /\ Cardinality(InProgress) \in Nat /\ pending \in Nat
<1>1. IsFiniteSet(InProgress)
  BY FS_Subset DEF Counted, InProgress, Started
<1> QED BY <1>1, FS_CardinalityType DEF Counted

(* Only a new add and the end of one change the sets of adds.               *)
LEMMA SetsOfAdds ==
    ASSUME Typed, [Next]_vars, ~Restart
    PROVE  \/ /\ Started' = Started /\ InProgress' = InProgress /\ pending' = pending
           \/ \E a \in Add \ Started :
                 /\ Started' = Started \cup {a} /\ InProgress' = InProgress \cup {a}
                 /\ pending' = pending + 1
           \/ \E a \in InProgress :
                 /\ Started' = Started /\ InProgress' = InProgress \ {a}
                 /\ pending' = pending - 1
<1> DEFINE Same == Started' = Started /\ InProgress' = InProgress /\ pending' = pending
<1>1. ASSUME NEW a \in Add, NEW h \in Hash, Spawn(a, h)
      PROVE  /\ a \in Add \ Started
             /\ Started' = Started \cup {a} /\ InProgress' = InProgress \cup {a}
             /\ pending' = pending + 1
  BY <1>1 DEF Spawn, Typed, Started, InProgress
<1>2. ASSUME NEW a \in Add, Finish(a)
      PROVE  /\ a \in InProgress
             /\ Started' = Started /\ InProgress' = InProgress \ {a}
             /\ pending' = pending - 1
  BY <1>2 DEF Finish, Typed, Started, InProgress
<1>3. ASSUME NEW a \in Add, Answer(a) \/ GiveUp(a) \/ Register(a) \/ Stamp(a) \/ SaveStamp(a)
      PROVE  Same
  <2>1. /\ add[a].phase \notin {"idle", "done", "lost"}
        /\ add'[a].phase \notin {"idle", "done", "lost"}
        /\ \A b \in Add : b # a => add'[b] = add[b]
    BY <1>3 DEF Answer, GiveUp, Register, Stamp, SaveStamp, Typed
  <2>2. pending' = pending
    BY <1>3 DEF Answer, GiveUp, Register, Stamp, SaveStamp, report
  <2> QED BY <2>1, <2>2 DEF Started, InProgress
<1>4. ASSUME NEW d \in Remover, RemoverStep(d) PROVE Same
  BY <1>4 DEF RemoverStep, DeleteStep, Begin, Sweep, SweepNext, SessionDelete, DeleteFails, Cancel,
              Forget, Unstamp, SaveRemoval, report, Started, InProgress
<1>5. ASSUME NEW p \in Poller, PollStep(p) PROVE Same
  BY <1>5 DEF PollStep, LoadPending, DrainErrors, List, Reply, report, Started, InProgress
<1>6. CASE Tick \/ UNCHANGED vars
  BY <1>6 DEF Tick, vars, report, Started, InProgress
<1> QED BY <1>1, <1>2, <1>3, <1>4, <1>5, <1>6 DEF Next, AddStep

(* `pending` counts the adds in progress.                                   *)
LEMMA CountedNext ==
    ASSUME Typed, Counted, [Next]_vars
    PROVE  Counted'
<1>1. CASE Restart
  <2>1. Started' = {} /\ InProgress' = {} /\ pending' = 0
    BY <1>1 DEF Restart, Started, InProgress, IdleAdd, LostAdd
  <2> QED BY <2>1, FS_EmptySet DEF Counted
<1>2. CASE ~Restart
  <2>1. IsFiniteSet(Started) /\ IsFiniteSet(InProgress) /\ pending = Cardinality(InProgress)
    BY PendingTyped DEF Counted
  <2>2. CASE Started' = Started /\ InProgress' = InProgress /\ pending' = pending
    BY <2>1, <2>2 DEF Counted
  <2>3. ASSUME NEW a \in Add \ Started,
               Started' = Started \cup {a}, InProgress' = InProgress \cup {a},
               pending' = pending + 1
        PROVE  Counted'
    <3>1. a \notin InProgress
      BY DEF Started, InProgress
    <3> QED BY <2>1, <2>3, <3>1, FS_AddElement DEF Counted
  <2>4. ASSUME NEW a \in InProgress,
               Started' = Started, InProgress' = InProgress \ {a}, pending' = pending - 1
        PROVE  Counted'
    BY <2>1, <2>4, FS_RemoveElement DEF Counted
  <2> QED BY <1>2, <2>2, <2>3, <2>4, SetsOfAdds
<1> QED BY <1>1, <1>2

(* What a poll holds keeps its type, and it owes only adds that started.    *)
LEMMA PollsTypedNext ==
    ASSUME Typed, Counted, PollsTyped, [Next]_vars
    PROVE  PollsTyped'
<1>1. CASE Restart
  <2>1. restarts' \in 0 .. MaxRestarts
    BY <1>1, BoundsAssumption DEF Restart, PollsTyped
  <2>2. poll' = [p \in Poller |-> IdlePoll]
    BY <1>1 DEF Restart
  <2> QED BY <2>1, <2>2 DEF PollsTyped, IdlePoll, PollPhase
<1>2. CASE ~Restart
  <2>1. Started \subseteq Started'
    BY <1>2, SetsOfAdds
  <2>2. ASSUME NEW p \in Poller, PollStep(p) PROVE PollsTyped'
    <3>1. pending \in Nat /\ Started \in SUBSET Add /\ registry \in SUBSET Id
      BY PendingTyped DEF Started, Typed
    <3>2. restarts' = restarts
      BY <2>2 DEF PollStep, LoadPending, DrainErrors, List, Reply, clock
    <3>3. CASE LoadPending(p)
      BY <2>1, <3>1, <3>2, <3>3 DEF LoadPending, PollsTyped, PollPhase
    <3>4. CASE DrainErrors(p)
      BY <2>1, <3>2, <3>4 DEF DrainErrors, PollsTyped, PollPhase
    <3>5. CASE List(p)
      BY <2>1, <3>1, <3>2, <3>5 DEF List, PollsTyped, PollPhase
    <3>6. CASE Reply(p)
      BY <2>1, <3>2, <3>6 DEF Reply, PollsTyped, PollPhase, IdlePoll
    <3> QED BY <2>2, <3>3, <3>4, <3>5, <3>6 DEF PollStep
  <2>3. ASSUME NEW a \in Add, AddStep(a) PROVE PollsTyped'
    <3>1. UNCHANGED <<poll, restarts>>
      BY <2>3 DEF AddStep, Spawn, Answer, GiveUp, Register, Stamp, SaveStamp, Finish, clock
    <3> QED BY <2>1, <3>1 DEF PollsTyped
  <2>4. ASSUME NEW d \in Remover, RemoverStep(d) PROVE PollsTyped'
    <3>1. UNCHANGED <<poll, restarts>>
      BY <2>4 DEF RemoverStep, DeleteStep, Begin, Sweep, SweepNext, SessionDelete, DeleteFails,
                  Cancel, Forget, Unstamp, SaveRemoval, clock
    <3> QED BY <2>1, <3>1 DEF PollsTyped
  <2>5. CASE Tick \/ UNCHANGED vars
    <3>1. UNCHANGED <<poll, restarts>>
      BY <2>5 DEF Tick, vars, clock
    <3> QED BY <2>1, <3>1 DEF PollsTyped
  <2> QED BY <1>2, <2>2, <2>3, <2>4, <2>5 DEF Next
<1> QED BY <1>1, <1>2

(* What a poll may count on once an add has started: its id does not change,*)
(* what arrived or failed has done so, an error told is told, and a torrent *)
(* the session has dropped does not come back.                              *)
LEMMA AddsProgress ==
    ASSUME Typed, Tracking, [Next]_vars, ~Restart, NEW a \in Started
    PROVE  /\ Arrived(a) => Arrived(a)'
           /\ Failed(a) => Failed(a)'
           /\ told'[a] = 0 => told[a] = 0
           /\ add[a].id \in Id => /\ add'[a].id = add[a].id
                                  /\ add[a].id \in Managed' => add[a].id \in Managed
<1> DEFINE Goal == /\ Arrived(a) => Arrived(a)'
                   /\ Failed(a) => Failed(a)'
                   /\ told'[a] = 0 => told[a] = 0
                   /\ add[a].id \in Id => /\ add'[a].id = add[a].id
                                          /\ add[a].id \in Managed' => add[a].id \in Managed
<1>0. a \in Add /\ add[a].phase \notin {"idle", "lost"} /\ told[a] \in Nat
  BY DEF Started, Typed
<1>1. ASSUME NEW b \in Add, Answer(b) PROVE Goal
  <2>1. PICK id \in IdFor(add[b].hash) :
          /\ session' = [session EXCEPT ![id] = add[b].hash]
          /\ add' = [add EXCEPT ![b] = [phase |-> "answered", hash |-> @.hash, id |-> id]]
    BY <1>1 DEF Answer
  <2>2. id \in Id /\ (id = nextId \/ session[id] = add[b].hash) /\ add[b].hash # NoTorrent
    BY <1>1, SentinelAssumption DEF IdFor, Answer, Typed, AddShape
  <2>3. add[b].phase = "resolving" /\ add[b].id \notin Id /\ told' = told
    BY <1>1, SentinelAssumption DEF Answer, Typed, AddShape, report
  <2>4. \A e \in Managed' : e \in Managed \/ e = nextId
    BY <2>1, <2>2 DEF Managed, Typed
  <2>5. add[a].id \in Id => add[a].id # nextId
    BY <1>0 DEF Tracking, AddsNumbered, Id, Typed
  <2>6. a # b => add'[a] = add[a]
    BY <1>0, <2>1 DEF Typed
  <2>7. CASE a = b
    BY <2>3, <2>7 DEF Arrived, Failed
  <2>8. CASE a # b
    BY <2>3, <2>4, <2>5, <2>6, <2>8 DEF Arrived, Failed
  <2> QED BY <2>7, <2>8
<1>2. ASSUME NEW b \in Add, AddStep(b), ~Answer(b) PROVE Goal
  <2>1. UNCHANGED <<session, told>>
    BY <1>2 DEF AddStep, Spawn, GiveUp, Register, Stamp, SaveStamp, Finish, librqbit, report
  <2>2. a # b => add'[a] = add[a]
    BY <1>0, <1>2 DEF AddStep, Spawn, GiveUp, Register, Stamp, SaveStamp, Finish, Typed
  <2>3. ASSUME a = b, NEW h \in Hash, Spawn(b, h) PROVE FALSE
    BY <1>0, <2>3 DEF Spawn
  <2>4. CASE a = b /\ (GiveUp(b) \/ Register(b) \/ Stamp(b) \/ SaveStamp(b) \/ Finish(b))
    <3>1. /\ add'[a].id = add[a].id
          /\ \/ add[a].phase = "resolving" /\ add[a].id \notin Id
             \/ add[a].phase = "answered"
             \/ /\ add[a].phase \in {"registered", "stamped"}
                /\ add[a].id \in Id
                /\ add'[a].phase \in {"stamped", "settled"}
             \/ add[a].phase = "settled" /\ add'[a].phase = "done"
      BY <1>0, <2>4, SentinelAssumption
         DEF GiveUp, Register, Stamp, SaveStamp, Finish, Typed, AddShape
    <3> QED BY <1>0, <2>1, <3>1, SentinelAssumption DEF Arrived, Failed, Managed
  <2>5. CASE a # b
    BY <2>1, <2>2, <2>5 DEF Arrived, Failed, Managed
  <2> QED BY <1>2, <2>3, <2>4, <2>5 DEF AddStep
<1>3. ASSUME NEW d \in Remover, RemoverStep(d) PROVE Goal
  <2>1. UNCHANGED <<add, told>>
    BY <1>3 DEF RemoverStep, DeleteStep, Begin, Sweep, SweepNext, SessionDelete, DeleteFails,
                Cancel, Forget, Unstamp, SaveRemoval, report
  <2>2. Managed' \subseteq Managed
    BY <1>3 DEF RemoverStep, DeleteStep, Begin, Sweep, SweepNext, SessionDelete, DeleteFails,
                Cancel, CutOff, Dropped, Forget, Unstamp, SaveRemoval, librqbit, Managed, Typed,
                RemovalShape
  <2> QED BY <2>1, <2>2 DEF Arrived, Failed
<1>4. ASSUME NEW p \in Poller, PollStep(p) PROVE Goal
  <2>1. UNCHANGED <<add, session>>
    BY <1>4 DEF PollStep, LoadPending, DrainErrors, List, Reply, librqbit
  <2>2. told'[a] = told[a] \/ told'[a] = told[a] + 1
    BY <1>0, <1>4 DEF PollStep, LoadPending, DrainErrors, List, Reply, report
  <2>3. told'[a] = 0 => told[a] = 0
    BY <1>0, <2>2
  <2> QED BY <2>1, <2>3 DEF Arrived, Failed, Managed
<1>5. CASE Tick \/ UNCHANGED vars
  BY <1>5 DEF Tick, vars, librqbit, report, Arrived, Failed, Managed
<1> QED BY <1>1, <1>2, <1>3, <1>4, <1>5 DEF Next

(* Only a client's own steps change its poll.                               *)
LEMMA PollersAlone ==
    ASSUME PollsTyped, [Next]_vars, ~Restart, NEW p \in Poller
    PROVE  poll'[p] = poll[p] \/ PollStep(p)
<1>1. ASSUME NEW q \in Poller, PollStep(q), q # p PROVE poll'[p] = poll[p]
  BY <1>1 DEF PollStep, LoadPending, DrainErrors, List, Reply, PollsTyped
<1>2. ASSUME NEW a \in Add, AddStep(a) PROVE poll' = poll
  BY <1>2 DEF AddStep, Spawn, Answer, GiveUp, Register, Stamp, SaveStamp, Finish
<1>3. ASSUME NEW d \in Remover, RemoverStep(d) PROVE poll' = poll
  BY <1>3 DEF RemoverStep, DeleteStep, Begin, Sweep, SweepNext, SessionDelete, DeleteFails,
              Cancel, Forget, Unstamp, SaveRemoval
<1>4. CASE Tick \/ UNCHANGED vars
  BY <1>4 DEF Tick, vars
<1> QED BY <1>1, <1>2, <1>3, <1>4 DEF Next

(* Whatever a poll has not shown it had not shown before: no step takes an  *)
(* add from the places where the poll is about to look for it.              *)
LEMMA RemainingShrinks ==
    ASSUME Typed, Tracking, ErrorsToldOnce, PollsTyped, [Next]_vars, ~Restart,
           NEW p \in Poller, poll[p].phase # "idle", poll'[p].phase # "idle"
    PROVE  poll'[p].adding = poll[p].adding /\ Remaining(p)' \subseteq Remaining(p)
<1>0. poll[p] \in [phase : PollPhase, adding : Nat, owed : SUBSET Add, listed : SUBSET Id]
  BY DEF PollsTyped
<1>1. CASE DrainErrors(p)
  <2>1. /\ poll[p].phase = "counted" /\ poll'[p].phase = "drained"
        /\ poll'[p].adding = poll[p].adding /\ poll'[p].owed = poll[p].owed
        /\ add' = add
    BY <1>0, <1>1 DEF DrainErrors, PollsTyped
  <2>2. ASSUME NEW a \in poll[p].owed, told'[a] = 0 PROVE ~Failed(a)
    <3>1. a \in Add /\ told[a] \in Nat
      BY <1>0 DEF Typed
    <3>2. told'[a] = IF a \in errors THEN told[a] + 1 ELSE told[a]
      BY <1>1, <3>1 DEF DrainErrors
    <3> QED BY <2>2, <3>1, <3>2 DEF ErrorsToldOnce
  <2>3. \A a \in Add : Arrived(a)' <=> Arrived(a)
    BY <2>1 DEF Arrived
  <2> QED BY <1>0, <2>1, <2>2, <2>3 DEF Remaining
<1>2. CASE List(p)
  <2>1. /\ poll[p].phase = "drained" /\ poll'[p].phase = "listed"
        /\ poll'[p].adding = poll[p].adding /\ poll'[p].owed = poll[p].owed
        /\ poll'[p].listed = registry
        /\ UNCHANGED <<add, told, session>>
    BY <1>0, <1>2 DEF List, PollsTyped, librqbit, report
  <2>2. ASSUME NEW a \in Unseen(p)' PROVE ~Arrived(a) /\ told[a] = 0
    <3>1. a \in Add /\ told[a] = 0 /\ add[a].id \notin registry /\ (add[a].id \in Id => add[a].id \in Managed)
      BY <1>0, <2>1 DEF Unseen, Managed
    <3> QED BY <3>1 DEF Tracking, ArrivedListed, Arrived
  <2>3. Unseen(p)' \subseteq poll[p].owed
    BY <2>1 DEF Unseen
  <2>4. Remaining(p)' \subseteq Unseen(p)'
    BY <2>1 DEF Remaining
  <2> QED BY <2>1, <2>2, <2>3, <2>4 DEF Remaining
<1>3. CASE ~DrainErrors(p) /\ ~List(p)
  <2>1. poll'[p] = poll[p]
    BY <1>3, PollersAlone DEF PollStep, LoadPending, Reply, PollsTyped, IdlePoll
  <2>2. ASSUME NEW a \in poll[p].owed
        PROVE  /\ Arrived(a) => Arrived(a)'
               /\ Failed(a) => Failed(a)'
               /\ told'[a] = 0 => told[a] = 0
               /\ add[a].id \in Id => /\ add'[a].id = add[a].id
                                      /\ add[a].id \in Managed' => add[a].id \in Managed
    <3>1. a \in Started
      BY DEF PollsTyped
    <3> QED BY <3>1, AddsProgress
  <2>3. ASSUME NEW a \in Unseen(p)' PROVE a \in Unseen(p)
    <3>1. /\ a \in poll[p].owed /\ told'[a] = 0 /\ add'[a].id \notin poll[p].listed
          /\ add'[a].id \in Id => add'[a].id \in Managed'
      BY <2>1 DEF Unseen
    <3>2. told[a] = 0
      BY <2>2, <3>1
    <3>3. poll[p].listed \subseteq Id
      BY <1>0
    <3>4. add[a].id \notin poll[p].listed
      BY <2>2, <3>1, <3>3
    <3>5. add[a].id \in Id => add[a].id \in Managed
      BY <2>2, <3>1
    <3> QED BY <3>1, <3>2, <3>4, <3>5 DEF Unseen
  <2>4. ASSUME NEW a \in Remaining(p)' PROVE a \in Remaining(p)
    <3>1. /\ a \in poll[p].owed
          /\ poll[p].phase = "counted" => ~Arrived(a)' /\ ~Failed(a)'
          /\ poll[p].phase = "drained" => ~Arrived(a)' /\ told'[a] = 0
          /\ poll[p].phase = "listed" => a \in Unseen(p)'
      BY <2>1 DEF Remaining
    <3> QED BY <2>2, <2>3, <3>1 DEF Remaining
  <2> QED BY <2>1, <2>4
<1> QED BY <1>1, <1>2, <1>3

(* When a poll starts, what it owes and cannot find is in progress.         *)
LEMMA PollStarts ==
    ASSUME Typed, Counted, PollsTyped, NEW p \in Poller, LoadPending(p)
    PROVE  Cardinality(Remaining(p)') <= poll'[p].adding
<1>1. /\ poll'[p].phase = "counted" /\ poll'[p].owed = Started /\ poll'[p].adding = pending
      /\ add' = add
  BY DEF LoadPending, PollsTyped
<1>2. ASSUME NEW a \in Remaining(p)' PROVE a \in InProgress
  <2>1. a \in Started /\ ~Arrived(a) /\ ~Failed(a)
    BY <1>1 DEF Remaining, Arrived, Failed
  <2> QED BY <2>1 DEF Started, InProgress, Arrived, Failed, Typed
<1>3. IsFiniteSet(InProgress) /\ pending = Cardinality(InProgress)
  BY PendingTyped DEF Counted
<1>4. Cardinality(Remaining(p)') <= Cardinality(InProgress)
  BY <1>2, <1>3, FS_Subset
<1> QED BY <1>1, <1>3, <1>4

LEMMA FewRemainNext ==
    ASSUME Typed, Tracking, ErrorsToldOnce, Counted, PollsTyped, FewRemain, [Next]_vars
    PROVE  FewRemain'
<1> SUFFICES ASSUME NEW p \in Poller, poll'[p].phase # "idle"
             PROVE  Cardinality(Remaining(p)') <= poll'[p].adding
  BY DEF FewRemain
<1>1. ~Restart
  BY DEF Restart, IdlePoll
<1>2. CASE poll[p].phase = "idle"
  <2>1. LoadPending(p)
    BY <1>1, <1>2, PollersAlone DEF PollStep, DrainErrors, List, Reply
  <2> QED BY <2>1, PollStarts
<1>3. CASE poll[p].phase # "idle"
  <2>1. poll'[p].adding = poll[p].adding /\ Remaining(p)' \subseteq Remaining(p)
    BY <1>1, <1>3, RemainingShrinks
  <2>2. Remaining(p) \subseteq Started /\ IsFiniteSet(Started)
    BY DEF Remaining, PollsTyped, Counted
  <2>3. IsFiniteSet(Remaining(p))
    BY <2>2, FS_Subset
  <2>4. /\ Cardinality(Remaining(p)') <= Cardinality(Remaining(p))
        /\ Cardinality(Remaining(p)') \in Nat /\ Cardinality(Remaining(p)) \in Nat
    BY <2>1, <2>3, FS_Subset, FS_CardinalityType
  <2>5. Cardinality(Remaining(p)) <= poll[p].adding /\ poll[p].adding \in Nat
    BY <1>3 DEF FewRemain, PollsTyped
  <2> QED BY <2>1, <2>4, <2>5
<1> QED BY <1>2, <1>3

LEMMA PollingInit == Init => Polling
<1> SUFFICES ASSUME Init PROVE Polling
  OBVIOUS
<1>1. Started = {} /\ InProgress = {} /\ pending = 0
  BY DEF Init, Started, InProgress, IdleAdd
<1>2. Counted
  BY <1>1, FS_EmptySet DEF Counted
<1>3. PollsTyped
  BY BoundsAssumption DEF Init, PollsTyped, IdlePoll, PollPhase, Time
<1>4. FewRemain
  BY DEF Init, FewRemain, IdlePoll
<1> QED BY <1>2, <1>3, <1>4 DEF Polling

LEMMA PollingNext == IInv /\ Polling /\ [Next]_vars => Polling'
BY CountedNext, PollsTypedNext, FewRemainNext DEF Polling, IInv

LEMMA PollingHolds == Spec => []Polling
BY PollingInit, PollingNext, IInvHolds, PTL DEF Spec

(* Every variable keeps its type; `pending`, an unsigned counter in the     *)
(* code, is never decremented below zero (spawn_add).                       *)
THEOREM TypeCorrect == Spec => []TypeOK
<1>1. IInv /\ Polling => TypeOK
  BY PendingTyped DEF IInv, Typed, Polling, PollsTyped, TypeOK
<1> QED BY <1>1, IInvHolds, PollingHolds, PTL

(* `pending`, which the list shows, is the number of adds in progress, on   *)
(* every way an add can end, for any number of adds (spawn_add).            *)
THEOREM PendingIsExact == Spec => [](pending = Cardinality(InProgress))
<1>1. Polling => pending = Cardinality(InProgress)
  BY DEF Polling, Counted
<1> QED BY <1>1, PollingHolds, PTL

(* A poll that reports n adds in progress leaves at most n of the adds      *)
(* accepted before it unshown, for any number of adds and clients           *)
(* (take_status, the handler of the list).                                  *)
THEOREM AddsAreAccountedFor == Spec => []AddsAccountedFor
<1>1. Polling => AddsAccountedFor
  <2> SUFFICES ASSUME Polling, NEW p \in Poller, poll[p].phase = "listed"
               PROVE  Cardinality(Unseen(p)) <= poll[p].adding
    BY DEF AddsAccountedFor
  <2>1. Remaining(p) = Unseen(p)
    BY DEF Remaining, Unseen
  <2> QED BY <2>1 DEF Polling, FewRemain
<1> QED BY <1>1, PollingHolds, PTL

-----------------------------------------------------------------------------
(* Removal.                                                                 *)

(* What an add is about to register is in the session, or on its way out.   *)
AnsweredKnown ==
    \A a \in Add : add[a].phase = "answered" =>
        \/ add[a].id \in Managed
        \/ Removing(add[a].id)
        \/ add[a].id \in stray

Unlisted == RemovedUnlisted /\ AnsweredKnown

(* Any id in the registry, or about to be, is known in one of three ways.   *)
Known(id) == id \in Managed \/ Removing(id) \/ id \in stray

(* The steps that change what is known: nothing but the removal of an entry *)
(* and a restart makes an id unknown.                                       *)
LEMMA KnownStays ==
    ASSUME Typed, [Next]_vars, ~Restart, NEW id \in Id, Known(id)
    PROVE  \/ Known(id)'
           \/ \E d \in Remover : Forget(d) /\ removal[d].id = id
<1> USE DEF Typed
<1>1. ASSUME NEW a \in Add, AddStep(a) PROVE Known(id)'
  <2>1. id \in Managed => id \in Managed'
    <3>1. CASE Answer(a)
      BY <3>1, SentinelAssumption DEF Answer, IdFor, Managed, AddShape
    <3>2. CASE ~Answer(a)
      BY <1>1, <3>2 DEF AddStep, Spawn, GiveUp, Register, Stamp, SaveStamp, Finish, librqbit, Managed
    <3> QED BY <3>1, <3>2
  <2>2. UNCHANGED <<removal, stray>>
    BY <1>1 DEF AddStep, Spawn, Answer, GiveUp, Register, Stamp, SaveStamp, Finish, lapses
  <2> QED BY <2>1, <2>2 DEF Known, Removing
<1>2. ASSUME NEW d \in Remover, SessionDelete(d) PROVE Known(id)'
  <2>1. /\ removal'[d].phase = "deleted" /\ removal'[d].id = removal[d].id
        /\ \A e \in Remover : e # d => removal'[e] = removal[e]
        /\ removal[d].phase = "deleting" /\ stray' = stray
    BY <1>2 DEF SessionDelete, lapses
  <2>2. CASE id = removal[d].id
    BY <2>1, <2>2 DEF Known, Removing
  <2>3. CASE id # removal[d].id
    <3>1. session'[id] = session[id]
      BY <1>2, <2>3 DEF SessionDelete, Dropped
    <3> QED BY <2>1, <3>1 DEF Known, Removing, Managed
  <2> QED BY <2>2, <2>3
<1>3. ASSUME NEW d \in Remover, DeleteFails(d) \/ Cancel(d) PROVE Known(id)'
  <2>1. /\ \A e \in Remover : e # d => removal'[e] = removal[e]
        /\ removal[d].phase = "deleting" /\ CutOff(removal[d].id)
    BY <1>3 DEF DeleteFails, Cancel
  <2>2. Removing(id) => Removing(id)'
    BY <2>1 DEF Removing
  <2>3. stray \subseteq stray'
    BY <2>1 DEF CutOff
  <2>4. id \in Managed => id \in Managed' \/ id \in stray'
    <3>1. CASE session' = session
      BY <3>1 DEF Managed
    <3>2. CASE session' # session
      BY <2>1, <3>2 DEF CutOff, Dropped, Managed
    <3> QED BY <3>1, <3>2
  <2> QED BY <2>2, <2>3, <2>4 DEF Known
<1>4. ASSUME NEW d \in Remover, Forget(d), removal[d].id # id PROVE Known(id)'
  <2>1. /\ \A e \in Remover : e # d => removal'[e] = removal[e]
        /\ session' = session /\ stray \subseteq stray'
    BY <1>4 DEF Forget, librqbit
  <2>2. Removing(id) => Removing(id)'
    BY <1>4, <2>1 DEF Removing
  <2> QED BY <2>1, <2>2 DEF Known, Managed
<1>5. ASSUME NEW d \in Remover, RemoverStep(d), ~SessionDelete(d), ~DeleteFails(d), ~Cancel(d),
             ~Forget(d)
      PROVE  Known(id)'
  <2>1. UNCHANGED <<session, stray>>
    BY <1>5 DEF RemoverStep, DeleteStep, Begin, Sweep, SweepNext, Unstamp, SaveRemoval,
                librqbit, lapses
  <2>2. removal[d].phase # "deleted" /\ \A e \in Remover : e # d => removal'[e] = removal[e]
    BY <1>5 DEF RemoverStep, DeleteStep, Begin, Sweep, SweepNext, Unstamp, SaveRemoval
  <2> QED BY <2>1, <2>2 DEF Known, Removing, Managed
<1>6. ASSUME (\E p \in Poller : PollStep(p)) \/ Tick \/ UNCHANGED vars PROVE Known(id)'
  <2>1. UNCHANGED <<session, removal, stray>>
    BY <1>6 DEF PollStep, LoadPending, DrainErrors, List, Reply, Tick, vars, librqbit, lapses
  <2> QED BY <2>1 DEF Known, Removing, Managed
<1> QED BY <1>1, <1>2, <1>3, <1>4, <1>5, <1>6 DEF Next, RemoverStep, DeleteStep

(* Only an answered add puts an id into the registry.                       *)
LEMMA RegistryGrows ==
    ASSUME Typed, [Next]_vars, ~Restart
    PROVE  registry' \subseteq registry \cup Answered
<1>1. ASSUME NEW a \in Add, AddStep(a) PROVE registry' \subseteq registry \cup Answered
  <2>1. CASE Register(a)
    BY <2>1 DEF Register, Answered
  <2>2. CASE ~Register(a)
    BY <1>1, <2>2 DEF AddStep, Spawn, Answer, GiveUp, Stamp, SaveStamp, Finish
  <2> QED BY <2>1, <2>2
<1>2. ASSUME NEW d \in Remover, RemoverStep(d) PROVE registry' \subseteq registry
  BY <1>2 DEF RemoverStep, DeleteStep, Begin, Sweep, SweepNext, SessionDelete, DeleteFails,
              Cancel, Forget, Unstamp, SaveRemoval
<1>3. ASSUME (\E p \in Poller : PollStep(p)) \/ Tick \/ UNCHANGED vars PROVE registry' = registry
  BY <1>3 DEF PollStep, LoadPending, DrainErrors, List, Reply, Tick, vars
<1> QED BY <1>1, <1>2, <1>3 DEF Next

(* Only the session's answer, which manages its torrent, makes an add one   *)
(* that is about to register.                                               *)
LEMMA AnsweredGrows ==
    ASSUME Typed, [Next]_vars, ~Restart, NEW a \in Add, add'[a].phase = "answered"
    PROVE  /\ add'[a].id \in Id
           /\ \/ add[a].phase = "answered" /\ add'[a].id = add[a].id
              \/ add'[a].id \in Managed'
<1> USE DEF Typed, AddShape
<1>1. ASSUME NEW b \in Add, Answer(b)
      PROVE  a # b => add'[a] = add[a]
  BY <1>1 DEF Answer
<1>2. ASSUME Answer(a) PROVE add'[a].id \in Id /\ add'[a].id \in Managed'
  <2>1. PICK id \in Id :
          /\ session' = [session EXCEPT ![id] = add[a].hash]
          /\ add' = [add EXCEPT ![a] = [phase |-> "answered", hash |-> @.hash, id |-> id]]
    BY <1>2 DEF Answer, IdFor
  <2>2. add[a].hash \in Hash
    BY <1>2 DEF Answer
  <2> QED BY <2>1, <2>2, SentinelAssumption DEF Managed
<1>3. ASSUME NEW b \in Add, AddStep(b), ~Answer(b) PROVE add'[a] = add[a]
  BY <1>3 DEF AddStep, Spawn, GiveUp, Register, Stamp, SaveStamp, Finish
<1>4. ASSUME NEW d \in Remover, RemoverStep(d) PROVE add' = add
  BY <1>4 DEF RemoverStep, DeleteStep, Begin, Sweep, SweepNext, SessionDelete, DeleteFails,
              Cancel, Forget, Unstamp, SaveRemoval
<1>5. ASSUME (\E p \in Poller : PollStep(p)) \/ Tick \/ UNCHANGED vars PROVE add' = add
  BY <1>5 DEF PollStep, LoadPending, DrainErrors, List, Reply, Tick, vars
<1> QED BY <1>1, <1>2, <1>3, <1>4, <1>5 DEF Next

LEMMA UnlistedNext ==
    ASSUME Typed, Unlisted, [Next]_vars
    PROVE  Unlisted'
<1>1. CASE Restart
  <2>1. registry' = Managed'
    BY <1>1, SentinelAssumption DEF Restart, Managed
  <2>2. \A a \in Add : add'[a].phase # "answered"
    BY <1>1 DEF Restart, IdleAdd, LostAdd
  <2> QED BY <2>1, <2>2 DEF Unlisted, RemovedUnlisted, DeadEntries, AnsweredKnown
<1>2. CASE ~Restart
  <2>1. \A id \in registry \cup Answered : id \in Id /\ Known(id)
    BY DEF Typed, AddShape, Unlisted, RemovedUnlisted, DeadEntries, AnsweredKnown, Known, Answered
  <2>2. RemovedUnlisted'
    <3>1. ASSUME NEW id \in registry' PROVE Known(id)'
      <4>1. id \in Id /\ Known(id)
        BY <1>2, <2>1, RegistryGrows
      <4>2. \A d \in Remover : Forget(d) => removal[d].id # id
        BY DEF Forget
      <4> QED BY <1>2, <4>1, <4>2, KnownStays
    <3> QED BY <3>1 DEF RemovedUnlisted, DeadEntries, Known
  <2>3. AnsweredKnown'
    <3> SUFFICES ASSUME NEW a \in Add, add'[a].phase = "answered", NEW id, id = add'[a].id
                 PROVE  Known(id)'
      BY DEF AnsweredKnown, Known
    <3>1. CASE id \in Managed'
      BY <3>1 DEF Known
    <3>2. CASE id \notin Managed'
      <4>1. add[a].phase = "answered" /\ add[a].id = id /\ id \in Id
        BY <1>2, <3>2, AnsweredGrows
      <4>2. id \in Answered
        BY <4>1 DEF Answered
      <4>3. ASSUME NEW d \in Remover, Forget(d), removal[d].id = id PROVE id \in stray'
        BY <4>2, <4>3 DEF Forget
      <4>4. Known(id)' \/ id \in stray'
        BY <1>2, <2>1, <4>1, <4>2, <4>3, KnownStays
      <4> QED BY <4>4 DEF Known
    <3> QED BY <3>1, <3>2
  <2> QED BY <2>2, <2>3 DEF Unlisted
<1> QED BY <1>1, <1>2

(* Whatever adds, deletes, client disconnects, failures and restarts        *)
(* overlap, an entry of the registry without a torrent is about to be       *)
(* dropped by its removal, or its torrent went in one of three ways: by a   *)
(* delete that failed, by one that was cut off, or by one that overtook the *)
(* registration (delete, remove_expired, spawn_add).                        *)
THEOREM RemovedAreUnlisted == Spec => []RemovedUnlisted
<1>1. Init => Unlisted
  BY DEF Init, Unlisted, RemovedUnlisted, DeadEntries, AnsweredKnown, IdleAdd
<1>2. IInv /\ Unlisted /\ [Next]_vars => Unlisted'
  BY UnlistedNext DEF IInv
<1>3. Unlisted => RemovedUnlisted
  BY DEF Unlisted
<1> QED BY <1>1, <1>2, <1>3, IInvHolds, PTL DEF Spec

-----------------------------------------------------------------------------
(* Retention, when no torrent is added again: each id belongs to one add.   *)

Targets(d) == removal[d].batch \cup {removal[d].id}

Numbered ==
    /\ \A id \in registry : id < nextId
    /\ \A id \in Targets(Loop) : id \in Id => id < nextId

AddsApart ==
    \A a, b \in Add : a # b =>
        /\ add[a].hash = add[b].hash => add[a].hash = NoTorrent
        /\ add[a].id = add[b].id => add[a].id \notin Id

ResolvingNew ==
    \A a \in Add : add[a].phase = "resolving" => \A id \in Id : session[id] # add[a].hash

AddedOnce == Numbered /\ AddsApart /\ ResolvingNew

(* Within one run of the program, a stamped torrent is not stamped again,   *)
(* and what the loop holds and the session manages is past its age.         *)
StampedOnce == \A id \in Id : added[id] # Never => id < nextId /\ id \notin Incoming

Overdue(id) == added[id] # Never /\ now - added[id] > MaxAge /\ id \notin Incoming

LoopOverdue == \A id \in Targets(Loop) : id \in Managed => Overdue(id)

Aging == restarts = 0 /\ StampedOnce /\ LoopOverdue

(* Without re-adds the session numbers every torrent it answers anew.       *)
LEMMA AnswerNew ==
    ASSUME Typed, AddedOnce, NEW a \in Add, Answer(a)
    PROVE  /\ add[a].phase = "resolving" /\ add[a].hash \in Hash
           /\ nextId \in Id /\ nextId' = nextId + 1
           /\ session' = [session EXCEPT ![nextId] = add[a].hash]
           /\ add' = [add EXCEPT ![a] = [phase |-> "answered", hash |-> @.hash, id |-> nextId]]
           /\ UNCHANGED <<registry, added, removal, now, restarts>>
<1>1. add[a].phase = "resolving" /\ \A id \in Id : session[id] # add[a].hash
  BY DEF Answer, AddedOnce, ResolvingNew
<1>2. IdFor(add[a].hash) = {nextId} \cap Id
  BY <1>1 DEF IdFor
<1>3. PICK id \in IdFor(add[a].hash) :
          /\ session' = [session EXCEPT ![id] = add[a].hash]
          /\ nextId' = IF id = nextId THEN nextId + 1 ELSE nextId
          /\ add' = [add EXCEPT ![a] = [phase |-> "answered", hash |-> @.hash, id |-> id]]
  BY DEF Answer
<1>4. UNCHANGED <<registry, added, removal, now, restarts>>
  BY DEF Answer, ages, clock
<1> QED BY <1>1, <1>2, <1>3, <1>4 DEF Typed, AddShape

(* What the loop takes into hand is expired, and other removers leave it    *)
(* alone.                                                                   *)
LEMMA LoopTargets ==
    ASSUME Typed, NEW d \in Remover, RemoverStep(d), NEW id \in Id, id \in Targets(Loop)'
    PROVE  id \in Targets(Loop) \/ id \in Expired
<1> USE DEF Typed
<1>1. CASE d # Loop
  <2>1. removal'[Loop] = removal[Loop]
    BY <1>1, LoopAssumption DEF RemoverStep, DeleteStep, Begin, Sweep, SweepNext, SessionDelete,
                DeleteFails, Cancel, Forget, Unstamp, SaveRemoval
  <2> QED BY <2>1 DEF Targets
<1>2. CASE d = Loop
  <2>1. \A i \in Id : ~Begin(Loop, i)
    BY DEF Begin
  <2>2. CASE Sweep(Loop)
    BY <2>2, LoopAssumption, SentinelAssumption DEF Sweep, Targets
  <2>3. CASE SweepNext(Loop)
    BY <2>3, LoopAssumption DEF SweepNext, Targets
  <2>4. CASE SessionDelete(Loop) \/ Forget(Loop) \/ Unstamp(Loop)
    BY <2>4, LoopAssumption DEF SessionDelete, Forget, Unstamp, Targets
  <2>5. CASE DeleteFails(Loop) \/ SaveRemoval(Loop)
    BY <2>5, LoopAssumption, SentinelAssumption DEF DeleteFails, SaveRemoval, Rest, IdleRemoval, Targets
  <2>6. ~Cancel(Loop)
    BY DEF Cancel
  <2> QED BY <1>2, <2>1, <2>2, <2>3, <2>4, <2>5, <2>6 DEF RemoverStep, DeleteStep
<1> QED BY <1>1, <1>2

(* What a remover leaves as it was, and that it brings no torrent back.     *)
LEMMA RemoverKeeps ==
    ASSUME Typed, NEW d \in Remover, RemoverStep(d)
    PROVE  /\ registry' \subseteq registry
           /\ UNCHANGED <<nextId, add, now, restarts>>
           /\ \A id \in Id : session'[id] = session[id] \/ session'[id] = NoTorrent
<1>1. registry' \subseteq registry /\ UNCHANGED <<nextId, add, now, restarts>>
  BY DEF RemoverStep, DeleteStep, Begin, Sweep, SweepNext, SessionDelete, DeleteFails,
         Cancel, Forget, Unstamp, SaveRemoval, librqbit, clock
<1>2. \A id \in Id : session'[id] = session[id] \/ session'[id] = NoTorrent
  BY DEF RemoverStep, DeleteStep, Begin, Sweep, SweepNext, SessionDelete, DeleteFails, CutOff,
         Dropped, Cancel, Forget, Unstamp, SaveRemoval, librqbit, Typed
<1> QED BY <1>1, <1>2

LEMMA AddedOnceNext ==
    ASSUME Typed, Tracking, AddedOnce, ~Readds, [Next]_vars
    PROVE  AddedOnce'
<1> USE DEF AddedOnce, Numbered, AddsApart, ResolvingNew
<1>0. Id \subseteq Nat /\ nextId \in Nat /\ registry \subseteq Id
  BY DEF Id, Typed
<1>1. ASSUME NEW a \in Add, NEW h \in Hash, Spawn(a, h) PROVE AddedOnce'
  <2>1. /\ \A b \in Add : add[b].hash # h
        /\ \A id \in Id : session[id] # h
        /\ add' = [add EXCEPT ![a] = [phase |-> "resolving", hash |-> h, id |-> NoId]]
        /\ UNCHANGED <<session, nextId, registry, removal>>
    BY <1>1 DEF Spawn, Addable, librqbit
  <2>2. /\ add'[a].phase = "resolving" /\ add'[a].hash = h /\ add'[a].id = NoId
        /\ \A b \in Add : b # a => add'[b] = add[b]
    BY <2>1 DEF Typed
  <2>3. NoId \notin Id
    BY SentinelAssumption
  <2>4. Numbered'
    BY <2>1 DEF Targets
  <2>5. AddsApart'
    BY <2>1, <2>2, <2>3
  <2>6. ResolvingNew'
    BY <2>1, <2>2
  <2> QED BY <2>4, <2>5, <2>6
<1>2. ASSUME NEW a \in Add, Answer(a) PROVE AddedOnce'
  <2>1. /\ add[a].phase = "resolving" /\ add[a].hash \in Hash
        /\ nextId \in Id /\ nextId' = nextId + 1
        /\ session' = [session EXCEPT ![nextId] = add[a].hash]
        /\ add' = [add EXCEPT ![a] = [phase |-> "answered", hash |-> @.hash, id |-> nextId]]
        /\ UNCHANGED <<registry, removal>>
    BY <1>2, AnswerNew
  <2>2. /\ add'[a].phase = "answered" /\ add'[a].hash = add[a].hash /\ add'[a].id = nextId
        /\ \A b \in Add : b # a => add'[b] = add[b]
    BY <2>1 DEF Typed
  <2>3. /\ session'[nextId] = add[a].hash
        /\ \A id \in Id : id # nextId => session'[id] = session[id]
    BY <2>1 DEF Typed
  <2>4. Numbered'
    <3>1. \A id \in Id : id < nextId => id < nextId'
      BY <1>0, <2>1
    <3> QED BY <1>0, <2>1, <3>1 DEF Targets
  <2>5. AddsApart'
    <3>1. \A b \in Add : add[b].id \in Id => add[b].id # nextId
      BY <1>0 DEF Tracking, AddsNumbered
    <3>2. ASSUME NEW b \in Add, b # a
          PROVE  /\ add'[a].hash = add'[b].hash => add'[a].hash = NoTorrent
                 /\ add'[a].id # add'[b].id
      BY <2>1, <2>2, <3>1, <3>2
    <3> QED BY <2>2, <3>2
  <2>6. ResolvingNew'
    <3> SUFFICES ASSUME NEW b \in Add, add'[b].phase = "resolving", NEW id \in Id
                 PROVE  session'[id] # add'[b].hash
      OBVIOUS
    <3>1. b # a /\ add'[b] = add[b]
      BY <2>2
    <3>2. add[b].hash \in Hash /\ add[b].hash # add[a].hash
      BY <2>1, <3>1, SentinelAssumption DEF Typed, AddShape
    <3> QED BY <2>3, <3>1, <3>2
  <2> QED BY <2>4, <2>5, <2>6
<1>3. ASSUME NEW a \in Add, GiveUp(a) \/ Register(a) \/ Stamp(a) \/ SaveStamp(a) \/ Finish(a)
      PROVE  AddedOnce'
  <2>1. /\ add'[a].hash = add[a].hash /\ add'[a].id = add[a].id
        /\ add'[a].phase # "resolving"
        /\ \A b \in Add : b # a => add'[b] = add[b]
        /\ UNCHANGED <<session, nextId, removal>>
    BY <1>3 DEF GiveUp, Register, Stamp, SaveStamp, Finish, Typed, librqbit
  <2>2. registry' \subseteq registry \cup {add[a].id} /\ (registry' # registry => add[a].phase = "answered")
    BY <1>3 DEF GiveUp, Register, Stamp, SaveStamp, Finish
  <2>3. Numbered'
    <3>1. ASSUME registry' # registry PROVE add[a].id \in Id /\ add[a].id < nextId
      BY <2>2, <3>1 DEF Typed, AddShape, Tracking, AddsNumbered
    <3> QED BY <2>1, <2>2, <3>1 DEF Targets
  <2>4. AddsApart'
    BY <2>1
  <2>5. ResolvingNew'
    BY <2>1
  <2> QED BY <2>3, <2>4, <2>5
<1>4. ASSUME NEW d \in Remover, RemoverStep(d) PROVE AddedOnce'
  <2>1. /\ registry' \subseteq registry /\ UNCHANGED <<nextId, add>>
        /\ \A id \in Id : session'[id] = session[id] \/ session'[id] = NoTorrent
    BY <1>4, RemoverKeeps
  <2>2. Numbered'
    <3>1. ASSUME NEW id \in Targets(Loop)', id \in Id PROVE id < nextId
      <4>1. id \in Targets(Loop) \/ id \in registry
        BY <1>4, <3>1, LoopTargets DEF Expired
      <4> QED BY <3>1, <4>1
    <3> QED BY <2>1, <3>1
  <2>3. AddsApart'
    BY <2>1
  <2>4. ResolvingNew'
    BY <2>1, SentinelAssumption DEF Typed, AddShape
  <2> QED BY <2>2, <2>3, <2>4
<1>5. CASE Restart
  <2>1. PICK restored \in SUBSET Managed :
          /\ registry' = restored
          /\ nextId' \in {n \in 1 .. nextId : \A id \in restored : id < n}
    BY <1>5 DEF Restart
  <2>2. \A a \in Add : /\ add'[a].phase # "resolving"
                       /\ add'[a].hash = NoTorrent /\ add'[a].id = NoId
    BY <1>5 DEF Restart, IdleAdd, LostAdd
  <2>3. \A id \in Targets(Loop)' : id \notin Id
    BY <1>5, LoopAssumption, SentinelAssumption DEF Restart, IdleRemoval, Targets
  <2> QED BY <2>1, <2>2, <2>3, SentinelAssumption
<1>6. ASSUME (\E p \in Poller : PollStep(p)) \/ Tick \/ UNCHANGED vars PROVE AddedOnce'
  <2>1. UNCHANGED <<session, nextId, registry, add, removal>>
    BY <1>6 DEF PollStep, LoadPending, DrainErrors, List, Reply, Tick, vars, librqbit
  <2> QED BY <2>1 DEF Targets
<1> QED BY <1>1, <1>2, <1>3, <1>4, <1>5, <1>6 DEF Next, AddStep

LEMMA AddedOnceInit == Init => AddedOnce
<1> SUFFICES ASSUME Init PROVE AddedOnce
  OBVIOUS
<1>1. \A a \in Add : add[a] = [phase |-> "idle", hash |-> NoTorrent, id |-> NoId]
  BY DEF Init, IdleAdd
<1>2. \A id \in Targets(Loop) : id \notin Id
  BY LoopAssumption, SentinelAssumption DEF Init, IdleRemoval, Targets
<1>3. registry = {}
  BY DEF Init
<1> QED BY <1>1, <1>2, <1>3, SentinelAssumption DEF AddedOnce, Numbered, AddsApart, ResolvingNew

LEMMA AddedOnceHolds == ASSUME ~Readds PROVE Spec => []AddedOnce
<1>1. IInv /\ AddedOnce /\ [Next]_vars => AddedOnce'
  BY AddedOnceNext DEF IInv
<1> QED BY <1>1, AddedOnceInit, IInvHolds, PTL DEF Spec

LEMMA AgingNext ==
    ASSUME Typed, Tracking, AddedOnce, Aging, MaxRestarts = 0, [Next]_vars
    PROVE  Aging'
<1> USE DEF Aging, StampedOnce, LoopOverdue, Overdue
<1>0. /\ Id \subseteq Nat /\ nextId \in Nat /\ now \in Nat /\ Time \subseteq Nat /\ MaxAge \in Nat
      /\ added \in [Id -> Time \cup {Never}]
  BY BoundsAssumption DEF Id, Time, Typed
<1>1. ASSUME NEW a \in Add, Answer(a) PROVE Aging'
  <2>1. /\ nextId \in Id /\ nextId' = nextId + 1
        /\ session' = [session EXCEPT ![nextId] = add[a].hash]
        /\ add' = [add EXCEPT ![a] = [phase |-> "answered", hash |-> @.hash, id |-> nextId]]
        /\ UNCHANGED <<added, removal, now, restarts>>
    BY <1>1, AnswerNew
  <2>2. Incoming' \subseteq Incoming \cup {nextId}
    BY <2>1 DEF Incoming, Typed
  <2>3. StampedOnce'
    BY <1>0, <2>1, <2>2
  <2>4. ASSUME NEW id \in Targets(Loop), id \in Managed' PROVE Overdue(id)'
    <3>1. id \in Id /\ id # nextId
      BY <1>0, <2>4 DEF AddedOnce, Numbered, Managed
    <3>2. id \in Managed
      BY <2>1, <2>4, <3>1 DEF Managed, Typed
    <3> QED BY <2>1, <2>2, <2>4, <3>1, <3>2
  <2> QED BY <2>1, <2>3, <2>4 DEF Targets
<1>2. ASSUME NEW a \in Add, Stamp(a) PROVE Aging'
  <2>1. add[a].phase = "registered" /\ add[a].id \in Id /\ add[a].id < nextId /\ add[a].id \in Incoming
    BY <1>2 DEF Stamp, Typed, AddShape, Tracking, AddsNumbered, Incoming
  <2>2. /\ added' = [added EXCEPT ![add[a].id] = now]
        /\ add' = [add EXCEPT ![a].phase = "stamped"]
        /\ UNCHANGED <<session, nextId, removal, now, restarts>>
    BY <1>2 DEF Stamp, librqbit, clock
  <2>3. Incoming' \subseteq Incoming /\ add[a].id \notin Incoming'
    <3>1. /\ add'[a].phase = "stamped" /\ \A b \in Add : b # a => add'[b] = add[b]
      BY <2>2 DEF Typed
    <3>2. \A b \in Add : b # a => add[b].id # add[a].id
      BY <2>1 DEF AddedOnce, AddsApart
    <3> QED BY <3>1, <3>2 DEF Incoming
  <2>4. StampedOnce'
    BY <1>0, <2>1, <2>2, <2>3
  <2>5. LoopOverdue'
    BY <1>0, <2>1, <2>2, <2>3 DEF Targets, Managed
  <2> QED BY <2>2, <2>4, <2>5
<1>3. ASSUME NEW a \in Add, AddStep(a), ~Answer(a), ~Stamp(a) PROVE Aging'
  <2>1. UNCHANGED <<session, nextId, added, removal, now, restarts>>
    BY <1>3 DEF AddStep, Spawn, GiveUp, Register, SaveStamp, Finish, librqbit, ages, clock
  <2>2. Incoming' \subseteq Incoming
    <3>1. \A b \in Add : add'[b].phase \in {"answered", "registered"} =>
              add[b].phase \in {"answered", "registered"} /\ add'[b].id = add[b].id
      BY <1>3 DEF AddStep, Spawn, GiveUp, Register, SaveStamp, Finish, Typed
    <3> QED BY <3>1 DEF Incoming
  <2> QED BY <2>1, <2>2 DEF Targets, Managed
<1>4. ASSUME NEW d \in Remover, RemoverStep(d) PROVE Aging'
  <2>1. /\ UNCHANGED <<nextId, add, now, restarts>> /\ Incoming' = Incoming
        /\ Managed' \subseteq Managed
    BY <1>4, RemoverKeeps DEF Incoming, Managed
  <2>2. ASSUME NEW id \in Id
        PROVE  /\ added'[id] = added[id] \/ added'[id] = Never
               /\ id \in Managed => added'[id] = added[id]
    <3>1. CASE Unstamp(d)
      BY <3>1 DEF Unstamp, Tracking, RemovedForGood, Typed
    <3>2. CASE ~Unstamp(d)
      BY <1>4, <3>2 DEF RemoverStep, DeleteStep, Begin, Sweep, SweepNext, SessionDelete,
                        DeleteFails, Cancel, Forget, SaveRemoval, ages
    <3> QED BY <3>1, <3>2
  <2>3. StampedOnce'
    BY <2>1, <2>2
  <2>4. ASSUME NEW id \in Targets(Loop)', id \in Managed' PROVE Overdue(id)'
    <3>1. id \in Id /\ id \in Managed
      BY <2>1, <2>4 DEF Managed
    <3>2. Overdue(id)
      <4>1. CASE id \in Targets(Loop)
        BY <3>1, <4>1
      <4>2. CASE id \in Expired
        BY <3>1, <4>2 DEF Expired, Old
      <4> QED BY <1>4, <2>4, <3>1, <4>1, <4>2, LoopTargets
    <3>3. added'[id] = added[id]
      BY <2>2, <3>1
    <3> QED BY <2>1, <3>2, <3>3
  <2> QED BY <2>1, <2>3, <2>4
<1>5. ASSUME Restart PROVE FALSE
  BY <1>5 DEF Restart
<1>6. CASE Tick
  <2>1. now' = now + 1 /\ UNCHANGED <<session, nextId, added, add, removal, restarts>>
    BY <1>6 DEF Tick, librqbit, ages
  <2>2. StampedOnce'
    BY <2>1 DEF Incoming
  <2>3. ASSUME NEW id \in Id, Overdue(id) PROVE Overdue(id)'
    <3>1. added[id] \in Nat
      BY <1>0, <2>3
    <3> QED BY <1>0, <2>1, <2>3, <3>1 DEF Incoming
  <2>4. LoopOverdue'
    BY <2>1, <2>3 DEF Targets, Managed
  <2> QED BY <2>1, <2>2, <2>4
<1>7. ASSUME (\E p \in Poller : PollStep(p)) \/ UNCHANGED vars PROVE Aging'
  <2>1. UNCHANGED <<session, nextId, added, add, removal, now, restarts>>
    BY <1>7 DEF PollStep, LoadPending, DrainErrors, List, Reply, vars, librqbit, ages, clock
  <2> QED BY <2>1 DEF Targets, Managed, Incoming
<1> QED BY <1>1, <1>2, <1>3, <1>4, <1>5, <1>6, <1>7 DEF Next

(* A torrent the retention loop has deleted was in the session until then.  *)
LEMMA SweptManaged ==
    ASSUME Typed, NEW d \in Remover, Swept(d), [Next]_vars
    PROVE  d = Loop /\ removal[d].id \in Managed /\ removal[d].id \in Targets(Loop)
<1> USE DEF Swept, Typed
<1>1. ASSUME NEW e \in Remover, RemoverStep(e) PROVE SessionDelete(d)
  BY <1>1 DEF RemoverStep, DeleteStep, Begin, Sweep, SweepNext, SessionDelete, DeleteFails,
              Cancel, Forget, Unstamp, SaveRemoval, Rest, IdleRemoval
<1>2. ASSUME NEW a \in Add, AddStep(a) PROVE FALSE
  BY <1>2 DEF AddStep, Spawn, Answer, GiveUp, Register, Stamp, SaveStamp, Finish
<1>3. ASSUME (\E p \in Poller : PollStep(p)) \/ Tick \/ UNCHANGED vars PROVE FALSE
  BY <1>3 DEF PollStep, LoadPending, DrainErrors, List, Reply, Tick, vars
<1>4. ASSUME Restart PROVE FALSE
  BY <1>4 DEF Restart, IdleRemoval
<1>5. SessionDelete(d)
  BY <1>1, <1>2, <1>3, <1>4 DEF Next
<1> QED BY <1>5 DEF SessionDelete, Targets

(* Within one run, and as long as no torrent in the session is added again, *)
(* what the retention loop deletes is past its age when it is deleted, and  *)
(* no task is about to stamp it, though the loop chose it earlier and       *)
(* clients delete and disconnect meanwhile (remove_expired).                *)
THEOREM ExpiryIsNotEarly ==
    ASSUME ~Readds, MaxRestarts = 0
    PROVE  Spec => ExpiryNotEarly
<1>1. Init => Aging
  <2> SUFFICES ASSUME Init PROVE Aging
    OBVIOUS
  <2>1. StampedOnce /\ restarts = 0
    BY DEF Init, StampedOnce
  <2>2. LoopOverdue
    BY DEF Init, LoopOverdue, Managed
  <2> QED BY <2>1, <2>2 DEF Aging
<1>2. IInv /\ AddedOnce /\ Aging /\ [Next]_vars => Aging'
  BY AgingNext DEF IInv
<1> DEFINE NotEarly == \A d \in Remover : Swept(d) =>
                         LET id == removal[d].id
                         IN  added[id] # Never /\ now - added[id] > MaxAge /\ id \notin Incoming
<1>3. IInv /\ Aging /\ [Next]_vars => NotEarly
  BY SweptManaged DEF IInv, Aging, LoopOverdue, Overdue
<1> QED BY <1>1, <1>2, <1>3, AddedOnceHolds, IInvHolds, PTL DEF Spec, ExpiryNotEarly

=============================================================================
