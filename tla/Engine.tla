-------------------------------- MODULE Engine --------------------------------
(***************************************************************************)
(* The torrent engine of engine.rs: background adds, the registry of       *)
(* handles, the add-times behind retention, deletion, and the status poll  *)
(* of the UI.  librqbit's Session is the environment.                      *)
(*                                                                         *)
(* Concurrent actors: the task of each add (Add), the requests and the     *)
(* hourly loop that remove torrents (Remover), and polling clients         *)
(* (Poller).  Each lock region, and each await of the session, is a step.  *)
(* save_added holds the lock of `added` until the file is written: the     *)
(* guard is a temporary of an `if let`, which lives as long as its block.  *)
(*                                                                         *)
(* Assumed of librqbit: it numbers the torrents of a run upwards, answers  *)
(* an add of a torrent it manages with the handle it has, and drops an add *)
(* whose future is dropped.  A delete that fails, or whose future is       *)
(* dropped, may have dropped the torrent all the same.  After a restart it *)
(* may or may not bring a torrent back.                                    *)
(*                                                                         *)
(* A definition named X_Y, before definition X, is X with a plausible bug: *)
(* the runs are repeated with it to see that their properties notice.      *)
(***************************************************************************)
EXTENDS Integers, FiniteSets

CONSTANTS
    Add,          \* background adds, of all runs of the program
    Hash,         \* info hashes, the identity of a torrent
    Remover,      \* concurrent requests and loops that remove torrents
    Loop,         \* the retention loop, one of them
    Poller,       \* clients that poll the list
    MaxAge,       \* retention age, in ticks of the clock
    Readds,       \* whether a torrent in the session may be added again
    Disconnects,  \* whether a client may leave before its request is answered
    NoTorrent, NoId, Never,
    MaxFaults,    \* how many writes and deletes may fail
    MaxId, MaxNow, MaxRestarts    \* bounds of the state space

ASSUME LoopAssumption   == Loop \in Remover
ASSUME BoundsAssumption == {MaxId, MaxNow, MaxRestarts, MaxFaults, MaxAge} \subseteq Nat
ASSUME ModesAssumption  == {Readds, Disconnects} \subseteq BOOLEAN

Id   == 1 .. MaxId
Time == 0 .. MaxNow

ASSUME SentinelAssumption == NoTorrent \notin Hash /\ NoId \notin Id /\ Never \notin Time

AddPhase     == {"idle", "resolving", "answered", "registered", "stamped",
                 "settled", "done", "lost"}
RemovalPhase == {"idle", "sweeping", "deleting", "deleted", "forgotten", "unstamped"}
PollPhase    == {"idle", "counted", "drained", "listed"}

VARIABLES
    session,    \* the torrent librqbit manages under each id
    nextId,     \* the id it gives next
    registry,   \* the ids in the registry
    added,      \* the add-times in memory
    addedFile,  \* torrent_added.json
    add,        \* the task of each add
    pending,    \* the number of adds in progress
    errors,     \* the adds whose error waits to be drained
    told,       \* history: how many polls each add's error was given to
    removal,    \* what each remover does
    poll,       \* what each client has learned so far
    now, restarts,
    faults,     \* writes and deletes that failed
    unsaved,    \* history: whether the last save_added failed
    stray       \* history: ids whose torrent is gone for a reason that leaves
                \* their entry in the registry, or lets it come

librqbit == <<session, nextId>>
ages     == <<added, addedFile>>
report   == <<pending, errors, told>>
clock    == <<now, restarts>>
lapses   == <<faults, unsaved, stray>>
vars     == <<librqbit, registry, ages, add, report, removal, poll, clock, lapses>>

IdleAdd     == [phase |-> "idle", hash |-> NoTorrent, id |-> NoId]
LostAdd     == [phase |-> "lost", hash |-> NoTorrent, id |-> NoId]
IdleRemoval == [phase |-> "idle", id |-> NoId, batch |-> {}]
IdlePoll    == [phase |-> "idle", adding |-> 0, owed |-> {}, listed |-> {}]

Managed == {id \in Id : session[id] # NoTorrent}

Init ==
    /\ session = [id \in Id |-> NoTorrent]
    /\ nextId = 1
    /\ registry = {}
    /\ added = [id \in Id |-> Never]
    /\ addedFile = [id \in Id |-> Never]
    /\ add = [a \in Add |-> IdleAdd]
    /\ pending = 0
    /\ errors = {}
    /\ told = [a \in Add |-> 0]
    /\ removal = [d \in Remover |-> IdleRemoval]
    /\ poll = [p \in Poller |-> IdlePoll]
    /\ now = 0
    /\ restarts = 0
    /\ faults = 0
    /\ unsaved = FALSE
    /\ stray = {}

-----------------------------------------------------------------------------
(* spawn_add: the add is counted before its task starts. *)
Addable(h) == Readds \/ /\ \A b \in Add : add[b].hash # h
                        /\ \A id \in Id : session[id] # h

Spawn_Uncounted(a, h) ==
    /\ add[a].phase = "idle"
    /\ Addable(h)
    /\ add' = [add EXCEPT ![a] = [phase |-> "resolving", hash |-> h, id |-> NoId]]
    /\ UNCHANGED <<librqbit, registry, ages, report, removal, poll, clock, lapses>>

Spawn(a, h) ==
    /\ add[a].phase = "idle"
    /\ Addable(h)
    /\ add' = [add EXCEPT ![a] = [phase |-> "resolving", hash |-> h, id |-> NoId]]
    /\ pending' = pending + 1
    /\ UNCHANGED <<librqbit, registry, ages, errors, told, removal, poll, clock, lapses>>

(* The session answers add_torrent with a handle, an old or a new one. *)
IdFor(h) == IF \E id \in Id : session[id] = h
            THEN {id \in Id : session[id] = h}
            ELSE {nextId} \cap Id

Answer(a) ==
    /\ add[a].phase = "resolving"
    /\ \E id \in IdFor(add[a].hash) :
          /\ session' = [session EXCEPT ![id] = add[a].hash]
          /\ nextId' = IF id = nextId THEN nextId + 1 ELSE nextId
          /\ add' = [add EXCEPT ![a] = [phase |-> "answered", hash |-> @.hash, id |-> id]]
    /\ UNCHANGED <<registry, ages, report, removal, poll, clock, lapses>>

(* The session fails, has no handle, or has not answered after 120 s. *)
GiveUp_NoTimeout(a) == FALSE /\ UNCHANGED vars

GiveUp(a) ==
    /\ add[a].phase = "resolving"
    /\ errors' = errors \cup {a}
    /\ add' = [add EXCEPT ![a].phase = "settled"]
    /\ UNCHANGED <<librqbit, registry, ages, pending, told, removal, poll, clock, lapses>>

Register(a) ==
    /\ add[a].phase = "answered"
    /\ registry' = registry \cup {add[a].id}
    /\ add' = [add EXCEPT ![a].phase = "registered"]
    /\ UNCHANGED <<librqbit, ages, report, removal, poll, clock, lapses>>

Stamp(a) ==
    /\ add[a].phase = "registered"
    /\ added' = [added EXCEPT ![add[a].id] = now]
    /\ add' = [add EXCEPT ![a].phase = "stamped"]
    /\ UNCHANGED <<librqbit, registry, addedFile, report, removal, poll, clock, lapses>>

(* save_added, over what the file holds: the error of fs::write is         *)
(* dropped, and leaves the file as it was or cut short.                    *)
NoAges == [id \in Id |-> Never]

SaveAdded(file, map) ==
    \/ /\ addedFile' = map
       /\ unsaved' = FALSE
       /\ faults' = faults
    \/ /\ faults < MaxFaults
       /\ addedFile' \in {file, NoAges}
       /\ unsaved' = TRUE
       /\ faults' = faults + 1

SaveStamp(a) ==
    /\ add[a].phase = "stamped"
    /\ SaveAdded(addedFile, added)
    /\ add' = [add EXCEPT ![a].phase = "settled"]
    /\ UNCHANGED <<librqbit, registry, added, report, removal, poll, clock, stray>>

Finish(a) ==
    /\ add[a].phase = "settled"
    /\ pending' = pending - 1
    /\ add' = [add EXCEPT ![a].phase = "done"]
    /\ UNCHANGED <<librqbit, registry, ages, errors, told, removal, poll, clock, lapses>>

-----------------------------------------------------------------------------
(* Removal.  A request deletes whatever id it names; remove_expired        *)
(* collects the expired ids under both locks and deletes them one after    *)
(* the other.                                                              *)

Begin(d, id) ==
    /\ removal[d].phase = "idle" /\ d # Loop
    /\ removal' = [removal EXCEPT ![d] = [phase |-> "deleting", id |-> id, batch |-> {}]]
    /\ UNCHANGED <<librqbit, registry, ages, add, report, poll, clock, lapses>>

Old_OffByOne(t) == now - t >= MaxAge

Old(t) == now - t > MaxAge

Expired_TooLate == {id \in registry : added[id] # Never /\ Old(added[id] + 1)}

Expired == {id \in registry : added[id] # Never /\ Old(added[id])}

Sweep(d) ==
    /\ removal[d].phase = "idle" /\ Expired # {}
    /\ removal' = [removal EXCEPT ![d] = [phase |-> "sweeping", id |-> NoId,
                                          batch |-> Expired]]
    /\ UNCHANGED <<librqbit, registry, ages, add, report, poll, clock, lapses>>

SweepNext(d) ==
    /\ removal[d].phase = "sweeping"
    /\ \E id \in removal[d].batch :
          removal' = [removal EXCEPT ![d] = [phase |-> "deleting", id |-> id,
                                             batch |-> @.batch \ {id}]]
    /\ UNCHANGED <<librqbit, registry, ages, add, report, poll, clock, lapses>>

(* What a remover does after its delete has returned: the rest of a sweep. *)
Rest(d) == IF removal[d].batch = {} THEN IdleRemoval
           ELSE [phase |-> "sweeping", id |-> NoId, batch |-> removal[d].batch]

Dropped(id) == [session EXCEPT ![id] = NoTorrent]

SessionDelete(d) ==
    /\ removal[d].phase = "deleting" /\ removal[d].id \in Managed
    /\ session' = Dropped(removal[d].id)
    /\ removal' = [removal EXCEPT ![d].phase = "deleted"]
    /\ UNCHANGED <<nextId, registry, ages, add, report, poll, clock, lapses>>

(* The delete ends without its remover touching the maps. *)
CutOff(id) ==
    /\ session' \in {session, Dropped(id)}
    /\ stray' = IF session' = session THEN stray ELSE stray \cup {id}

(* `?` returns every error of the session: it knows no such torrent, or it *)
(* fails to delete one it manages.                                         *)
DeleteFails(d) ==
    /\ removal[d].phase = "deleting"
    /\ IF removal[d].id \in Managed THEN faults < MaxFaults /\ faults' = faults + 1
                                    ELSE faults' = faults
    /\ CutOff(removal[d].id)
    /\ removal' = [removal EXCEPT ![d] = Rest(d)]
    /\ UNCHANGED <<nextId, registry, ages, add, report, poll, clock, unsaved>>

(* The server drops the future of a request whose client has left, at the  *)
(* await of session.delete.                                                *)
Cancel(d) ==
    /\ Disconnects /\ d # Loop
    /\ removal[d].phase = "deleting"
    /\ CutOff(removal[d].id)
    /\ removal' = [removal EXCEPT ![d] = IdleRemoval]
    /\ UNCHANGED <<nextId, registry, ages, add, report, poll, clock, faults, unsaved>>

(* The ids whose task has its handle and will register it. *)
Answered == {add[a].id : a \in {b \in Add : add[b].phase = "answered"}}

Forget_NotAsked(d) ==
    /\ removal[d].phase \in {"deleting", "deleted"}
    /\ registry' = registry \ {removal[d].id}
    /\ removal' = [removal EXCEPT ![d].phase = "forgotten"]
    /\ UNCHANGED <<librqbit, ages, add, report, poll, clock, lapses>>

Forget_KeepsEntry(d) ==
    /\ removal[d].phase = "deleted"
    /\ removal' = [removal EXCEPT ![d].phase = "forgotten"]
    /\ UNCHANGED <<librqbit, registry, ages, add, report, poll, clock, lapses>>

Forget(d) ==
    /\ removal[d].phase = "deleted"
    /\ registry' = registry \ {removal[d].id}
    /\ stray' = stray \cup ({removal[d].id} \cap Answered)
    /\ removal' = [removal EXCEPT ![d].phase = "forgotten"]
    /\ UNCHANGED <<librqbit, ages, add, report, poll, clock, faults, unsaved>>

Unstamp(d) ==
    /\ removal[d].phase = "forgotten"
    /\ added' = [added EXCEPT ![removal[d].id] = Never]
    /\ removal' = [removal EXCEPT ![d].phase = "unstamped"]
    /\ UNCHANGED <<librqbit, registry, addedFile, add, report, poll, clock, lapses>>

SaveRemoval_Skipped(d) ==
    /\ removal[d].phase = "unstamped"
    /\ removal' = [removal EXCEPT ![d] = Rest(d)]
    /\ UNCHANGED <<librqbit, registry, ages, add, report, poll, clock, lapses>>

SaveRemoval(d) ==
    /\ removal[d].phase = "unstamped"
    /\ SaveAdded(addedFile, added)
    /\ removal' = [removal EXCEPT ![d] = Rest(d)]
    /\ UNCHANGED <<librqbit, registry, added, add, report, poll, clock, stray>>

-----------------------------------------------------------------------------
(* The poll: take_status loads `pending`, drains `errors`, and only then   *)
(* does the handler list the registry.  `owed` is the client's side: the   *)
(* adds accepted before the poll.                                          *)

Started == {a \in Add : add[a].phase \notin {"idle", "lost"}}

LoadPending(p) ==
    /\ poll[p].phase = "idle"
    /\ poll' = [poll EXCEPT ![p] = [phase |-> "counted", adding |-> pending,
                                    owed |-> Started, listed |-> {}]]
    /\ UNCHANGED <<librqbit, registry, ages, add, report, removal, clock, lapses>>

DrainErrors_Copies(p) ==
    /\ poll[p].phase = "counted"
    /\ told' = [a \in Add |-> IF a \in errors THEN told[a] + 1 ELSE told[a]]
    /\ poll' = [poll EXCEPT ![p].phase = "drained"]
    /\ UNCHANGED <<librqbit, registry, ages, add, pending, errors, removal, clock, lapses>>

DrainErrors(p) ==
    /\ poll[p].phase = "counted"
    /\ told' = [a \in Add |-> IF a \in errors THEN told[a] + 1 ELSE told[a]]
    /\ errors' = {}
    /\ poll' = [poll EXCEPT ![p].phase = "drained"]
    /\ UNCHANGED <<librqbit, registry, ages, add, pending, removal, clock, lapses>>

List(p) ==
    /\ poll[p].phase = "drained"
    /\ poll' = [poll EXCEPT ![p].phase = "listed", ![p].listed = registry]
    /\ UNCHANGED <<librqbit, registry, ages, add, report, removal, clock, lapses>>

Reply(p) ==
    /\ poll[p].phase = "listed"
    /\ poll' = [poll EXCEPT ![p] = IdlePoll]
    /\ UNCHANGED <<librqbit, registry, ages, add, report, removal, clock, lapses>>

-----------------------------------------------------------------------------
(* The process dies and App::new runs: every task is lost.  init_added     *)
(* keeps the saved times, those of unknown ids too, and stamps what has    *)
(* none.  A torrent_added.json cut short by the crash does not parse and   *)
(* counts as empty.                                                        *)

Saving == \/ \E a \in Add : add[a].phase = "stamped"
          \/ \E d \in Remover : removal[d].phase = "unstamped"

Loadable == {addedFile} \cup IF Saving THEN {NoAges} ELSE {}

InitAdded_Restamps(loaded) ==
    [id \in Id |-> IF id \in registry' THEN now ELSE loaded[id]]

InitAdded(loaded) ==
    [id \in Id |-> IF id \in registry' /\ loaded[id] = Never THEN now ELSE loaded[id]]

Restart ==
    /\ restarts < MaxRestarts
    /\ restarts' = restarts + 1
    /\ \E restored \in SUBSET Managed :
          /\ session' = [id \in Id |-> IF id \in restored THEN session[id] ELSE NoTorrent]
          /\ registry' = restored
          /\ nextId' \in {n \in 1 .. nextId : \A id \in restored : id < n}
    /\ \E loaded \in Loadable :
          /\ added' = InitAdded(loaded)
          /\ SaveAdded(loaded, added')
    /\ add' = [a \in Add |-> IF add[a] = IdleAdd THEN IdleAdd ELSE LostAdd]
    /\ pending' = 0
    /\ errors' = {}
    /\ told' = [a \in Add |-> 0]
    /\ removal' = [d \in Remover |-> IdleRemoval]
    /\ poll' = [p \in Poller |-> IdlePoll]
    /\ stray' = {}
    /\ UNCHANGED now

Tick ==
    /\ now < MaxNow
    /\ now' = now + 1
    /\ UNCHANGED <<librqbit, registry, ages, add, report, removal, poll, restarts, lapses>>

-----------------------------------------------------------------------------
AddStep(a) == \/ \E h \in Hash : Spawn(a, h)
              \/ Answer(a) \/ GiveUp(a) \/ Register(a)
              \/ Stamp(a) \/ SaveStamp(a) \/ Finish(a)

DeleteStep(d) == \/ SweepNext(d) \/ SessionDelete(d) \/ DeleteFails(d)
                 \/ Forget(d) \/ Unstamp(d) \/ SaveRemoval(d)

RemoverStep(d) == \/ \E id \in Id : Begin(d, id)
                  \/ Sweep(d) \/ DeleteStep(d) \/ Cancel(d)

PollStep(p) == LoadPending(p) \/ DrainErrors(p) \/ List(p) \/ Reply(p)

Next == \/ \E a \in Add : AddStep(a)
        \/ \E d \in Remover : RemoverStep(d)
        \/ \E p \in Poller : PollStep(p)
        \/ Restart \/ Tick

Spec == Init /\ [][Next]_vars

(* The timer of the 120 s timeout fires, spawned tasks run on, the hourly  *)
(* loop wakes and awaits its deletes, and time passes.  Nothing makes a    *)
(* swarm answer or a client poll.                                          *)
Fairness ==
    /\ \A a \in Add : /\ WF_vars(GiveUp(a))
                      /\ WF_vars(Register(a) \/ Stamp(a) \/ SaveStamp(a) \/ Finish(a))
    /\ WF_vars(Sweep(Loop))
    /\ \A d \in Remover : WF_vars(DeleteStep(d))
    /\ WF_vars(Tick)

FairSpec == Spec /\ Fairness

-----------------------------------------------------------------------------
(* Every variable keeps its type; the counter of adds never goes below 0.  *)
TypeOK ==
    /\ session \in [Id -> Hash \cup {NoTorrent}]
    /\ nextId \in 1 .. MaxId + 1
    /\ registry \in SUBSET Id
    /\ added \in [Id -> Time \cup {Never}]
    /\ addedFile \in [Id -> Time \cup {Never}]
    /\ add \in [Add -> [phase : AddPhase, hash : Hash \cup {NoTorrent}, id : Id \cup {NoId}]]
    /\ pending \in Nat
    /\ errors \in SUBSET Add
    /\ told \in [Add -> Nat]
    /\ removal \in [Remover -> [phase : RemovalPhase, id : Id \cup {NoId}, batch : SUBSET Id]]
    /\ poll \in [Poller -> [phase : PollPhase, adding : Nat,
                            owed : SUBSET Add, listed : SUBSET Id]]
    /\ now \in Time
    /\ restarts \in 0 .. MaxRestarts
    /\ faults \in 0 .. MaxFaults /\ unsaved \in BOOLEAN /\ stray \in SUBSET Id

(* What a finished poll has not shown: adds accepted before it whose error *)
(* no poll was given and whose torrent is neither listed nor removed.      *)
Unseen(p) == {a \in poll[p].owed :
                /\ told[a] = 0
                /\ add[a].id \notin poll[p].listed
                /\ add[a].id \in Id => add[a].id \in Managed}

(* No add disappears from the UI: a poll that reports n adds in progress   *)
(* has at most n adds left that it shows nowhere else, however the adds    *)
(* progress between its three reads.                                       *)
AddsAccountedFor ==
    \A p \in Poller : poll[p].phase = "listed" =>
                         Cardinality(Unseen(p)) <= poll[p].adding

(* The error of an add is given to one poll only, and from the moment the  *)
(* add failed it waits in `errors` or has been given.                      *)
Failed(a) == add[a].phase \in {"settled", "done"} /\ add[a].id = NoId
ErrorsToldOnce ==
    \A a \in Add : /\ told[a] = IF Failed(a) /\ a \notin errors THEN 1 ELSE 0
                   /\ a \in errors => Failed(a)

(* The file agrees with memory when no task is between its change and its  *)
(* save and the last write did not fail: no interleaving of adds and       *)
(* removals leaves an older map.  A failed write leaves the file behind    *)
(* until the next save, which writes the whole map.                        *)
AddedSaved == Saving \/ unsaved \/ addedFile = added

(* Everything the session manages, and so downloads and seeds, can be      *)
(* seen, removed and expired: it is registered and stamped, or the task    *)
(* that added it is about to do so.                                        *)
ManagedTracked ==
    \A id \in Managed :
        \/ id \in registry /\ added[id] # Never
        \/ \E a \in Add : /\ add[a].id = id
                          /\ add[a].phase \in {"answered", "registered"}

(* Retention counts from the latest add, across restarts: the time of a    *)
(* managed torrent changes only when it is added again, or in a crash      *)
(* during a save or after a save that failed.                              *)
Restamped(id) == \E a \in Add : /\ add[a].phase = "registered" /\ add[a].id = id
                                /\ add'[a].phase = "stamped"
AgeKept ==
    [][\A id \in registry \cap Managed \cap registry' :
          ~Saving /\ ~unsaved /\ added[id] # Never => added'[id] = added[id] \/ Restamped(id)]_vars

(* remove_expired deletes "torrents added more than max_age_secs ago":     *)
(* though it collects its ids before it deletes them, what the loop        *)
(* deletes is past its age at that moment, and no task is about to stamp   *)
(* it anew.  (A torrent that is added again, or one under an id that a     *)
(* restart gave out again, can be deleted early.)                          *)
Incoming == {add[a].id : a \in {b \in Add : add[b].phase \in {"answered", "registered"}}}
Swept(d) == removal[d].phase = "deleting" /\ removal'[d].phase = "deleted" /\ d = Loop
ExpiryNotEarly ==
    [][\A d \in Remover : Swept(d) =>
          LET id == removal[d].id
          IN  added[id] # Never /\ now - added[id] > MaxAge /\ id \notin Incoming]_vars

(* An entry whose torrent the session does not manage, and which no        *)
(* removal is about to take, is listed for ever: its deletion fails before *)
(* it reaches the registry.  Whatever overlaps, crashes or fails, only     *)
(* three things leave one: a delete that failed or was cut off after the   *)
(* session dropped the torrent, and a delete that came between the         *)
(* session's answer and the registration.                                  *)
Removing(id) == \E d \in Remover : removal[d].phase = "deleted" /\ removal[d].id = id
DeadEntries  == {id \in registry : id \notin Managed /\ ~Removing(id)}
RemovedUnlisted == DeadEntries \subseteq stray

(* A registered torrent past its age is removed in the end, by a later     *)
(* pass if one fails or its request is cut off, unless it left a dead      *)
(* entry behind.                                                           *)
PastAge(id) == id \in registry /\ added[id] # Never /\ now - added[id] > MaxAge
ExpiredRemoved == \A id \in Id : PastAge(id) ~> ~PastAge(id) \/ id \in stray

(* An add never stays in progress: it ends with a torrent or an error. *)
AddsSettle == \A a \in Add : add[a].phase = "resolving" ~> add[a].phase \in {"done", "lost"}

-----------------------------------------------------------------------------
(* What a user expects and the code does not keep: a removed torrent       *)
(* leaves the list.                                                        *)
NoDeadEntries == DeadEntries = {}

=============================================================================
