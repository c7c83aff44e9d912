------------------------------ MODULE Downloads ------------------------------
(***************************************************************************)
(* The direct-link download manager of downloads.rs, together with the     *)
(* admission check that http.rs makes before it calls `add`.               *)
(*                                                                         *)
(* Concurrent actors: request handlers and the hourly retention loop       *)
(* (Handler), and one background task per download, named by the id of its *)
(* item.  They share the map `items`, the id counter, the directory tree   *)
(* and index.json.  Every step between two lock regions, file-system calls *)
(* or awaits of the code is an action of its own.                          *)
(*                                                                         *)
(* `items` maps ids to shared Items: a task keeps its Item after the entry *)
(* is removed.  So `item` holds every Item of this process and `listed`    *)
(* the keys of the map.                                                    *)
(*                                                                         *)
(* A restart gives ids out again.  As history, downloads are numbered over *)
(* all runs of the program: an item and its record hold the serial number  *)
(* of their download, and `given` the last download to get each id.        *)
(*                                                                         *)
(* A definition named X_Y, before definition X, is X with a plausible bug: *)
(* the runs are repeated with it to see that their properties notice.      *)
(***************************************************************************)
EXTENDS Integers, FiniteSets

CONSTANTS
    Owner,        \* user names
    Url,          \* links users submit
    Name,         \* file names
    NameOf,       \* filename_from_url, as a function from Url to Name
    Handler,      \* concurrent requests and background loops
    Limit,        \* max_concurrent_downloads, 0 is unlimited
    MaxAge,       \* retention age, in ticks of the clock
    DeleteModes,  \* values of the `files` query of a delete request
    DiskFaults,   \* whether the last buffered write of a download may fail
    NoItem, NoFile,
    Empty,        \* index.json is missing or truncated
    Torn,         \* index.json holds the bytes of two overlapping writes
    MaxIds, MaxAdds, MaxNow, MaxRestarts,
    MaxEvents     \* bounds: MaxEvents is of ticks and restarts together

ASSUME BoundsAssumption == MaxIds \in Nat \ {0} /\ MaxNow \in Nat
ASSUME OwnersAssumption == Owner # {}
ASSUME LimitAssumption  == Limit \in Nat /\ MaxAge \in Nat
ASSUME NamesAssumption  == NameOf \in [Url -> Name]
ASSUME ModesAssumption  == DeleteModes \subseteq BOOLEAN /\ DiskFaults \in BOOLEAN

Ids   == 0 .. MaxIds - 1

ASSUME ActorsAssumption == Handler \cap Ids = {}

Actor == Handler \cup Ids
Time  == 0 .. MaxNow

Item    == [url : Url, owner : Owner, created : Time, serial : Nat,
            phase : {"downloading", "done", "error"}]
Record  == [id : Ids, url : Url, owner : Owner, created : Time, serial : Nat]
Content == [url : Url, full : BOOLEAN]
Erasure == [id : Ids, serial : Nat]
Job     == [op : {"none", "delete", "clear", "expire"}, owner : Owner,
            todo : SUBSET Ids, files : BOOLEAN, cur : Ids]

Steps == {"off", "resolve", "request", "body", "finish", "ended",
          "idle", "admitted", "batch", "unlink", "rmdir",
          "persist", "truncate", "write"}

ASSUME NoItemAssumption == NoItem \notin Item /\ NoFile \notin Content

VARIABLES
    item,      \* the Item of each id created or restored by this process
    listed,    \* the keys of `items`
    nextId,    \* next_id
    pc,        \* the next step of each actor
    job,       \* the request each handler works on
    snap,      \* the records each actor's persist() has collected
    index,     \* what index.json holds
    dirs,      \* the per-download directories that exist
    disk,      \* their files
    now,       \* the clock
    restarts,
    adds,      \* history: downloads added so far
    given,     \* history: the last download given each id, 0 if none was
    erased     \* history: finished downloads whose files a deletion unlinked

vars  == <<item, listed, nextId, pc, job, snap, index, dirs, disk, now,
           restarts, adds, given, erased>>
memory == <<item, listed, nextId>>
files  == <<dirs, disk>>
clock  == <<now, restarts>>
history == <<adds, given, erased>>

Finished       == {id \in Ids : item[id] # NoItem /\ item[id].phase = "done"}
IsDone(id)     == item[id].phase = "done"
DoneListed     == {id \in listed : IsDone(id)}
RecordOf(id)   == [id |-> id, url |-> item[id].url, owner |-> item[id].owner,
                   created |-> item[id].created, serial |-> item[id].serial]
FileOf(id)     == disk[id][NameOf[item[id].url]]
IndexRecords   == IF index \in {Empty, Torn} THEN {} ELSE index

(* What an idle handler holds: nothing of the requests before. *)
NoJob          == [op |-> "none", owner |-> CHOOSE o \in Owner : TRUE, todo |-> {},
                   files |-> FALSE, cur |-> 0]

(* active_count: a user's downloads in progress *)
ActiveCount(o) == Cardinality({id \in listed : /\ item[id].owner = o
                                               /\ item[id].phase = "downloading"})
Admitted(o)    == {h \in Handler : pc[h] = "admitted" /\ job[h].owner = o}

Init ==
    /\ item = [id \in Ids |-> NoItem]
    /\ listed = {}
    /\ nextId = 0
    /\ pc = [a \in Actor |-> IF a \in Handler THEN "idle" ELSE "off"]
    /\ job = [h \in Handler |-> NoJob]
    /\ snap = [a \in Actor |-> {}]
    /\ index = Empty
    /\ dirs = {}
    /\ disk = [id \in Ids |-> [n \in Name |-> NoFile]]
    /\ now = 0
    /\ restarts = 0
    /\ adds = 0
    /\ given = [id \in Ids |-> 0]
    /\ erased = {}

-----------------------------------------------------------------------------
(* Adding a link: the limit is read in one lock region, the item inserted  *)
(* in a later one.  A request over the limit (429) changes nothing; one    *)
(* whose scheme is not in lower case passes the handler's check and is     *)
(* turned away by the manager's.  MaxIds and MaxAdds bound the items.      *)

WithinCap_OffByOne(o) == Limit > 0 => ActiveCount(o) <= Limit

WithinCap(o) == Limit > 0 => ActiveCount(o) < Limit

Admit(h, o) ==
    /\ pc[h] = "idle"
    /\ WithinCap(o)
    /\ pc' = [pc EXCEPT ![h] = "admitted"]
    /\ job' = [job EXCEPT ![h].owner = o]
    /\ UNCHANGED <<memory, snap, index, files, clock, history>>

NewId_FromMapSize == Cardinality(listed)

NewId == nextId

Reject(h) ==
    /\ pc[h] = "admitted"
    /\ pc' = [pc EXCEPT ![h] = "idle"]
    /\ job' = [job EXCEPT ![h] = NoJob]
    /\ UNCHANGED <<memory, snap, index, files, clock, history>>

AddItem(h, u) ==
    /\ pc[h] = "admitted"
    /\ nextId < MaxIds /\ adds < MaxAdds
    /\ item' = [item EXCEPT ![NewId] = [url |-> u, owner |-> job[h].owner,
                                        created |-> now, serial |-> adds + 1,
                                        phase |-> "downloading"]]
    /\ listed' = listed \cup {NewId}
    /\ nextId' = nextId + 1
    /\ pc' = [pc EXCEPT ![h] = "idle", ![NewId] = "resolve"]
    /\ job' = [job EXCEPT ![h] = NoJob]
    /\ adds' = adds + 1
    /\ given' = [given EXCEPT ![NewId] = adds + 1]
    /\ UNCHANGED <<snap, index, files, clock, erased>>

-----------------------------------------------------------------------------
(* The background task of a download *)

(* verify_public, pinned_client, then create_dir_all *)
Resolve(id) ==
    /\ pc[id] = "resolve"
    /\ dirs' = dirs \cup {id}
    /\ pc' = [pc EXCEPT ![id] = "request"]
    /\ UNCHANGED <<memory, job, snap, index, disk, clock, history>>

(* The response headers arrive and File::create truncates or creates the   *)
(* file; it fails when the directory is gone.                              *)
Request(id) ==
    /\ pc[id] = "request"
    /\ id \in dirs
    /\ disk' = [disk EXCEPT ![id][NameOf[item[id].url]] =
                    [url |-> item[id].url, full |-> FALSE]]
    /\ pc' = [pc EXCEPT ![id] = "body"]
    /\ UNCHANGED <<memory, job, snap, index, dirs, clock, history>>

(* The last chunk is written and flushed.  Bytes written to a file that    *)
(* was unlinked meanwhile are lost, and so is the error of the final       *)
(* flush, which the code discards.                                         *)
Body(id) ==
    /\ pc[id] = "body"
    /\ \E ok \in IF DiskFaults THEN BOOLEAN ELSE {TRUE} :
         disk' = IF FileOf(id) = NoFile THEN disk
                 ELSE [disk EXCEPT ![id][NameOf[item[id].url]] =
                           [url |-> item[id].url, full |-> ok]]
    /\ pc' = [pc EXCEPT ![id] = "finish"]
    /\ UNCHANGED <<memory, job, snap, index, dirs, clock, history>>

Finish(id) ==
    /\ pc[id] = "finish"
    /\ item' = [item EXCEPT ![id].phase = "done"]
    /\ pc' = [pc EXCEPT ![id] = "persist"]
    /\ UNCHANGED <<listed, nextId, job, snap, index, files, clock, history>>

(* Any step of the download may fail: the partial file stays, and the      *)
(* index is not rewritten.                                                 *)
Fail(id) ==
    /\ pc[id] \in {"resolve", "request", "body"}
    /\ item' = [item EXCEPT ![id].phase = "error"]
    /\ pc' = [pc EXCEPT ![id] = "ended"]
    /\ UNCHANGED <<listed, nextId, job, snap, index, files, clock, history>>

-----------------------------------------------------------------------------
(* Deleting: one id, every finished download, or every download over age.  *)
(* The three share delete(); the ids are collected in one lock region and  *)
(* deleted one by one, each in its own.                                    *)

Start(h, op, ids, withFiles) ==
    /\ pc[h] = "idle"
    /\ pc' = [pc EXCEPT ![h] = "batch"]
    /\ job' = [job EXCEPT ![h].op = op, ![h].todo = ids, ![h].files = withFiles]
    /\ UNCHANGED <<memory, snap, index, files, clock, history>>

StartDelete(h, id, withFiles) == Start(h, "delete", {id}, withFiles)
ClearCompleted(h)             == Start(h, "clear", DoneListed, TRUE)
Expired(id)                   == now - item[id].created > MaxAge
RemoveExpired(h)              == Start(h, "expire", {id \in listed : Expired(id)}, TRUE)

BatchRemove_KeepsEntry(h, id) ==
    /\ pc[h] = "batch"
    /\ id \in job[h].todo
    /\ job' = [job EXCEPT ![h].todo = @ \ {id}, ![h].cur = id]
    /\ pc' = [pc EXCEPT ![h] = IF id \notin listed THEN "batch"
                               ELSE IF job[h].files THEN "unlink" ELSE "persist"]
    /\ UNCHANGED <<memory, snap, index, files, clock, history>>

BatchRemove(h, id) ==
    /\ pc[h] = "batch"
    /\ id \in job[h].todo
    /\ job' = [job EXCEPT ![h].todo = @ \ {id}, ![h].cur = id]
    /\ listed' = listed \ {id}
    /\ pc' = [pc EXCEPT ![h] = IF id \notin listed THEN "batch"
                               ELSE IF job[h].files THEN "unlink" ELSE "persist"]
    /\ UNCHANGED <<item, nextId, snap, index, files, clock, history>>

BatchEnd(h) ==
    /\ pc[h] = "batch"
    /\ job[h].todo = {}
    /\ pc' = [pc EXCEPT ![h] = "idle"]
    /\ job' = [job EXCEPT ![h] = NoJob]
    /\ UNCHANGED <<memory, snap, index, files, clock, history>>

(* remove_dir_all: unlink the entries, then remove the directory unless a  *)
(* task created a file in between.                                         *)
Unlink(h) ==
    /\ pc[h] = "unlink"
    /\ disk' = [disk EXCEPT ![job[h].cur] = [n \in Name |-> NoFile]]
    /\ pc' = [pc EXCEPT ![h] = "rmdir"]
    /\ erased' = erased \cup {[id |-> id, serial |-> item[id].serial] :
                                id \in {job[h].cur} \cap Finished}
    /\ UNCHANGED <<memory, job, snap, index, dirs, clock, adds, given>>

Rmdir(h) ==
    /\ pc[h] = "rmdir"
    /\ dirs' = IF \A n \in Name : disk[job[h].cur][n] = NoFile
               THEN dirs \ {job[h].cur} ELSE dirs
    /\ pc' = [pc EXCEPT ![h] = "persist"]
    /\ UNCHANGED <<memory, job, snap, index, disk, clock, history>>

-----------------------------------------------------------------------------
(* persist(): collect the finished items under the lock, release it, then  *)
(* fs::write, which truncates the file and writes it.                      *)

Snapshot(a) ==
    /\ pc[a] = "persist"
    /\ snap' = [snap EXCEPT ![a] = {RecordOf(id) : id \in DoneListed}]
    /\ pc' = [pc EXCEPT ![a] = "truncate"]
    /\ UNCHANGED <<memory, job, index, files, clock, history>>

Truncate(a) ==
    /\ pc[a] = "truncate"
    /\ index' = Empty
    /\ pc' = [pc EXCEPT ![a] = "write"]
    /\ UNCHANGED <<memory, job, snap, files, clock, history>>

(* A write starts at offset 0.  Over what another writer put there since   *)
(* the truncation it leaves that writer's tail, unless it is as long.      *)
Overlay(old, mine) ==
    IF old = Empty THEN {mine}
    ELSE IF old # Torn /\ old \subseteq mine THEN {mine} ELSE {mine, Torn}

Write(a) ==
    /\ pc[a] = "write"
    /\ index' \in Overlay(index, snap[a])
    /\ snap' = [snap EXCEPT ![a] = {}]
    /\ pc' = [pc EXCEPT ![a] = IF a \in Handler THEN "batch" ELSE "ended"]
    /\ UNCHANGED <<memory, job, files, clock, history>>

(* The error of persist()'s fs::write is dropped: the file stays as it is, *)
(* or without the bytes it was truncated to take.                          *)
PersistFails(a) ==
    /\ pc[a] \in {"truncate", "write"}
    /\ snap' = [snap EXCEPT ![a] = {}]
    /\ pc' = [pc EXCEPT ![a] = IF a \in Handler THEN "batch" ELSE "ended"]
    /\ UNCHANGED <<memory, job, index, files, clock, history>>

-----------------------------------------------------------------------------
(* A crash or restart at any point, followed by load(): an unreadable      *)
(* index restores nothing, a record whose file is missing is skipped, and  *)
(* the ids above those restored are given out again.                       *)

Restorable_Unchecked == IndexRecords

Restorable == {r \in IndexRecords : disk[r.id][NameOf[r.url]] # NoFile}

Restored(id) ==
    LET r == CHOOSE r \in Restorable : r.id = id
    IN  [url |-> r.url, owner |-> r.owner, created |-> r.created,
         serial |-> r.serial, phase |-> "done"]

Restart ==
    /\ restarts < MaxRestarts /\ now + restarts < MaxEvents
    /\ restarts' = restarts + 1
    /\ listed' = {r.id : r \in Restorable}
    /\ item' = [id \in Ids |-> IF id \in listed' THEN Restored(id) ELSE NoItem]
    /\ \E n \in 0 .. MaxIds :
         /\ \A id \in listed' : id < n
         /\ n # 0 => n - 1 \in listed'
         /\ nextId' = n
    /\ pc' = [a \in Actor |-> IF a \in Handler THEN "idle" ELSE "off"]
    /\ job' = [h \in Handler |-> NoJob]
    /\ snap' = [a \in Actor |-> {}]
    /\ UNCHANGED <<index, files, now, history>>

Tick ==
    /\ now < MaxNow /\ now + restarts < MaxEvents
    /\ now' = now + 1
    /\ UNCHANGED <<memory, pc, job, snap, index, files, restarts, history>>

AddNext     == \E h \in Handler : \/ \E o \in Owner : Admit(h, o)
                                  \/ \E u \in Url : AddItem(h, u)
                                  \/ Reject(h)
TaskNext    == \E id \in Ids : \/ Resolve(id) \/ Request(id) \/ Body(id)
                               \/ Finish(id) \/ Fail(id)
DeleteNext  == \E h \in Handler :
                  \/ \E id \in Ids, f \in DeleteModes : StartDelete(h, id, f)
                  \/ ClearCompleted(h) \/ RemoveExpired(h)
                  \/ \E id \in Ids : BatchRemove(h, id)
                  \/ BatchEnd(h) \/ Unlink(h) \/ Rmdir(h)
PersistNext == \E a \in Actor : Snapshot(a) \/ Truncate(a) \/ Write(a)
                               \/ PersistFails(a)

Next == AddNext \/ TaskNext \/ DeleteNext \/ PersistNext \/ Restart \/ Tick

Spec == Init /\ [][Next]_vars

-----------------------------------------------------------------------------
(* Properties *)

(* Every variable keeps the type of the structure it stands for. *)
TypeOK ==
    /\ item \in [Ids -> Item \cup {NoItem}]
    /\ listed \subseteq {id \in Ids : item[id] # NoItem}
    /\ nextId \in 0 .. MaxIds
    /\ pc \in [Actor -> Steps]
    /\ job \in [Handler -> Job]
    /\ snap \in [Actor -> SUBSET Record]
    /\ index \in (SUBSET Record) \cup {Empty, Torn}
    /\ dirs \subseteq Ids
    /\ disk \in [Ids -> [Name -> Content \cup {NoFile}]]
    /\ now \in Time
    /\ restarts \in Nat
    /\ adds \in Nat
    /\ given \in [Ids -> Nat]
    /\ erased \subseteq Erasure

(* A batch deletes ids it collected earlier, each in a later lock region,  *)
(* while other requests add and delete.  Whatever it still finds listed is *)
(* an item it was asked to delete: finished for clear_completed, over age  *)
(* for remove_expired.                                                     *)
BatchStillValid ==
    \A h \in Handler : \A id \in job[h].todo \cap listed :
        /\ job[h].op = "clear"  => IsDone(id)
        /\ job[h].op = "expire" => Expired(id)

(* The cap is checked before the item is inserted, so concurrent requests  *)
(* of one user can pass it together; by no more than the requests that are *)
(* in flight at once.                                                      *)
OverrunBounded ==
    Limit > 0 => \A o \in Owner :
        ActiveCount(o) + Cardinality(Admitted(o)) < Limit + Cardinality(Handler)

(* A finished download that is listed, by the run that fetched it or by a  *)
(* later one, is served in full from the file it fetched: no racing        *)
(* deletion, clean-up or other download takes the file away while the      *)
(* entry is there, and none is restored over a partial file or over that   *)
(* of another.  The exception is an entry restored from a stale record     *)
(* after its id was given to another download (RestoredComplete).          *)
DoneServesOwn ==
    \A id \in DoneListed : given[id] = item[id].serial =>
        FileOf(id) = [url |-> item[id].url, full |-> TRUE]

(* A finished download whose files were erased is not listed again, though *)
(* overlapping or failed persists leave its record in index.json, because  *)
(* load() looks for the file.  It can come back only once its id was given *)
(* to another download, whose file load() then finds.                      *)
ErasedStaysErased ==
    \A e \in erased : given[e.id] = e.serial =>
        ~(e.id \in listed /\ item[e.id].serial = e.serial)

-----------------------------------------------------------------------------
(* What the documentation and comments say, which the code does not keep   *)

(* README.md: a cap on a user's concurrent direct downloads. *)
WithinLimit == Limit > 0 => \A o \in Owner : ActiveCount(o) <= Limit

Quiet == /\ \A h \in Handler : pc[h] \in {"idle", "admitted"}
         /\ \A id \in Ids : pc[id] \in {"off", "ended"}

(* downloads.rs: a record of each finished download is kept in index.json, *)
(* so that the list survives restarts.                                     *)
FinishedIndexed == Quiet => {RecordOf(id) : id \in DoneListed} \subseteq IndexRecords

(* downloads.rs: load() restores finished downloads, never a partial file  *)
(* or the file of another download.                                        *)
RestoredComplete ==
    \A id \in DoneListed : FileOf(id) = [url |-> item[id].url, full |-> TRUE]

(* README.md: deleting with `files=true` erases the files. *)
NoOrphans == Quiet => dirs \subseteq listed

=============================================================================
