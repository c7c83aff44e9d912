--------------------------- MODULE DownloadsProofs ---------------------------
(* What Downloads promises for every number of users, links, requests and  *)
(* downloads.                                                              *)
EXTENDS Downloads, FiniteSetTheorems, TLAPS

USE DEF Ids, Actor, Time

LEMMA NoJobType == NoJob \in Job
  <1>1. (CHOOSE o \in Owner : TRUE) \in Owner
    BY OwnersAssumption
  <1>2. 0 \in Ids
    BY BoundsAssumption
  <1> QED BY <1>1, <1>2 DEF NoJob, Job

(* The records persist() collects are records of the items it saw. *)
LEMMA RecordType ==
    ASSUME TypeOK, NEW id \in listed
    PROVE  RecordOf(id) \in Record
  BY DEF TypeOK, RecordOf, Record, Item

LEMMA RestoredType ==
    ASSUME TypeOK, NEW id \in {r.id : r \in Restorable}
    PROVE  /\ id \in Ids
           /\ Restored(id) \in Item
           /\ Restored(id) # NoItem
           /\ Restored(id).phase = "done"
           /\ disk[id][NameOf[Restored(id).url]] # NoFile
  <1> DEFINE R == CHOOSE r \in Restorable : r.id = id
  <1>1. R \in Restorable /\ R.id = id
    OBVIOUS
  <1>2. IndexRecords \subseteq Record
    BY DEF TypeOK, IndexRecords
  <1>3. R \in Record
    BY <1>1, <1>2 DEF Restorable
  <1>4. disk[id][NameOf[R.url]] # NoFile
    BY <1>1 DEF Restorable
  <1> HIDE DEF R
  <1>5. Restored(id) = [url |-> R.url, owner |-> R.owner, created |-> R.created,
                        serial |-> R.serial, phase |-> "done"]
    BY DEF Restored, R
  <1> QED BY <1>1, <1>3, <1>4, <1>5, NoItemAssumption DEF Record, Item

(* Handlers and tasks take their own steps only, and a task has an item.   *)
HandlerSteps == {"idle", "admitted", "batch", "unlink", "rmdir",
                 "persist", "truncate", "write"}
TaskSteps    == {"off", "resolve", "request", "body", "finish", "ended",
                 "persist", "truncate", "write"}

StepsOK == /\ \A h \in Handler : pc[h] \in HandlerSteps
           /\ \A id \in Ids : pc[id] \in TaskSteps
           /\ \A id \in Ids : pc[id] # "off" => item[id] # NoItem

TypeInv == TypeOK /\ StepsOK

LEMMA TypeInit == Init => TypeInv
  <1> SUFFICES ASSUME Init PROVE TypeInv
    OBVIOUS
  <1>1. StepsOK /\ pc \in [Actor -> Steps]
    BY ActorsAssumption DEF Init, StepsOK, HandlerSteps, TaskSteps, Steps
  <1>2. job \in [Handler -> Job]
    BY NoJobType DEF Init
  <1>3. disk \in [Ids -> [Name -> Content \cup {NoFile}]]
    BY DEF Init
  <1>4. /\ item \in [Ids -> Item \cup {NoItem}] /\ listed = {}
        /\ snap \in [Actor -> SUBSET Record]
        /\ nextId \in 0 .. MaxIds /\ index \in {Empty, Torn}
        /\ dirs \subseteq Ids /\ now \in Time /\ restarts \in Nat
        /\ adds \in Nat /\ given \in [Ids -> Nat] /\ erased \subseteq Erasure
    BY BoundsAssumption DEF Init
  <1> QED BY <1>1, <1>2, <1>3, <1>4 DEF TypeInv, TypeOK

LEMMA TypeStep == TypeInv /\ [Next]_vars => TypeInv'
  <1> SUFFICES ASSUME TypeInv, [Next]_vars PROVE TypeInv'
    OBVIOUS
  <1> USE ActorsAssumption DEF TypeInv, TypeOK, StepsOK, HandlerSteps, TaskSteps, Steps
  <1>1. ASSUME NEW h \in Handler, NEW o \in Owner, Admit(h, o) PROVE TypeInv'
    <2>1. job[h] \in Job /\ job' = [job EXCEPT ![h] = [job[h] EXCEPT !.owner = o]]
      BY <1>1 DEF Admit
    <2>2. [job[h] EXCEPT !.owner = o] \in Job
      BY <2>1 DEF Job
    <2> QED BY <1>1, <2>1, <2>2 DEF Admit, memory, files, clock, history
  <1>1a. ASSUME NEW h \in Handler, Reject(h) PROVE TypeInv'
    BY <1>1a, NoJobType DEF Reject, memory, files, clock, history
  <1>2. ASSUME NEW h \in Handler, NEW u \in Url, AddItem(h, u) PROVE TypeInv'
    <2>1. NewId \in Ids /\ nextId' \in 0 .. MaxIds
      BY <1>2, BoundsAssumption DEF AddItem, NewId
    <2>2. [url |-> u, owner |-> job[h].owner, created |-> now, serial |-> adds + 1,
           phase |-> "downloading"] \in Item
      BY DEF Item, Job
    <2>3. adds' \in Nat /\ given' \in [Ids -> Nat]
      <3>1. adds \in Nat /\ given \in [Ids -> Nat]
        OBVIOUS
      <3>2. adds' = adds + 1 /\ given' = [given EXCEPT ![NewId] = adds + 1]
        BY <1>2 DEF AddItem
      <3> HIDE DEF TypeInv, TypeOK, StepsOK, NewId
      <3>3. adds + 1 \in Nat
        BY <3>1
      <3> QED BY <3>1, <3>2, <3>3, Zenon
    <2> QED BY <1>2, <2>1, <2>2, <2>3, NoJobType, NoItemAssumption DEF AddItem, files, clock, history
  <1>3. ASSUME NEW id \in Ids, Resolve(id) PROVE TypeInv'
    BY <1>3 DEF Resolve, memory, clock, history
  <1>4. ASSUME NEW id \in Ids, Request(id) PROVE TypeInv'
    <2>1. item[id] \in Item
      BY <1>4 DEF Request
    <2>2. disk' \in [Ids -> [Name -> Content \cup {NoFile}]]
      BY <1>4, <2>1 DEF Request, Content, Item
    <2> QED BY <1>4, <2>2 DEF Request, memory, clock, history
  <1>5. ASSUME NEW id \in Ids, Body(id) PROVE TypeInv'
    <2>1. item[id] \in Item
      BY <1>5 DEF Body
    <2> DEFINE n == NameOf[item[id].url]
    <2>2. n \in Name /\ disk[id] \in [Name -> Content \cup {NoFile}]
      BY <2>1, NamesAssumption DEF Item
    <2>3. PICK ok \in BOOLEAN :
             disk' = IF disk[id][n] = NoFile THEN disk
                     ELSE [disk EXCEPT ![id][n] = [url |-> item[id].url, full |-> ok]]
      BY <1>5, ModesAssumption DEF Body, FileOf
    <2> HIDE DEF n
    <2>4. [url |-> item[id].url, full |-> ok] \in Content
      BY <2>1 DEF Content, Item
    <2>5. disk' \in [Ids -> [Name -> Content \cup {NoFile}]]
      BY <2>2, <2>3, <2>4
    <2> QED BY <1>5, <2>5 DEF Body, memory, clock, history
  <1>6. ASSUME NEW id \in Ids, Finish(id) PROVE TypeInv'
    <2>1. item[id] \in Item
      BY <1>6 DEF Finish
    <2>2. [item[id] EXCEPT !.phase = "done"] \in Item
      BY <2>1 DEF Item
    <2> QED BY <1>6, <2>2, NoItemAssumption DEF Finish, files, clock, history
  <1>7. ASSUME NEW id \in Ids, Fail(id) PROVE TypeInv'
    <2>1. item[id] \in Item
      BY <1>7 DEF Fail
    <2>2. [item[id] EXCEPT !.phase = "error"] \in Item
      BY <2>1 DEF Item
    <2> QED BY <1>7, <2>2, NoItemAssumption DEF Fail, files, clock, history
  <1>8. ASSUME NEW h \in Handler, NEW op \in {"delete", "clear", "expire"},
               NEW ids \in SUBSET Ids, NEW f \in BOOLEAN, Start(h, op, ids, f)
        PROVE  TypeInv'
    <2> DEFINE j == [job[h] EXCEPT !.op = op, !.todo = ids, !.files = f]
    <2>1. job[h] \in Job /\ job' = [job EXCEPT ![h] = j]
      BY <1>8 DEF Start
    <2>2. j \in Job
      BY <2>1 DEF Job
    <2> HIDE DEF j
    <2>3. job' \in [Handler -> Job]
      BY <2>1, <2>2
    <2>4. pc' \in [Actor -> Steps] /\ StepsOK' 
      BY <1>8 DEF Start, memory
    <2>5. UNCHANGED <<memory, snap, index, files, clock, history>>
      BY <1>8 DEF Start
    <2> QED BY <2>3, <2>4, <2>5 DEF memory, files, clock, history
  <1>9. ASSUME NEW h \in Handler, NEW id \in Ids, BatchRemove(h, id) PROVE TypeInv'
    <2> DEFINE j == [job[h] EXCEPT !.todo = @ \ {id}, !.cur = id]
    <2>1. job[h] \in Job /\ job' = [job EXCEPT ![h] = j]
      BY <1>9 DEF BatchRemove
    <2>2. j \in Job
      BY <2>1 DEF Job
    <2> HIDE DEF j
    <2>3. job' \in [Handler -> Job]
      BY <2>1, <2>2
    <2>4. pc' \in [Actor -> Steps] /\ StepsOK' /\ listed' \subseteq listed
      BY <1>9 DEF BatchRemove, memory
    <2>5. UNCHANGED <<item, nextId, snap, index, files, clock, history>>
      BY <1>9 DEF BatchRemove
    <2> QED BY <2>3, <2>4, <2>5 DEF memory, files, clock, history
  <1>10. ASSUME NEW h \in Handler, BatchEnd(h) PROVE TypeInv'
    BY <1>10, NoJobType DEF BatchEnd, memory, files, clock, history
  <1>11. ASSUME NEW h \in Handler, Unlink(h) PROVE TypeInv'
    <2>1. job[h].cur \in Ids
      BY DEF Job
    <2>2. \A id \in Finished : [id |-> id, serial |-> item[id].serial] \in Erasure
      BY DEF Finished, Erasure, Item
    <2>3. erased' \subseteq Erasure
      BY <1>11, <2>2 DEF Unlink
    <2> QED BY <1>11, <2>1, <2>3 DEF Unlink, memory, clock
  <1>12. ASSUME NEW h \in Handler, Rmdir(h) PROVE TypeInv'
    BY <1>12 DEF Rmdir, memory, clock, history
  <1>13. ASSUME NEW a \in Actor, Snapshot(a) PROVE TypeInv'
    <2>1. {RecordOf(id) : id \in DoneListed} \subseteq Record
      BY RecordType DEF DoneListed
    <2> QED BY <1>13, <2>1 DEF Snapshot, memory, files, clock, history
  <1>14. ASSUME NEW a \in Actor, Truncate(a) PROVE TypeInv'
    BY <1>14 DEF Truncate, memory, files, clock, history
  <1>15. ASSUME NEW a \in Actor, Write(a) PROVE TypeInv'
    <2>1. index' \in (SUBSET Record) \cup {Empty, Torn}
      BY <1>15 DEF Write, Overlay
    <2> QED BY <1>15, <2>1 DEF Write, memory, files, clock, history
  <1>15a. ASSUME NEW a \in Actor, PersistFails(a) PROVE TypeInv'
    BY <1>15a DEF PersistFails, memory, files, clock, history
  <1>16. CASE Restart
    <2>1. item' \in [Ids -> Item \cup {NoItem}] /\ listed' \subseteq {id \in Ids : item'[id] # NoItem}
      BY <1>16, RestoredType DEF Restart
    <2>2. job' \in [Handler -> Job] /\ snap' \in [Actor -> SUBSET Record]
      BY <1>16, NoJobType DEF Restart
    <2>3. pc' \in [Actor -> Steps] /\ StepsOK'
      BY <1>16 DEF Restart
    <2>4. nextId' \in 0 .. MaxIds
      <3> HIDE DEF TypeInv, TypeOK
      <3> QED BY <1>16 DEF Restart
    <2>5. restarts' \in Nat
      <3>1. restarts \in Nat
        OBVIOUS
      <3> HIDE DEF TypeInv, TypeOK, StepsOK
      <3>2. restarts' = restarts + 1
        BY <1>16, Zenon DEF Restart
      <3> QED BY <3>1, <3>2
    <2> QED BY <1>16, <2>1, <2>2, <2>3, <2>4, <2>5 DEF Restart, files, history
  <1>17. CASE Tick
    BY <1>17, BoundsAssumption DEF Tick, memory, files, history
  <1>18. CASE UNCHANGED vars
    BY <1>18 DEF vars
  <1>19. /\ \A id \in Ids : {id} \in SUBSET Ids
         /\ DoneListed \in SUBSET Ids
         /\ {id \in listed : Expired(id)} \in SUBSET Ids
         /\ \A f \in DeleteModes : f \in BOOLEAN
    BY ModesAssumption DEF DoneListed
  <1> HIDE DEF TypeInv, TypeOK, StepsOK, HandlerSteps, TaskSteps, Steps
  <1>20. ASSUME AddNext PROVE TypeInv'
    BY <1>20, <1>1, <1>1a, <1>2 DEF AddNext
  <1>21. ASSUME TaskNext PROVE TypeInv'
    BY <1>21, <1>3, <1>4, <1>5, <1>6, <1>7 DEF TaskNext
  <1>22. ASSUME DeleteNext PROVE TypeInv'
    BY <1>22, <1>8, <1>9, <1>10, <1>11, <1>12, <1>19
    DEF DeleteNext, StartDelete, ClearCompleted, RemoveExpired
  <1>23. ASSUME PersistNext PROVE TypeInv'
    BY <1>23, <1>13, <1>14, <1>15, <1>15a DEF PersistNext
  <1> QED
    BY <1>16, <1>17, <1>18, <1>20, <1>21, <1>22, <1>23 DEF Next

(* Every reachable state is well typed. *)
THEOREM TypeCorrect == Spec => []TypeOK
  <1>1. TypeInv => TypeOK
    BY DEF TypeInv
  <1> QED BY <1>1, TypeInit, TypeStep, PTL DEF Spec

-----------------------------------------------------------------------------
(* Serial numbers.  What a task, an item, a record or an erasure holds is  *)
(* never newer than the last download given its id, so once the id is      *)
(* given out again all of it is stale for good.                            *)

Recorded == IndexRecords \cup UNION {snap[a] : a \in Actor}

SerialOK ==
    /\ \A id \in Ids : given[id] <= adds
    /\ \A id \in Ids : item[id] # NoItem => item[id].serial <= given[id]
    /\ \A id \in Ids : pc[id] # "off" => item[id].serial = given[id]
    /\ \A r \in Recorded : r.serial <= given[r.id]
    /\ \A e \in erased : e.serial <= given[e.id]

LEMMA RecordedType ==
    ASSUME TypeOK
    PROVE  Recorded \subseteq Record
  BY DEF TypeOK, Recorded, IndexRecords

(* No step but a snapshot brings a record that was not there.              *)
LEMMA RecordedNext ==
    ASSUME TypeInv, [Next]_vars
    PROVE  \/ Recorded' \subseteq Recorded
           \/ /\ Recorded' \subseteq Recorded \cup {RecordOf(id) : id \in DoneListed}
              /\ \E a \in Actor : Snapshot(a)
  <1> DEFINE Kept == Recorded' \subseteq Recorded
  <1>a. snap \in [Actor -> SUBSET Record]
    BY DEF TypeInv, TypeOK
  <1>1. ASSUME index' = index, snap' = snap PROVE Kept
    BY <1>1 DEF Recorded, IndexRecords
  <1>2. ASSUME NEW h \in Handler, NEW o \in Owner, Admit(h, o) PROVE Kept
    BY <1>2, <1>1 DEF Admit
  <1>3. ASSUME NEW h \in Handler, NEW u \in Url, AddItem(h, u) \/ Reject(h) PROVE Kept
    BY <1>3, <1>1 DEF AddItem, Reject
  <1>4. ASSUME NEW h \in Handler, Reject(h) PROVE Kept
    BY <1>4, <1>1 DEF Reject
  <1>5. ASSUME TaskNext PROVE Kept
    BY <1>5, <1>1 DEF TaskNext, Resolve, Request, Body, Finish, Fail
  <1>6. ASSUME DeleteNext PROVE Kept
    BY <1>6, <1>1 DEF DeleteNext, StartDelete, ClearCompleted, RemoveExpired, Start,
       BatchRemove, BatchEnd, Unlink, Rmdir
  <1>7. ASSUME NEW a \in Actor, Truncate(a) \/ Write(a) \/ PersistFails(a) PROVE Kept
    <2>1. snap'[a] \subseteq snap[a] /\ \A b \in Actor : b # a => snap'[b] = snap[b]
      BY <1>7, <1>a DEF Truncate, Write, PersistFails
    <2>2. IndexRecords' \subseteq IndexRecords \cup snap[a]
      BY <1>7 DEF Truncate, Write, PersistFails, Overlay, IndexRecords
    <2> QED BY <2>1, <2>2 DEF Recorded
  <1>8. ASSUME NEW a \in Actor, Snapshot(a)
        PROVE  Recorded' \subseteq Recorded \cup {RecordOf(id) : id \in DoneListed}
    <2>1. /\ snap'[a] = {RecordOf(id) : id \in DoneListed}
          /\ \A b \in Actor : b # a => snap'[b] = snap[b]
      BY <1>8, <1>a DEF Snapshot
    <2>2. IndexRecords' = IndexRecords
      BY <1>8 DEF Snapshot, IndexRecords
    <2> QED BY <2>1, <2>2 DEF Recorded
  <1>9. CASE Restart
    BY <1>9 DEF Restart, Recorded, IndexRecords
  <1>10. CASE Tick \/ UNCHANGED vars
    BY <1>10, <1>1 DEF Tick, vars
  <1> HIDE DEF Kept
  <1> QED BY <1>2, <1>3, <1>4, <1>5, <1>6, <1>7, <1>8, <1>9, <1>10
          DEF Next, AddNext, PersistNext, Kept

(* Only AddItem gives an id out, only Unlink records an erasure, and only  *)
(* AddItem and a restart put another download behind an id.                *)
LEMMA SerialNext ==
    ASSUME TypeInv, [Next]_vars
    PROVE  /\ UNCHANGED <<adds, given>> \/ \E h \in Handler, u \in Url : AddItem(h, u)
           /\ erased' \subseteq erased \cup {[id |-> id, serial |-> item[id].serial] : id \in Finished}
           /\ \/ Restart \/ \E h \in Handler, u \in Url : AddItem(h, u)
              \/ \A id \in Ids : /\ item'[id] # NoItem => /\ item[id] # NoItem
                                                          /\ item'[id].serial = item[id].serial
                                 /\ pc'[id] # "off" => pc[id] # "off"
  <1> DEFINE Adds   == \E h \in Handler, u \in Url : AddItem(h, u)
             Erases == {[id |-> id, serial |-> item[id].serial] : id \in Finished}
             Keeps  == \A id \in Ids : /\ item'[id] # NoItem => /\ item[id] # NoItem
                                                               /\ item'[id].serial = item[id].serial
                                       /\ pc'[id] # "off" => pc[id] # "off"
             Goal   == /\ UNCHANGED <<adds, given>> \/ Adds
                       /\ erased' \subseteq erased \cup Erases
                       /\ Restart \/ Adds \/ Keeps
  <1>a. /\ item \in [Ids -> Item \cup {NoItem}] /\ pc \in [Actor -> Steps]
        /\ job \in [Handler -> Job]
        /\ \A id \in Ids : pc[id] # "off" => item[id] \in Item
    BY DEF TypeInv, TypeOK, StepsOK
  <1>1. ASSUME NEW h \in Handler, NEW o \in Owner, Admit(h, o) \/ Reject(h) PROVE Goal
    BY <1>1, <1>a, ActorsAssumption DEF Admit, Reject, memory, history
  <1>2. ASSUME NEW h \in Handler, NEW u \in Url, AddItem(h, u) PROVE Goal
    BY <1>2 DEF AddItem
  <1>3. ASSUME NEW id \in Ids, Resolve(id) \/ Request(id) \/ Body(id) PROVE Goal
    BY <1>3, <1>a DEF Resolve, Request, Body, memory, history
  <1>4. ASSUME NEW id \in Ids, Finish(id) \/ Fail(id) PROVE Goal
    <2>1. item[id] \in Item
      BY <1>4, <1>a DEF Finish, Fail
    <2>2. PICK ph \in {"done", "error"} : item' = [item EXCEPT ![id] = [item[id] EXCEPT !.phase = ph]]
      BY <1>4 DEF Finish, Fail
    <2>3. item'[id].serial = item[id].serial /\ \A k \in Ids : k # id => item'[k] = item[k]
      BY <1>a, <2>1, <2>2 DEF Item
    <2> QED BY <1>4, <1>a, <2>1, <2>3, NoItemAssumption DEF Finish, Fail, history
  <1>5. ASSUME NEW h \in Handler, NEW op, NEW ids, NEW f, Start(h, op, ids, f) PROVE Goal
    BY <1>5, <1>a, ActorsAssumption DEF Start, memory, history
  <1>6. ASSUME NEW h \in Handler, NEW id \in Ids, BatchRemove(h, id) PROVE Goal
    BY <1>6, <1>a, ActorsAssumption DEF BatchRemove, history
  <1>7. ASSUME NEW h \in Handler, BatchEnd(h) \/ Rmdir(h) PROVE Goal
    BY <1>7, <1>a, ActorsAssumption DEF BatchEnd, Rmdir, memory, history
  <1>8. ASSUME NEW h \in Handler, Unlink(h) PROVE Goal
    <2>1. erased' \subseteq erased \cup Erases /\ UNCHANGED <<adds, given, item>>
      BY <1>8 DEF Unlink, memory
    <2>2. \A id \in Ids : pc'[id] = pc[id]
      BY <1>8, <1>a, ActorsAssumption DEF Unlink
    <2> HIDE DEF Erases
    <2> QED BY <2>1, <2>2
  <1>9. ASSUME NEW a \in Actor, Snapshot(a) \/ Truncate(a) \/ Write(a) \/ PersistFails(a)
        PROVE  Goal
    BY <1>9, <1>a DEF Snapshot, Truncate, Write, PersistFails, memory, history
  <1>10. ASSUME Restart PROVE Goal
    BY <1>10 DEF Restart, history
  <1>11. ASSUME Tick \/ UNCHANGED vars PROVE Goal
    <2>1. UNCHANGED <<adds, given, erased, item, pc>>
      BY <1>11 DEF Tick, vars, memory, history
    <2> HIDE DEF Erases
    <2> QED BY <2>1
  <1> HIDE DEF Goal
  <1>12. ASSUME AddNext PROVE Goal
    BY <1>12, <1>1, <1>2, OwnersAssumption DEF AddNext
  <1>13. ASSUME TaskNext PROVE Goal
    BY <1>13, <1>3, <1>4 DEF TaskNext
  <1>14. ASSUME DeleteNext PROVE Goal
    BY <1>14, <1>5, <1>6, <1>7, <1>8 DEF DeleteNext, StartDelete, ClearCompleted, RemoveExpired
  <1>15. ASSUME PersistNext PROVE Goal
    BY <1>15, <1>9 DEF PersistNext
  <1>16. Goal
    BY <1>10, <1>11, <1>12, <1>13, <1>14, <1>15 DEF Next
  <1> QED BY <1>16 DEF Goal

LEMMA SerialStep ==
    ASSUME TypeInv, SerialOK, [Next]_vars
    PROVE  SerialOK'
  <1>0. TypeInv'
    BY TypeStep
  <1>a. /\ item \in [Ids -> Item \cup {NoItem}] /\ listed \subseteq Ids
        /\ pc \in [Actor -> Steps]
        /\ adds \in Nat /\ given \in [Ids -> Nat]
        /\ \A id \in listed : item[id] # NoItem
    BY DEF TypeInv, TypeOK, StepsOK
  <1>b. item' \in [Ids -> Item \cup {NoItem}] /\ given' \in [Ids -> Nat] /\ erased' \subseteq Erasure
    BY <1>0 DEF TypeInv, TypeOK
  <1>c. Recorded' \subseteq Record
    BY <1>0 DEF TypeInv, TypeOK, Recorded, IndexRecords
  <1>d. \A id \in Ids : item[id] # NoItem => item[id].serial \in Nat
    BY <1>a DEF Item
  <1>1. /\ \A id \in Ids : given'[id] <= adds'
        /\ \A id \in Ids : given[id] <= given'[id]
    <2>1. CASE UNCHANGED <<adds, given>>
      BY <2>1, <1>a DEF SerialOK
    <2>2. ASSUME NEW h \in Handler, NEW u \in Url, AddItem(h, u)
          PROVE  /\ \A id \in Ids : given'[id] <= adds'
                 /\ \A id \in Ids : given[id] <= given'[id]
      <3>1. adds' = adds + 1 /\ given' = [given EXCEPT ![NewId] = adds + 1]
        BY <2>2 DEF AddItem
      <3> QED BY <3>1, <1>a DEF SerialOK
    <2> QED BY <2>1, <2>2, SerialNext
  <1>2. \A r \in Recorded' : r.serial <= given'[r.id]
    <2>1. \A r \in Recorded' : r.serial <= given[r.id]
      <3>1. \A id \in DoneListed : RecordOf(id).serial <= given[RecordOf(id).id]
        BY <1>a DEF SerialOK, DoneListed, RecordOf
      <3>2. Recorded' \subseteq Recorded \cup {RecordOf(id) : id \in DoneListed}
        BY RecordedNext
      <3> QED BY <3>1, <3>2 DEF SerialOK
    <2>2. \A r \in Recorded' : r.id \in Ids /\ r.serial \in Nat
      BY <1>c DEF Record
    <2> HIDE DEF Recorded
    <2> QED BY <2>1, <2>2, <1>1, <1>a, <1>b
  <1>3. \A e \in erased' : e.serial <= given'[e.id]
    <2>1. \A e \in erased' : e.serial <= given[e.id]
      <3>1. \A id \in Finished : item[id].serial <= given[id]
        BY DEF SerialOK, Finished
      <3>2. erased' \subseteq erased \cup {[id |-> id, serial |-> item[id].serial] : id \in Finished}
        BY SerialNext
      <3> QED BY <3>1, <3>2 DEF SerialOK
    <2>2. \A e \in erased' : e.id \in Ids /\ e.serial \in Nat
      BY <1>b DEF Erasure
    <2> QED BY <2>1, <2>2, <1>1, <1>a, <1>b
  <1>4. /\ \A id \in Ids : item'[id] # NoItem => item'[id].serial <= given'[id]
        /\ \A id \in Ids : pc'[id] # "off" => item'[id].serial = given'[id]
    <2>1. ASSUME NEW h \in Handler, NEW u \in Url, AddItem(h, u) PROVE <1>4!1 /\ <1>4!2
      <3>1. NewId \in Ids
        BY <2>1, BoundsAssumption DEF AddItem, NewId, TypeInv, TypeOK
      <3>2. /\ given' = [given EXCEPT ![NewId] = adds + 1]
            /\ item'[NewId].serial = adds + 1
            /\ \A id \in Ids : id # NewId => item'[id] = item[id] /\ pc'[id] = pc[id]
        BY <2>1, <1>a, <3>1, ActorsAssumption DEF AddItem
      <3> QED BY <3>1, <3>2, <1>a DEF SerialOK
    <2>2. CASE Restart
      <3>1. /\ given' = given
            /\ \A id \in Ids : pc'[id] = "off"
            /\ item' = [id \in Ids |-> IF id \in listed' THEN Restored(id) ELSE NoItem]
            /\ listed' = {r.id : r \in Restorable}
        BY <2>2, ActorsAssumption DEF Restart, history
      <3>2. ASSUME NEW id \in listed' PROVE Restored(id).serial <= given[id]
        <4>1. PICK r \in Restorable : r.id = id /\ Restored(id).serial = r.serial
          BY <3>1 DEF Restored
        <4>2. r \in Recorded
          BY DEF Restorable, Recorded
        <4> QED BY <4>1, <4>2 DEF SerialOK
      <3>3. \A id \in Ids : item'[id] # NoItem => id \in listed' /\ item'[id] = Restored(id)
        BY <3>1
      <3> QED BY <3>1, <3>2, <3>3
    <2>3. CASE /\ UNCHANGED <<adds, given>>
               /\ \A id \in Ids : /\ item'[id] # NoItem => /\ item[id] # NoItem
                                                           /\ item'[id].serial = item[id].serial
                                  /\ pc'[id] # "off" => pc[id] # "off"
      <3>1. \A id \in Ids : pc'[id] # "off" => item'[id] # NoItem
        BY <1>0 DEF TypeInv, StepsOK
      <3> QED BY <2>3, <3>1 DEF SerialOK
    <2> QED BY <2>1, <2>2, <2>3, SerialNext
  <1> QED BY <1>1, <1>2, <1>3, <1>4 DEF SerialOK

-----------------------------------------------------------------------------
(* The invariant behind the safety properties.  A fresh id was never used  *)
(* in this process; a deletion in progress works on an id that is out of   *)
(* the list and can not come back; a download that still runs is marked so *)
(* and its file grows towards the full one.  A record of the last download *)
(* given its id finds that download's full file or none, whatever persists *)
(* and crashes did to index.json, because nothing is recorded while its    *)
(* task still writes.                                                      *)

FreshOK == \A id \in Ids : id >= nextId => pc[id] = "off" /\ id \notin listed

JobOK == \A h \in Handler :
            /\ job[h].op \in {"clear", "expire"} => \A id \in job[h].todo : id < nextId
            /\ pc[h] \in {"unlink", "rmdir"} => job[h].cur < nextId /\ job[h].cur \notin listed

Running == {id \in Ids : pc[id] \in {"resolve", "request", "body", "finish"}}

PhaseOK == \A id \in Running : item[id].phase = "downloading"

ErasedOK == \A e \in erased : given[e.id] = e.serial =>
               /\ e.id \notin listed
               /\ pc[e.id] \notin {"resolve", "request", "body"}
               /\ \A n \in Name : disk[e.id][n] = NoFile

Own(id)  == [url |-> item[id].url, full |-> TRUE]

FilesOK == ~DiskFaults => \A id \in listed :
              /\ pc[id] = "body" => FileOf(id) = [url |-> item[id].url, full |-> FALSE]
              /\ pc[id] = "finish" => FileOf(id) = Own(id)
              /\ IsDone(id) /\ given[id] = item[id].serial => FileOf(id) = Own(id)

RecordOK(r) == given[r.id] = r.serial =>
                  /\ r.id \notin Running
                  /\ ~DiskFaults => disk[r.id][NameOf[r.url]]
                                       \in {NoFile, [url |-> r.url, full |-> TRUE]}
RecordsOK == \A r \in Recorded : RecordOK(r)

Inv == /\ SerialOK /\ RecordsOK
       /\ FreshOK /\ JobOK /\ PhaseOK /\ BatchStillValid /\ ErasedOK /\ FilesOK

LEMMA InvInit == Init => Inv
  <1> SUFFICES ASSUME Init PROVE Inv
    OBVIOUS
  <1>1. FreshOK /\ JobOK /\ PhaseOK /\ BatchStillValid /\ ErasedOK /\ FilesOK
    BY ActorsAssumption DEF Init, FreshOK, JobOK, Running, PhaseOK, BatchStillValid, ErasedOK,
       FilesOK, NoJob
  <1>2. Recorded = {}
    BY DEF Init, Recorded, IndexRecords
  <1>3. SerialOK /\ RecordsOK
    BY <1>2, ActorsAssumption DEF Init, SerialOK, RecordsOK
  <1> QED BY <1>1, <1>3 DEF Inv

(* RecordsOK by itself: a record stays good while the files and the task   *)
(* behind its id do what the code does.                                    *)
LEMMA RecordsStep ==
    ASSUME TypeInv, Inv, [Next]_vars
    PROVE  RecordsOK'
  <1>0. TypeInv' /\ SerialOK'
    BY TypeStep, SerialStep DEF Inv
  <1>a. /\ item \in [Ids -> Item \cup {NoItem}] /\ listed \subseteq Ids
        /\ pc \in [Actor -> Steps] /\ job \in [Handler -> Job]
        /\ given \in [Ids -> Nat] /\ adds \in Nat
        /\ disk \in [Ids -> [Name -> Content \cup {NoFile}]]
        /\ \A id \in Ids : pc[id] \in TaskSteps
    BY DEF TypeInv, TypeOK, StepsOK
  <1>b. Recorded \subseteq Record /\ Recorded' \subseteq Record
    BY <1>0 DEF TypeInv, TypeOK, Recorded, IndexRecords
  <1>c. \A r \in Recorded' : RecordOK(r) /\ r.serial <= given[r.id]
    <2>1. ASSUME NEW id \in DoneListed PROVE RecordOK(RecordOf(id))
      <3>1. id \in Ids /\ item[id].phase = "done" /\ id \in listed
        BY <1>a DEF DoneListed, IsDone
      <3>2. id \notin Running
        BY <3>1 DEF Inv, PhaseOK
      <3> QED BY <3>1, <3>2 DEF Inv, FilesOK, RecordOK, RecordOf, FileOf, IsDone, Own
    <2>2. ASSUME NEW id \in DoneListed PROVE RecordOf(id).serial <= given[RecordOf(id).id]
      BY DEF DoneListed, RecordOf, Inv, SerialOK, TypeInv, TypeOK
    <2>3. Recorded' \subseteq Recorded \cup {RecordOf(id) : id \in DoneListed}
      BY RecordedNext
    <2> QED BY <2>1, <2>2, <2>3 DEF Inv, RecordsOK, SerialOK
  <1>d. \A r \in Record : r.id \in Ids /\ r.url \in Url /\ r.serial \in Nat
    BY DEF Record
  <1> SUFFICES ASSUME NEW r \in Recorded', given'[r.id] = r.serial
               PROVE  /\ r.id \notin Running'
                      /\ ~DiskFaults => disk'[r.id][NameOf[r.url]]
                                           \in {NoFile, [url |-> r.url, full |-> TRUE]}
    BY DEF RecordsOK, RecordOK
  <1>e. r.id \in Ids /\ r.url \in Url /\ r.serial \in Nat /\ NameOf[r.url] \in Name
    BY <1>b, <1>d, NamesAssumption
  <1> DEFINE Good == /\ r.id \notin Running'
                     /\ ~DiskFaults => disk'[r.id][NameOf[r.url]]
                                          \in {NoFile, [url |-> r.url, full |-> TRUE]}
  <1>1. ASSUME NEW h \in Handler, NEW u \in Url, AddItem(h, u) PROVE Good
    <2>1. NewId \in Ids
      BY <1>1, BoundsAssumption DEF AddItem, NewId, TypeInv, TypeOK
    <2>2. /\ given' = [given EXCEPT ![NewId] = adds + 1] /\ disk' = disk
          /\ \A id \in Ids : id # NewId => pc'[id] = pc[id]
      BY <1>1, <1>a, <2>1, ActorsAssumption DEF AddItem, files
    <2>3. r.id # NewId
      BY <2>1, <2>2, <1>c, <1>e, <1>a DEF Inv, SerialOK
    <2> QED BY <2>2, <2>3, <1>c, <1>e, <1>a DEF RecordOK, Running
  <1>2. ASSUME given' = given
        PROVE  /\ r.id \notin Running
               /\ ~DiskFaults => disk[r.id][NameOf[r.url]]
                                    \in {NoFile, [url |-> r.url, full |-> TRUE]}
    BY <1>2, <1>c DEF RecordOK
  <1>3. ASSUME given' = given, disk' = disk, Running' \subseteq Running PROVE Good
    BY <1>2, <1>3
  <1>4. ASSUME NEW h \in Handler, NEW o \in Owner, Admit(h, o) \/ Reject(h) PROVE Good
    BY <1>4, <1>3, <1>a, ActorsAssumption DEF Admit, Reject, Running, files, history
  <1>5. ASSUME NEW id \in Ids, Resolve(id) \/ Finish(id) \/ Fail(id) PROVE Good
    BY <1>5, <1>3, <1>a DEF Resolve, Finish, Fail, Running, files, history
  <1>6. ASSUME NEW id \in Ids, Request(id) \/ Body(id) PROVE Good
    <2>1. given' = given /\ Running' \subseteq Running /\ id \in Running
      BY <1>6, <1>a DEF Request, Body, Running, history
    <2>2. \A k \in Ids : k # id => disk'[k] = disk[k]
      BY <1>6, <1>a DEF Request, Body
    <2>3. r.id # id
      BY <1>2, <2>1
    <2> HIDE DEF Running
    <2> QED BY <1>2, <1>e, <2>1, <2>2, <2>3
  <1>7. ASSUME NEW h \in Handler, NEW op, NEW ids, NEW f, Start(h, op, ids, f) PROVE Good
    BY <1>7, <1>3, <1>a, ActorsAssumption DEF Start, Running, files, history
  <1>8. ASSUME NEW h \in Handler, NEW id \in Ids, BatchRemove(h, id) PROVE Good
    BY <1>8, <1>3, <1>a, ActorsAssumption DEF BatchRemove, Running, files, history
  <1>9. ASSUME NEW h \in Handler, BatchEnd(h) \/ Rmdir(h) PROVE Good
    BY <1>9, <1>3, <1>a, ActorsAssumption DEF BatchEnd, Rmdir, Running, files, history
  <1>10. ASSUME NEW h \in Handler, Unlink(h) PROVE Good
    <2>1. given' = given /\ Running' \subseteq Running
      BY <1>10, <1>a, ActorsAssumption DEF Unlink, Running
    <2>2. disk' = [disk EXCEPT ![job[h].cur] = [n \in Name |-> NoFile]]
      BY <1>10 DEF Unlink
    <2> HIDE DEF Running
    <2> QED BY <1>2, <1>e, <1>a, <2>1, <2>2
  <1>11. ASSUME NEW a \in Actor, Snapshot(a) \/ Truncate(a) \/ Write(a) \/ PersistFails(a)
         PROVE  Good
    BY <1>11, <1>3, <1>a DEF Snapshot, Truncate, Write, PersistFails, Running, files, history
  <1>12. ASSUME Restart PROVE Good
    BY <1>12, <1>3, ActorsAssumption DEF Restart, Running, files, history
  <1>13. ASSUME Tick \/ UNCHANGED vars PROVE Good
    BY <1>13, <1>3 DEF Tick, vars, Running, files, history
  <1> HIDE DEF Good
  <1>14. ASSUME AddNext PROVE Good
    BY <1>14, <1>1, <1>4, OwnersAssumption DEF AddNext
  <1>15. ASSUME TaskNext PROVE Good
    BY <1>15, <1>5, <1>6 DEF TaskNext
  <1>16. ASSUME DeleteNext PROVE Good
    BY <1>16, <1>7, <1>8, <1>9, <1>10 DEF DeleteNext, StartDelete, ClearCompleted, RemoveExpired
  <1>17. ASSUME PersistNext PROVE Good
    BY <1>17, <1>11 DEF PersistNext
  <1>18. Good
    BY <1>12, <1>13, <1>14, <1>15, <1>16, <1>17 DEF Next
  <1> QED BY <1>18 DEF Good

(* Giving out an id makes all that is older stale.                         *)
LEMMA Stale ==
    ASSUME TypeInv, SerialOK, NEW h \in Handler, NEW u \in Url, AddItem(h, u)
    PROVE  /\ NewId \in Ids
           /\ given' = [given EXCEPT ![NewId] = adds + 1]
           /\ \A e \in erased : given'[e.id] = e.serial => e.id # NewId /\ given[e.id] = e.serial
  <1>1. NewId \in Ids /\ given \in [Ids -> Nat] /\ adds \in Nat
    BY BoundsAssumption DEF AddItem, NewId, TypeInv, TypeOK
  <1>2. given' = [given EXCEPT ![NewId] = adds + 1]
    BY DEF AddItem
  <1>3. \A e \in erased : e.id \in Ids /\ e.serial \in Nat /\ e.serial <= adds
    <2>1. \A e \in erased : e.id \in Ids /\ e.serial \in Nat
      BY DEF TypeInv, TypeOK, Erasure
    <2> QED BY <1>1, <2>1 DEF SerialOK
  <1> QED BY <1>1, <1>2, <1>3

LEMMA InvStep == TypeInv /\ Inv /\ [Next]_vars => Inv'
  <1> SUFFICES ASSUME TypeInv, Inv, [Next]_vars PROVE Inv'
    OBVIOUS
  <1> DEFINE Local == FreshOK /\ JobOK /\ PhaseOK /\ BatchStillValid /\ ErasedOK /\ FilesOK
  <1>0. TypeInv' /\ SerialOK /\ SerialOK' /\ RecordsOK'
    BY TypeStep, SerialStep, RecordsStep DEF Inv
  <1>a. /\ listed \subseteq Ids /\ listed' \subseteq Ids
        /\ \A h \in Handler : pc[h] \in HandlerSteps
        /\ \A id \in Ids : pc[id] \in TaskSteps
        /\ pc \in [Actor -> Steps] /\ job \in [Handler -> Job]
        /\ item \in [Ids -> Item \cup {NoItem}]
        /\ nextId \in Nat /\ now \in Nat /\ erased \subseteq Erasure
        /\ adds \in Nat /\ given \in [Ids -> Nat]
        /\ disk \in [Ids -> [Name -> Content \cup {NoFile}]]
    BY <1>0 DEF TypeInv, TypeOK, StepsOK
  <1>b. \A h \in Handler : job[h].todo \subseteq Ids /\ job[h].cur \in Ids
    BY <1>a DEF Job
  <1>c. \A id \in Ids : id \in listed \/ pc[id] # "off" => item[id] \in Item
    BY DEF TypeInv, TypeOK, StepsOK
  <1>d. Local
    BY DEF Inv
  <1>e. \A e \in erased : e.id \in Ids /\ e.serial \in Nat
    BY <1>a DEF Erasure
  <1> USE <1>a, <1>b, <1>c, <1>d, <1>e, ActorsAssumption DEF FreshOK, JobOK, Running, PhaseOK, BatchStillValid, ErasedOK, FilesOK,
          FileOf, Own, IsDone, Expired, HandlerSteps, TaskSteps
  <1>1. ASSUME NEW h \in Handler, NEW o \in Owner, Admit(h, o) PROVE Local'
    BY <1>1 DEF Admit, memory, files, clock, history
  <1>1a. ASSUME NEW h \in Handler, Reject(h) PROVE Local'
    BY <1>1a DEF Reject, NoJob, memory, files, clock, history
  <1>2. ASSUME NEW h \in Handler, NEW u \in Url, AddItem(h, u) PROVE Local'
    <2>1. FreshOK' /\ PhaseOK'
      <3>1. nextId \in Ids /\ nextId' = nextId + 1 /\ listed' = listed \cup {nextId}
        BY <1>2, BoundsAssumption DEF AddItem, NewId
      <3>2. /\ pc' = [pc EXCEPT ![h] = "idle", ![nextId] = "resolve"]
            /\ item'[nextId].phase = "downloading"
            /\ \A id \in Ids : id # nextId => item'[id] = item[id]
        BY <1>2, <3>1 DEF AddItem, NewId
      <3>3. \A id \in Ids : id # nextId => pc'[id] = pc[id]
        BY <3>2
      <3>4. FreshOK'
        BY <3>1, <3>3
      <3>5. PhaseOK'
        BY <3>2, <3>3
      <3> QED BY <3>4, <3>5
    <2>2. JobOK'
      BY <1>2 DEF AddItem, NewId, NoJob, files, clock, history
    <2>3. BatchStillValid'
      BY <1>2 DEF AddItem, NewId, NoJob, files, clock, history
    <2>4. ErasedOK'
      <3>1. \A e \in erased : given'[e.id] = e.serial => given[e.id] = e.serial /\ e.id # NewId
        BY <1>0, <1>2, Stale DEF SerialOK, AddItem
      <3> QED BY <1>2, <3>1 DEF AddItem, NewId, NoJob, files, clock
    <2>5. FilesOK'
      BY <1>2 DEF AddItem, NewId, NoJob, files, clock
    <2> QED BY <2>1, <2>2, <2>3, <2>4, <2>5
  <1>3. ASSUME NEW id \in Ids, Resolve(id) PROVE Local'
    <2>1. FreshOK' /\ PhaseOK'
      BY <1>3 DEF Resolve, memory, clock, history
    <2>2. JobOK'
      BY <1>3 DEF Resolve, memory, clock, history
    <2>3. BatchStillValid'
      BY <1>3 DEF Resolve, memory, clock, history
    <2>4. ErasedOK'
      BY <1>3 DEF Resolve, memory, clock, history
    <2>5. FilesOK'
      BY <1>3 DEF Resolve, memory, clock, history
    <2> QED BY <2>1, <2>2, <2>3, <2>4, <2>5
  <1>4. ASSUME NEW id \in Ids, Request(id) PROVE Local'
    <2>1. FreshOK' /\ PhaseOK'
      BY <1>4 DEF Request, memory, clock, history
    <2>2. JobOK'
      BY <1>4 DEF Request, memory, clock, history
    <2>3. BatchStillValid'
      BY <1>4 DEF Request, memory, clock, history
    <2>4. ErasedOK'
      BY <1>4 DEF Request, memory, clock, history
    <2>5. FilesOK'
      <3> DEFINE n == NameOf[item[id].url]
                 c == [url |-> item[id].url, full |-> FALSE]
      <3>1. item[id] \in Item /\ n \in Name
        BY <1>4, NamesAssumption DEF Request, Item
      <3>2. disk' = [disk EXCEPT ![id][n] = c]
        BY <1>4 DEF Request
      <3>3. disk'[id][n] = c /\ \A k \in Ids : k # id => disk'[k] = disk[k]
        BY <3>1, <3>2
      <3>4. /\ UNCHANGED <<item, listed, given>> /\ pc'[id] = "body"
            /\ ~IsDone(id)
            /\ \A k \in Ids : k # id => pc'[k] = pc[k]
        BY <1>4 DEF Request, memory, history
      <3> QED BY <3>1, <3>3, <3>4
    <2> QED BY <2>1, <2>2, <2>3, <2>4, <2>5
  <1>5. ASSUME NEW id \in Ids, Body(id) PROVE Local'
    <2>1. FreshOK' /\ PhaseOK'
      BY <1>5 DEF Body, memory, clock, history
    <2>2. JobOK'
      BY <1>5 DEF Body, memory, clock, history
    <2>3. BatchStillValid'
      BY <1>5 DEF Body, memory, clock, history
    <2>4. ErasedOK'
      BY <1>5 DEF Body, memory, clock, history
    <2>5. FilesOK'
      <3> SUFFICES ASSUME ~DiskFaults PROVE FilesOK'
        OBVIOUS
      <3> DEFINE n == NameOf[item[id].url]
      <3>1. item[id] \in Item /\ n \in Name
        BY <1>5, NamesAssumption DEF Body, Item
      <3>2. disk' = IF disk[id][n] = NoFile THEN disk ELSE [disk EXCEPT ![id][n] = Own(id)]
        BY <1>5 DEF Body
      <3>3. id \in listed => disk'[id][n] = Own(id)
        <4> SUFFICES ASSUME id \in listed PROVE disk'[id][n] = Own(id)
          OBVIOUS
        <4>1. disk[id][n] = [url |-> item[id].url, full |-> FALSE]
          BY <1>5 DEF Body
        <4>2. [url |-> item[id].url, full |-> FALSE] \in Content
          BY <3>1 DEF Content, Item
        <4>3. disk[id][n] # NoFile
          BY <4>1, <4>2, NoItemAssumption
        <4> HIDE DEF n, Own
        <4> QED BY <3>1, <3>2, <4>3
      <3>4. \A k \in Ids : k # id => disk'[k] = disk[k]
        BY <3>2
      <3>5. /\ UNCHANGED <<item, listed, given>> /\ pc'[id] = "finish"
            /\ \A k \in Ids : k # id => pc'[k] = pc[k]
        BY <1>5 DEF Body, memory, history
      <3> QED BY <3>1, <3>3, <3>4, <3>5
    <2> QED BY <2>1, <2>2, <2>3, <2>4, <2>5
  <1>6. ASSUME NEW id \in Ids, Finish(id) PROVE Local'
    BY <1>6, SMTT(20) DEF Finish, files, clock, history
  <1>7. ASSUME NEW id \in Ids, Fail(id) PROVE Local'
    BY <1>7, SMTT(20) DEF Fail, files, clock, history
  <1>8. ASSUME NEW h \in Handler, NEW op \in {"delete", "clear", "expire"},
               NEW ids \in SUBSET Ids, NEW f \in BOOLEAN, Start(h, op, ids, f),
               op \in {"clear", "expire"} => ids \subseteq listed,
               op = "clear" => \A id \in ids : IsDone(id),
               op = "expire" => \A id \in ids : Expired(id)
        PROVE  Local'
    BY <1>8, SMTT(20) DEF Start, memory, files, clock, history
  <1>9. ASSUME NEW h \in Handler, NEW id \in Ids, BatchRemove(h, id) PROVE Local'
    BY <1>9, SMTT(20) DEF BatchRemove, files, clock, history
  <1>10. ASSUME NEW h \in Handler, BatchEnd(h) PROVE Local'
    <2>1. /\ job'[h].todo = {} /\ pc'[h] = "idle"
          /\ \A g \in Handler \ {h} : job'[g] = job[g] /\ pc'[g] = pc[g]
          /\ UNCHANGED <<item, listed, nextId, now>>
      BY <1>10 DEF BatchEnd, NoJob, memory, clock, history
    <2>2. FreshOK' /\ PhaseOK'
      BY <1>10 DEF BatchEnd, memory
    <2>3. JobOK'
      <3> SUFFICES ASSUME NEW g \in Handler
                   PROVE  /\ job'[g].op \in {"clear", "expire"} =>
                                \A id \in job'[g].todo : id < nextId
                          /\ pc'[g] \in {"unlink", "rmdir"} =>
                                job'[g].cur < nextId /\ job'[g].cur \notin listed
        BY <2>1
      <3> QED BY <2>1
    <2>4. BatchStillValid'
      <3> SUFFICES ASSUME NEW g \in Handler, NEW id \in job'[g].todo \cap listed
                   PROVE  /\ job'[g].op = "clear" => IsDone(id)
                          /\ job'[g].op = "expire" => Expired(id)
        BY <2>1
      <3> QED BY <2>1
    <2>5. ErasedOK' /\ FilesOK'
      BY <1>10 DEF BatchEnd, memory, files, clock, history
    <2> QED BY <2>2, <2>3, <2>4, <2>5
  <1>11. ASSUME NEW h \in Handler, Unlink(h) PROVE Local'
    <2>1. FreshOK' /\ PhaseOK'
      BY <1>11 DEF Unlink, memory, clock
    <2>2. JobOK'
      BY <1>11 DEF Unlink, memory, clock
    <2>3. BatchStillValid'
      BY <1>11 DEF Unlink, memory, clock
    <2>4. ErasedOK'
      <3>1. ASSUME NEW e \in erased', given[e.id] = e.serial
            PROVE  /\ e.id \notin listed
                   /\ pc[e.id] \notin {"resolve", "request", "body"}
                   /\ e.id = job[h].cur \/ \A n \in Name : disk[e.id][n] = NoFile
        <4>1. CASE e \in erased
          BY <3>1, <4>1
        <4>2. CASE e \notin erased
          <5>1. e.id = job[h].cur /\ e.id \in Finished
            BY <1>11, <4>2 DEF Unlink
          <5> QED BY <1>11, <5>1 DEF Unlink, Finished
        <4> QED BY <4>1, <4>2
      <3>2. \A e \in erased' : e.id \in Ids
        BY <1>0 DEF TypeInv, TypeOK, Erasure
      <3>3. /\ disk' = [disk EXCEPT ![job[h].cur] = [n \in Name |-> NoFile]]
            /\ UNCHANGED <<listed, given>>
            /\ \A id \in Ids : pc'[id] = pc[id]
        BY <1>11 DEF Unlink, memory
      <3> QED BY <3>1, <3>2, <3>3
    <2>5. FilesOK'
      BY <1>11 DEF Unlink, memory, clock
    <2> QED BY <2>1, <2>2, <2>3, <2>4, <2>5
  <1>12. ASSUME NEW h \in Handler, Rmdir(h) PROVE Local'
    <2>1. FreshOK' /\ PhaseOK'
      BY <1>12 DEF Rmdir, memory, clock, history
    <2>2. JobOK'
      BY <1>12 DEF Rmdir, memory, clock, history
    <2>3. BatchStillValid'
      BY <1>12 DEF Rmdir, memory, clock, history
    <2>4. ErasedOK'
      BY <1>12 DEF Rmdir, memory, clock, history
    <2>5. FilesOK'
      BY <1>12 DEF Rmdir, memory, clock, history
    <2> QED BY <2>1, <2>2, <2>3, <2>4, <2>5
  <1>13. ASSUME NEW a \in Actor, Snapshot(a) PROVE Local'
    BY <1>13 DEF Snapshot, memory, files, clock, history
  <1>14. ASSUME NEW a \in Actor, Truncate(a) PROVE Local'
    BY <1>14 DEF Truncate, memory, files, clock, history
  <1>15. ASSUME NEW a \in Actor, Write(a) PROVE Local'
    BY <1>15 DEF Write, memory, files, clock, history
  <1>15a. ASSUME NEW a \in Actor, PersistFails(a) PROVE Local'
    BY <1>15a DEF PersistFails, memory, files, clock, history
  <1>16. ASSUME Restart PROVE Local'
    <2>1. FreshOK' /\ PhaseOK'
      <3>1. PICK n \in 0 .. MaxIds : (\A id \in listed' : id < n) /\ nextId' = n
        BY <1>16 DEF Restart
      <3>2. \A id \in Ids : pc'[id] = "off"
        BY <1>16 DEF Restart
      <3> QED BY <3>1, <3>2
    <2>2. JobOK'
      BY <1>16 DEF Restart, NoJob, files, history
    <2>3. BatchStillValid'
      BY <1>16 DEF Restart, NoJob, files, history
    <2>4. ErasedOK'
      <3>1. \A id \in Ids : pc'[id] = "off"
        BY <1>16 DEF Restart
      <3>2. ASSUME NEW e \in erased, given[e.id] = e.serial PROVE e.id \notin listed'
        <4> SUFFICES ASSUME e.id \in listed' PROVE FALSE
          OBVIOUS
        <4>1. Restored(e.id) \in Item /\ disk[e.id][NameOf[Restored(e.id).url]] # NoFile
          BY <1>16, RestoredType DEF Restart, TypeInv
        <4> QED BY <3>2, <4>1, NamesAssumption DEF Item
      <3> QED BY <1>16, <3>1, <3>2 DEF Restart, files, history
    <2>5. FilesOK'
      <3>1. ASSUME ~DiskFaults, NEW id \in listed', given[id] = Restored(id).serial
            PROVE  disk[id][NameOf[Restored(id).url]] = [url |-> Restored(id).url, full |-> TRUE]
        <4> DEFINE R == CHOOSE r \in Restorable : r.id = id
        <4>1. R \in Restorable /\ R.id = id
          BY <1>16 DEF Restart
        <4> HIDE DEF R
        <4>2. Restored(id).url = R.url /\ Restored(id).serial = R.serial
          BY DEF Restored, R
        <4>3. R \in Recorded /\ disk[R.id][NameOf[R.url]] # NoFile
          BY <4>1 DEF Restorable, Recorded
        <4> QED BY <3>1, <4>1, <4>2, <4>3 DEF Inv, RecordsOK, RecordOK
      <3>2. /\ \A id \in Ids : pc'[id] = "off"
            /\ \A id \in listed' : item'[id] = Restored(id)
            /\ UNCHANGED <<disk, given>>
        BY <1>16 DEF Restart, files, history
      <3> QED BY <3>1, <3>2
    <2> QED BY <2>1, <2>2, <2>3, <2>4, <2>5
  <1>17. ASSUME Tick PROVE Local'
    <2>1. FreshOK' /\ PhaseOK'
      BY <1>17 DEF Tick, memory, files, history
    <2>2. JobOK'
      BY <1>17 DEF Tick, memory, files, history
    <2>3. BatchStillValid'
      <3>1. \A id \in listed : item[id].created \in Nat
        BY DEF Item
      <3> QED BY <1>17, <3>1, LimitAssumption DEF Tick, memory, files, history
    <2>4. ErasedOK'
      BY <1>17 DEF Tick, memory, files, history
    <2>5. FilesOK'
      BY <1>17 DEF Tick, memory, files, history
    <2> QED BY <2>1, <2>2, <2>3, <2>4, <2>5
  <1>18. ASSUME UNCHANGED vars PROVE Local'
    BY <1>18 DEF vars
  <1>19. /\ \A id \in Ids : {id} \in SUBSET Ids
         /\ DoneListed \in SUBSET Ids
         /\ {id \in listed : Expired(id)} \in SUBSET Ids
         /\ \A f \in DeleteModes : f \in BOOLEAN
    BY ModesAssumption DEF DoneListed
  <1> HIDE DEF Local, IsDone, Expired
  <1>20. ASSUME AddNext PROVE Local'
    BY <1>20, <1>1, <1>1a, <1>2 DEF AddNext
  <1>21. ASSUME TaskNext PROVE Local'
    BY <1>21, <1>3, <1>4, <1>5, <1>6, <1>7 DEF TaskNext
  <1>22. ASSUME DeleteNext PROVE Local'
    <2>1. ASSUME NEW h \in Handler, NEW id \in Ids, NEW f \in DeleteModes, StartDelete(h, id, f)
          PROVE  Local'
      BY <2>1, <1>8, <1>19 DEF StartDelete
    <2>2. ASSUME NEW h \in Handler, ClearCompleted(h) PROVE Local'
      BY <2>2, <1>8, <1>19 DEF ClearCompleted, DoneListed
    <2>3. ASSUME NEW h \in Handler, RemoveExpired(h) PROVE Local'
      BY <2>3, <1>8, <1>19 DEF RemoveExpired
    <2> QED BY <1>22, <2>1, <2>2, <2>3, <1>9, <1>10, <1>11, <1>12 DEF DeleteNext
  <1>23. ASSUME PersistNext PROVE Local'
    BY <1>23, <1>13, <1>14, <1>15, <1>15a DEF PersistNext
  <1>24. Local'
    BY <1>16, <1>17, <1>18, <1>20, <1>21, <1>22, <1>23 DEF Next
  <1> QED BY <1>0, <1>24 DEF Inv, Local

LEMMA Invariance == Spec => [](TypeInv /\ Inv)
  BY TypeInit, TypeStep, InvInit, InvStep, PTL DEF Spec

(* A batch that collected its ids earlier deletes only what it was asked   *)
(* to delete, whatever other requests did in between.                      *)
THEOREM BatchesStayValid == Spec => []BatchStillValid
  <1>1. Inv => BatchStillValid
    BY DEF Inv
  <1> QED BY <1>1, Invariance, PTL

(* When the disk takes every write of a download, a finished download that *)
(* is listed, also one restored by any number of restarts, is served from  *)
(* its own, complete file, unless its id was since given to another.       *)
THEOREM FinishedServed == ASSUME ~DiskFaults PROVE Spec => []DoneServesOwn
  <1>1. TypeInv /\ Inv => DoneServesOwn
    BY DEF Inv, FilesOK, DoneServesOwn, DoneListed, Own, TypeInv, TypeOK
  <1> QED BY <1>1, Invariance, PTL

(* Whatever index.json still holds, and across any number of restarts, a   *)
(* finished download whose files were erased is not listed again while its *)
(* id was not given to another download.  (Once it was, it can be: the     *)
(* stale record finds the new download's file.)                            *)
THEOREM ErasureLasts == Spec => []ErasedStaysErased
  <1>1. Inv => ErasedStaysErased
    BY DEF Inv, ErasedOK, ErasedStaysErased
  <1> QED BY <1>1, Invariance, PTL

-----------------------------------------------------------------------------
(* The cap on a user's downloads.  A request that passed the check counts  *)
(* towards the bound from then on: adding the item moves one unit from the *)
(* admitted requests to the active downloads.                              *)

ActiveIds(o) == {id \in listed : item[id].owner = o /\ item[id].phase = "downloading"}

LEMMA FiniteCounts ==
    ASSUME IsFiniteSet(Handler), NEW A \in SUBSET Ids, NEW B \in SUBSET Handler
    PROVE  /\ IsFiniteSet(A) /\ Cardinality(A) \in Nat
           /\ IsFiniteSet(B) /\ Cardinality(B) \in Nat
           /\ Cardinality(B) <= Cardinality(Handler)
           /\ Cardinality(Handler) \in Nat
  <1>1. IsFiniteSet(0 .. MaxIds - 1)
    BY FS_Interval, BoundsAssumption
  <1> QED BY <1>1, FS_Subset, FS_CardinalityType

LEMMA CountedSets ==
    ASSUME TypeInv, NEW o \in Owner
    PROVE  ActiveIds(o) \in SUBSET Ids /\ Admitted(o) \in SUBSET Handler
  BY DEF TypeInv, TypeOK, ActiveIds, Admitted

(* A step that leaves a user no more downloads and admitted requests.      *)
LEMMA CapShrinks ==
    ASSUME TypeInv, TypeInv', IsFiniteSet(Handler), OverrunBounded,
           \A o \in Owner : ActiveIds(o)' \subseteq ActiveIds(o) /\ Admitted(o)' \subseteq Admitted(o)
    PROVE  OverrunBounded'
  <1> SUFFICES ASSUME Limit > 0, NEW o \in Owner
               PROVE  Cardinality(ActiveIds(o)') + Cardinality(Admitted(o)')
                        < Limit + Cardinality(Handler)
    BY DEF OverrunBounded, ActiveCount, ActiveIds, Admitted
  <1>1. Cardinality(ActiveIds(o)) + Cardinality(Admitted(o)) < Limit + Cardinality(Handler)
    BY DEF OverrunBounded, ActiveCount, ActiveIds
  <1>2. /\ Cardinality(ActiveIds(o)') \in Nat
        /\ Cardinality(ActiveIds(o)') <= Cardinality(ActiveIds(o))
        /\ Cardinality(Admitted(o)') \in Nat
        /\ Cardinality(Admitted(o)') <= Cardinality(Admitted(o))
    BY CountedSets, FiniteCounts, FS_Subset, FS_CardinalityType
  <1> QED BY <1>1, <1>2, CountedSets, FiniteCounts, LimitAssumption

LEMMA CapStep ==
    ASSUME IsFiniteSet(Handler), TypeInv, OverrunBounded, [Next]_vars
    PROVE  OverrunBounded'
  <1>0. TypeInv'
    BY TypeStep
  <1>a. /\ item \in [Ids -> Item \cup {NoItem}] /\ listed \subseteq Ids
        /\ pc \in [Actor -> Steps] /\ job \in [Handler -> Job]
        /\ \A id \in Ids : pc[id] \in TaskSteps
    BY DEF TypeInv, TypeOK, StepsOK
  <1> DEFINE Shrinks == \A o \in Owner : /\ ActiveIds(o)' \subseteq ActiveIds(o)
                                         /\ Admitted(o)' \subseteq Admitted(o)
  <1>b. Shrinks => OverrunBounded'
    BY <1>0, CapShrinks
  <1>c. \A q \in Owner : /\ ActiveIds(q) \in SUBSET Ids /\ ActiveIds(q)' \in SUBSET Ids
                         /\ Admitted(q) \in SUBSET Handler /\ Admitted(q)' \in SUBSET Handler
    BY <1>0 DEF TypeInv, TypeOK, ActiveIds, Admitted
  <1> USE ActorsAssumption DEF ActiveIds, Admitted
  <1>1. ASSUME NEW h \in Handler, NEW o \in Owner, Admit(h, o) PROVE OverrunBounded'
    <2> SUFFICES ASSUME Limit > 0, NEW q \in Owner
                 PROVE  Cardinality(ActiveIds(q)') + Cardinality(Admitted(q)')
                          < Limit + Cardinality(Handler)
      BY DEF OverrunBounded, ActiveCount
    <2>1. ActiveIds(q)' = ActiveIds(q)
      BY <1>1 DEF Admit, memory
    <2>2. CASE q = o
      <3>1. Cardinality(ActiveIds(q)) < Limit
        BY <1>1, <2>2 DEF Admit, WithinCap, ActiveCount
      <3>2. /\ Cardinality(Admitted(q)') \in Nat
            /\ Cardinality(Admitted(q)') <= Cardinality(Handler)
        BY <1>c, FiniteCounts
      <3> HIDE DEF ActiveIds, Admitted
      <3> QED BY <2>1, <3>1, <3>2, <1>c, FiniteCounts, LimitAssumption
    <2>3. CASE q # o
      <3>1. Admitted(q)' = Admitted(q)
        BY <1>1, <1>a, <2>3 DEF Admit, Job
      <3> QED BY <2>1, <3>1 DEF OverrunBounded, ActiveCount
    <2> QED BY <2>2, <2>3
  <1>2. ASSUME NEW h \in Handler, NEW u \in Url, AddItem(h, u) PROVE OverrunBounded'
    <2> SUFFICES ASSUME Limit > 0, NEW q \in Owner
                 PROVE  Cardinality(ActiveIds(q)') + Cardinality(Admitted(q)')
                          < Limit + Cardinality(Handler)
      BY DEF OverrunBounded, ActiveCount
    <2>1. Cardinality(ActiveIds(q)) + Cardinality(Admitted(q)) < Limit + Cardinality(Handler)
      BY DEF OverrunBounded, ActiveCount
    <2>2. /\ NewId \in Ids
          /\ listed' = listed \cup {NewId}
          /\ item'[NewId].owner = job[h].owner
          /\ \A id \in Ids : id # NewId => item'[id] = item[id]
      <3>1. NewId \in Ids
        BY <1>2, <1>a, BoundsAssumption DEF AddItem, NewId, TypeInv, TypeOK
      <3> QED BY <1>2, <1>a, <3>1 DEF AddItem
    <2>3. Admitted(q)' = Admitted(q) \ {h}
      BY <1>2, <1>a, <2>2 DEF AddItem
    <2>4. CASE q = job[h].owner
      <3>1. ActiveIds(q)' \subseteq ActiveIds(q) \cup {NewId}
        BY <2>2, <1>a
      <3>2. h \in Admitted(q)
        BY <1>2, <2>4 DEF AddItem
      <3> HIDE DEF ActiveIds, Admitted
      <3>a. /\ IsFiniteSet(Admitted(q)) /\ Cardinality(Admitted(q)) \in Nat
            /\ IsFiniteSet(ActiveIds(q)) /\ Cardinality(ActiveIds(q)) \in Nat
        BY <1>c, FiniteCounts
      <3>3. Cardinality(Admitted(q)') = Cardinality(Admitted(q)) - 1
        BY <2>3, <3>2, <3>a, FS_RemoveElement
      <3>4. /\ IsFiniteSet(ActiveIds(q) \cup {NewId})
            /\ Cardinality(ActiveIds(q) \cup {NewId}) \in Nat
            /\ Cardinality(ActiveIds(q) \cup {NewId}) <= Cardinality(ActiveIds(q)) + 1
        <4> DEFINE A == ActiveIds(q)
        <4>1. /\ IsFiniteSet(A \cup {NewId})
              /\ Cardinality(A \cup {NewId}) = IF NewId \in A THEN Cardinality(A) ELSE Cardinality(A) + 1
          <5> HIDE DEF A
          <5>1. IsFiniteSet(A)
            BY <3>a DEF A
          <5> QED BY <5>1, FS_AddElement
        <4> HIDE DEF A
        <4>2. Cardinality(A) \in Nat
          BY <3>a DEF A
        <4>3. /\ IsFiniteSet(A \cup {NewId}) /\ Cardinality(A \cup {NewId}) \in Nat
              /\ Cardinality(A \cup {NewId}) <= Cardinality(A) + 1
          BY <4>1, <4>2
        <4> QED BY <4>3 DEF A
      <3>5. /\ Cardinality(ActiveIds(q)') \in Nat
            /\ Cardinality(ActiveIds(q)') <= Cardinality(ActiveIds(q) \cup {NewId})
        BY <3>1, <3>4, <1>c, FiniteCounts, FS_Subset
      <3> QED BY <2>1, <3>3, <3>4, <3>5, <1>c, FiniteCounts, LimitAssumption
    <2>5. CASE q # job[h].owner
      <3>1. ActiveIds(q)' \subseteq ActiveIds(q)
        BY <2>2, <2>5, <1>a
      <3>2. Admitted(q)' \subseteq Admitted(q)
        BY <2>3
      <3> HIDE DEF ActiveIds, Admitted
      <3>3. /\ Cardinality(ActiveIds(q)') \in Nat /\ Cardinality(Admitted(q)') \in Nat
            /\ Cardinality(ActiveIds(q)') <= Cardinality(ActiveIds(q))
            /\ Cardinality(Admitted(q)') <= Cardinality(Admitted(q))
        BY <3>1, <3>2, <1>c, FiniteCounts, FS_Subset
      <3> QED BY <2>1, <3>3, <1>c, FiniteCounts, LimitAssumption
    <2> QED BY <2>4, <2>5
  <1>2a. ASSUME NEW h \in Handler, Reject(h) PROVE Shrinks
    BY <1>2a, <1>a DEF Reject, memory
  <1>3. ASSUME NEW id \in Ids, Resolve(id) \/ Request(id) \/ Body(id) PROVE Shrinks
    BY <1>3, <1>a DEF Resolve, Request, Body, memory
  <1>4. ASSUME NEW id \in Ids, Finish(id) \/ Fail(id) PROVE Shrinks
    <2>1. item[id] \in Item
      BY <1>4, <1>a DEF Finish, Fail, TypeInv, StepsOK
    <2>2. item'[id].phase # "downloading"
      <3>1. \E ph \in {"done", "error"} : item' = [item EXCEPT ![id] = [item[id] EXCEPT !.phase = ph]]
        BY <1>4 DEF Finish, Fail
      <3> QED BY <1>a, <2>1, <3>1 DEF Item
    <2>3. /\ \A k \in Ids : k # id => item'[k] = item[k]
          /\ UNCHANGED <<listed, job>>
          /\ \A h \in Handler : pc'[h] = pc[h]
      BY <1>4, <1>a DEF Finish, Fail
    <2> QED BY <1>a, <2>2, <2>3
  <1>5. ASSUME NEW h \in Handler, NEW op, NEW ids, NEW f, Start(h, op, ids, f) PROVE Shrinks
    BY <1>5, <1>a DEF Start, memory
  <1>6. ASSUME NEW h \in Handler, NEW id \in Ids, BatchRemove(h, id) PROVE Shrinks
    BY <1>6, <1>a DEF BatchRemove
  <1>7. ASSUME NEW h \in Handler, BatchEnd(h) \/ Unlink(h) \/ Rmdir(h) PROVE Shrinks
    BY <1>7, <1>a DEF BatchEnd, Unlink, Rmdir, memory
  <1>8. ASSUME NEW a \in Actor, Snapshot(a) \/ Truncate(a) \/ Write(a) \/ PersistFails(a)
        PROVE  Shrinks
    BY <1>8, <1>a DEF Snapshot, Truncate, Write, PersistFails, memory
  <1>9. CASE Restart
    <2>1. \A id \in listed' : item'[id].phase = "done"
      BY <1>9, <1>a, RestoredType DEF Restart, TypeInv
    <2>2. \A h \in Handler : pc'[h] = "idle"
      BY <1>9 DEF Restart
    <2> QED BY <1>b, <2>1, <2>2
  <1>10. CASE Tick \/ UNCHANGED vars
    <2>1. item' = item /\ listed' = listed /\ pc' = pc /\ job' = job
      BY <1>10 DEF Tick, vars, memory
    <2> QED BY <1>b, <2>1
  <1> HIDE DEF Shrinks, ActiveIds, Admitted
  <1>11. ASSUME AddNext PROVE OverrunBounded'
    BY <1>11, <1>1, <1>b, <1>2a, <1>2 DEF AddNext
  <1>12. ASSUME TaskNext PROVE Shrinks
    BY <1>12, <1>3, <1>4 DEF TaskNext
  <1>13. ASSUME DeleteNext PROVE Shrinks
    BY <1>13, <1>5, <1>6, <1>7 DEF DeleteNext, StartDelete, ClearCompleted, RemoveExpired
  <1>14. ASSUME PersistNext PROVE Shrinks
    BY <1>14, <1>8 DEF PersistNext
  <1> QED BY <1>b, <1>9, <1>10, <1>11, <1>12, <1>13, <1>14 DEF Next

(* With finitely many requests in flight, a user's active downloads exceed *)
(* the cap by fewer than there are requests.                               *)
THEOREM CapOverrun == ASSUME IsFiniteSet(Handler) PROVE Spec => []OverrunBounded
  <1>1. ASSUME Init PROVE OverrunBounded
    <2> SUFFICES ASSUME Limit > 0, NEW o \in Owner
                 PROVE  ActiveCount(o) + Cardinality(Admitted(o)) < Limit + Cardinality(Handler)
      BY DEF OverrunBounded
    <2>1. ActiveCount(o) = 0
      BY <1>1, FS_EmptySet DEF Init, ActiveCount
    <2>2. Cardinality(Admitted(o)) = 0
      <3>1. Admitted(o) = {}
        BY <1>1 DEF Init, Admitted
      <3> QED BY <3>1, FS_EmptySet
    <2> QED BY <2>1, <2>2, FS_CardinalityType, LimitAssumption
  <1> QED BY <1>1, TypeInit, TypeStep, CapStep, PTL DEF Spec

(* With one request at a time the cap is kept exactly: only requests that  *)
(* overlap between the check and the insertion pass it together.           *)
THEOREM AloneWithinLimit == ASSUME Cardinality(Handler) = 1, IsFiniteSet(Handler)
                            PROVE  Spec => []WithinLimit
  <1>1. ASSUME TypeInv, OverrunBounded PROVE WithinLimit
    <2> SUFFICES ASSUME Limit > 0, NEW o \in Owner PROVE ActiveCount(o) <= Limit
      BY DEF WithinLimit
    <2>1. /\ Cardinality(ActiveIds(o)) \in Nat /\ Cardinality(Admitted(o)) \in Nat
      BY <1>1, CountedSets, FiniteCounts
    <2>2. ActiveCount(o) = Cardinality(ActiveIds(o))
      BY DEF ActiveCount, ActiveIds
    <2>3. ActiveCount(o) + Cardinality(Admitted(o)) < Limit + 1
      BY <1>1 DEF OverrunBounded
    <2> QED BY <2>1, <2>2, <2>3, LimitAssumption
  <1> QED BY <1>1, CapOverrun, TypeInit, TypeStep, PTL DEF Spec

=============================================================================
