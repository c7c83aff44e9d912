---------------------------- MODULE AccountsProofs ----------------------------
(* The user store, for any number of names, invites, requests and restarts. *)
EXTENDS Accounts, FiniteSetTheorems, TLAPS

(* What a request in progress knows of the store. *)
SnapOK ==
    \A h \in Handler :
        /\ pc[h] \in {"truncate", "write"} => snap[h] \in Users
        /\ pc[h] \in {"truncateInvites", "writeInvites"} => snap[h] \in Invites

CodesKnown ==
    /\ \A c \in Code : invites[c] # NoInvite => registered[c] # NoInvite
    /\ \A h \in Handler : job[h].op = "register" =>
          job[h].code \in Code /\ registered[job[h].code] # NoInvite
    /\ \A h \in Handler : pc[h] = "consume" => job[h].op = "register"

Typed == TypeOK /\ SnapOK /\ CodesKnown

LEMMA Sentinels ==
    /\ NoUsers \in Users /\ NoInvites \in Invites
    /\ NewAdmin \in Account
    /\ NoJob \in Job /\ JobOf("edit") \in Job
BY NamesAssumption DEF NoUsers, NoInvites, NewAdmin, NoJob, JobOf, Job, Users, Invites, Account

LEMMA TypedInit == Init => Typed
<1> SUFFICES ASSUME Init PROVE Typed
  OBVIOUS
<1>1. users \in Users
  BY Sentinels, NamesAssumption DEF Init, Users
<1>2. TypeOK
  <2>1. setupCode \in BOOLEAN /\ usersFile \in Users \cup {Empty, Torn}
    BY <1>1 DEF Init
  <2>2. /\ invites \in Invites /\ registered \in Invites
        /\ invitesFile \in Invites \cup {Empty, Torn}
    BY Sentinels DEF Init
  <2>3. /\ pc \in [Handler -> Steps] /\ job \in [Handler -> Job]
        /\ snap \in [Handler -> Users \cup Invites \cup {NoSnap}]
    BY Sentinels DEF Init, Steps
  <2>4. faults \in 0 .. MaxFaults /\ restarts \in 0 .. MaxRestarts
    BY BoundsAssumption DEF Init
  <2> QED BY <1>1, <2>1, <2>2, <2>3, <2>4 DEF TypeOK
<1>3. SnapOK /\ CodesKnown
  BY DEF Init, SnapOK, CodesKnown, NoJob, JobOf, NoInvites
<1> QED BY <1>2, <1>3 DEF Typed

(* Accounts are added and changed within Users. *)
LEMMA ChangedUsers ==
    ASSUME Typed, NEW n \in Name, NEW a \in Account \cup {NoUser}
    PROVE  [users EXCEPT ![n] = a] \in Users
BY DEF Typed, TypeOK, Users

LEMMA TypedAdd ==
    ASSUME Typed, NEW h \in Handler, AddNext(h)
    PROVE  Typed'
<1> USE DEF Typed, TypeOK, SnapOK, CodesKnown, failures, memory, files, Steps
<1>1. ASSUME NEW n \in Name, NEW o \in {"setup", "create", "register"},
             NEW r \in {"admin", "user"}, NEW c \in Code \cup {NoInvite},
             Begin(h, o, n, r, c), o = "register" => UsesLeft(c) /\ c \in Code,
             UNCHANGED <<memory, files, snap, registered, failures>>
      PROVE  Typed'
  <2>1. [op |-> o, name |-> n, role |-> r, code |-> c] \in Job
    BY DEF Job
  <2> QED BY <1>1, <2>1 DEF Begin, UsesLeft
<1>2. ASSUME NEW n \in Name, Setup(h, n) PROVE Typed'
  BY <1>1, <1>2 DEF Setup
<1>3. ASSUME NEW n \in Name, NEW r \in {"admin", "user"}, Create(h, n, r) PROVE Typed'
  BY <1>1, <1>3 DEF Create
<1>4. ASSUME NEW n \in Name, NEW c \in Code, Register(h, n, c) PROVE Typed'
  BY <1>1, <1>4 DEF Register
<1>5. CASE Refuse(h)
  BY <1>5, Sentinels DEF Refuse, NoJob, JobOf
<1>6. CASE Insert(h)
  <2>1. job[h].name \in Name /\ [role |-> job[h].role, disabled |-> FALSE] \in Account
    BY DEF Job, Account
  <2>2. users' \in Users
    BY <1>6, <2>1, ChangedUsers DEF Insert
  <2>3. registered' \in Invites /\ \A c \in Code : registered[c] # NoInvite => registered'[c] # NoInvite
    BY <1>6, SentinelAssumption DEF Insert, Counted, Invites
  <2> QED BY <1>6, <2>2, <2>3 DEF Insert
<1>7. CASE CloseSetup(h)
  BY <1>7, Sentinels DEF CloseSetup, NoJob, JobOf
<1>8. CASE Consume(h)
  <2>1. invites' \in Invites /\ \A c \in Code : invites'[c] # NoInvite => invites[c] # NoInvite
    BY <1>8, SentinelAssumption DEF Consume, Invites
  <2> QED BY <1>8, <2>1 DEF Consume
<1> QED BY <1>2, <1>3, <1>4, <1>5, <1>6, <1>7, <1>8 DEF AddNext

LEMMA TypedChange ==
    ASSUME Typed, NEW h \in Handler, ChangeNext(h)
    PROVE  Typed'
<1>1. ASSUME NEW m \in Users, Change(h, m) PROVE Typed'
  BY <1>1, Sentinels
  DEF Change, Typed, TypeOK, SnapOK, CodesKnown, failures, files, Steps, NoJob, JobOf
<1>2. ASSUME NEW n \in Name, NEW b \in BOOLEAN, SetDisabled(h, n, b) PROVE Typed'
  <2>1. [role |-> users[n].role, disabled |-> b] \in Account
    BY <1>2 DEF SetDisabled, Typed, TypeOK, Users, Account
  <2>2. [users EXCEPT ![n] = [role |-> @.role, disabled |-> b]] \in Users
    BY <2>1, ChangedUsers
  <2> QED BY <1>1, <1>2, <2>2 DEF SetDisabled
<1>3. ASSUME NEW n \in Name, DeleteUser(h, n) PROVE Typed'
  BY <1>1, <1>3, ChangedUsers DEF DeleteUser
<1>4. ASSUME NEW n \in Name, Edit(h, n) PROVE Typed'
  BY <1>1, <1>4 DEF Edit, Typed, TypeOK
<1> QED BY <1>2, <1>3, <1>4 DEF ChangeNext

LEMMA TypedSave ==
    ASSUME Typed, NEW h \in Handler, SaveNext(h)
    PROVE  Typed'
<1> USE DEF Typed, TypeOK, SnapOK, CodesKnown, failures, memory, files, Steps
<1>1. CASE Snapshot(h)
  BY <1>1 DEF Snapshot
<1>2. CASE Truncate(h)
  BY <1>2 DEF Truncate
<1>3. CASE Write(h)
  <2>1. usersFile' \in Users \cup {Torn}
    BY <1>3 DEF Write, Overlay
  <2>2. After(h) \in {"idle", "close", "consume"} /\ (After(h) = "consume" => job[h].op = "register")
    BY DEF After
  <2>3. pc' \in [Handler -> Steps] /\ job' \in [Handler -> Job]
    BY <1>3, <2>2, Sentinels DEF Write
  <2>4. SnapOK'
    BY <1>3, <2>2 DEF Write
  <2>5. CodesKnown'
    BY <1>3, <2>2 DEF Write, NoJob, JobOf
  <2> QED BY <1>3, <2>1, <2>3, <2>4, <2>5 DEF Write
<1>4. CASE WriteFails(h)
  <2>1. usersFile' \in Users \cup {Empty, Torn} /\ faults' \in 0 .. MaxFaults
    BY <1>4, BoundsAssumption DEF WriteFails
  <2> QED BY <1>4, <2>1, Sentinels DEF WriteFails, NoJob, JobOf
<1> QED BY <1>1, <1>2, <1>3, <1>4 DEF SaveNext

LEMMA TypedInvite ==
    ASSUME Typed, NEW h \in Handler, InviteNext(h)
    PROVE  Typed'
<1> USE DEF Typed, TypeOK, SnapOK, CodesKnown, failures, memory, files, Steps
<1>1. ASSUME NEW c \in Code, CreateInvite(h, c) PROVE Typed'
  <2>1. invites' \in Invites /\ registered' \in Invites
    BY <1>1 DEF CreateInvite, ChangeInvite, Invites
  <2>2. CodesKnown'
    BY <1>1, SentinelAssumption DEF CreateInvite, ChangeInvite, Invites, NoJob, JobOf
  <2> QED BY <1>1, <2>1, <2>2, Sentinels DEF CreateInvite, ChangeInvite
<1>2. ASSUME NEW c \in Code, DeleteInvite(h, c) PROVE Typed'
  <2>1. invites' \in Invites
    BY <1>2 DEF DeleteInvite, ChangeInvite, Invites
  <2>2. CodesKnown'
    BY <1>2 DEF DeleteInvite, ChangeInvite, Invites, NoJob, JobOf
  <2> QED BY <1>2, <2>1, <2>2, Sentinels DEF DeleteInvite, ChangeInvite
<1>3. CASE SnapshotInvites(h)
  BY <1>3 DEF SnapshotInvites
<1>4. CASE TruncateInvites(h)
  BY <1>4 DEF TruncateInvites
<1>5. CASE WriteInvites(h)
  <2>1. invitesFile' \in Invites \cup {Torn} /\ faults' \in 0 .. MaxFaults
    BY <1>5, BoundsAssumption DEF WriteInvites, Overlay
  <2> QED BY <1>5, <2>1, Sentinels DEF WriteInvites, NoJob, JobOf
<1> QED BY <1>1, <1>2, <1>3, <1>4, <1>5 DEF InviteNext

LEMMA TypedRestart ==
    ASSUME Typed, Restart
    PROVE  Typed'
<1> USE DEF Typed, TypeOK
<1>1. LoadUsers \in Users /\ LoadInvites \in Invites
  BY Sentinels DEF Restart, LoadUsers, LoadInvites
<1>2. ASSUME NEW m \in Users PROVE EnsureAdmin(m) \in Users
  BY NamesAssumption DEF EnsureAdmin, Users, Account, NewAdmin
<1>3. /\ users' \in Users /\ setupCode' \in BOOLEAN
      /\ usersFile' \in Users \cup {Empty, Torn}
  BY <1>1, <1>2 DEF Restart, Load
<1>4. registered' \in Invites
  BY <1>1 DEF Restart, Invites
<1>5. SnapOK' /\ CodesKnown'
  BY <1>1 DEF Restart, SnapOK, CodesKnown, NoJob, JobOf, Invites
<1>6. restarts' \in 0 .. MaxRestarts
  BY BoundsAssumption DEF Restart
<1> QED BY <1>1, <1>3, <1>4, <1>5, <1>6, Sentinels DEF Restart, Steps

LEMMA TypedNext == Typed /\ [Next]_vars => Typed'
<1> SUFFICES ASSUME Typed, [Next]_vars PROVE Typed'
  OBVIOUS
<1>1. CASE UNCHANGED vars
  BY <1>1 DEF vars, memory, files, failures, Typed, TypeOK, SnapOK, CodesKnown
<1> QED BY <1>1, TypedAdd, TypedChange, TypedSave, TypedInvite, TypedRestart DEF Next

(* Every variable keeps its type, through failed writes and restarts. *)
THEOREM TypeCorrect == Spec => []TypeOK
<1>1. Typed => TypeOK
  BY DEF Typed
<1> QED BY <1>1, TypedInit, TypedNext, PTL DEF Spec

-----------------------------------------------------------------------------
(* The setup.  Before the first account, requests only wait to insert one, *)
(* and nobody takes the code away.                                         *)
Fresh ==
    NeedsSetup => setupCode = TRUE /\ \A h \in Handler : pc[h] \in {"idle", "insert"}

LEMMA LoadedUsers == ASSUME Typed, Restart PROVE LoadUsers \in Users
BY Sentinels DEF Typed, TypeOK, Restart, LoadUsers

LEMMA AdminEnsured ==
    ASSUME NEW m \in Users
    PROVE  /\ EnsureAdmin(m)[AdminName] \in Account
           /\ EnsureAdmin(m)[AdminName] # NoUser
           /\ EnsureAdmin(m)[AdminName].role = "admin"
<1> DEFINE a == IF m[AdminName] = NoUser THEN NewAdmin
               ELSE [role |-> "admin", disabled |-> m[AdminName].disabled]
<1>1. a \in Account /\ a.role = "admin"
  BY NamesAssumption DEF Users, Account, NewAdmin
<1>2. EnsureAdmin(m)[AdminName] = a
  BY NamesAssumption DEF EnsureAdmin, Users
<1> QED BY <1>1, <1>2, SentinelAssumption

LEMMA AdminIsThere ==
    ASSUME NEW m, NEW n \in Name, m[n] # NoUser
    PROVE  m # NoUsers
BY DEF NoUsers

(* A step of a request empties the store never, and changes no role. *)
LEMMA StoreKept ==
    ASSUME Typed, NEW h \in Handler,
           AddNext(h) \/ ChangeNext(h) \/ SaveNext(h) \/ InviteNext(h)
    PROVE  /\ NeedsSetup' => NeedsSetup
           /\ \A n \in Name : users[n] # NoUser /\ users'[n] # NoUser =>
                                 users'[n].role = users[n].role
<1> USE DEF Typed, TypeOK
<1>1. CASE Insert(h)
  <2>1. /\ job[h].name \in Name /\ [role |-> job[h].role, disabled |-> FALSE] \in Account
        /\ users[job[h].name] = NoUser
        /\ users' = [users EXCEPT ![job[h].name] = [role |-> job[h].role, disabled |-> FALSE]]
    BY <1>1 DEF Insert, Job, Account
  <2>2. users'[job[h].name] # NoUser
    BY <2>1, SentinelAssumption DEF Users
  <2> QED BY <2>1, <2>2, AdminIsThere DEF NeedsSetup, NoUsers, Users
<1>2. ASSUME NEW n \in Name, NEW b \in BOOLEAN, SetDisabled(h, n, b)
      PROVE  /\ ~NeedsSetup'
             /\ \A k \in Name : users[k] # NoUser => users'[k].role = users[k].role
  <2>1. /\ users[n] # NoUser /\ [role |-> users[n].role, disabled |-> b] \in Account
        /\ users' = [users EXCEPT ![n] = [role |-> users[n].role, disabled |-> b]]
    BY <1>2 DEF SetDisabled, Change, Users, Account
  <2>2. users'[n] # NoUser
    BY <2>1, SentinelAssumption DEF Users
  <2> QED BY <2>1, <2>2 DEF NeedsSetup, NoUsers, Users
<1>3. ASSUME NEW n \in Name, DeleteUser(h, n)
      PROVE  /\ ~NeedsSetup'
             /\ \A k \in Name : users'[k] # NoUser => users'[k].role = users[k].role
  <2>1. users' = [users EXCEPT ![n] = NoUser] /\ \E k \in Name \ {n} : users[k] # NoUser
    BY <1>3 DEF DeleteUser, Change, AdminsOf, Admins
  <2> QED BY <2>1 DEF NeedsSetup, NoUsers, Users
<1>4. ASSUME NEW n \in Name, Edit(h, n) PROVE UNCHANGED users
  BY <1>4 DEF Edit, Change
<1>5. CASE UNCHANGED users
  BY <1>5 DEF NeedsSetup
<1>6. ASSUME AddNext(h), ~Insert(h) PROVE UNCHANGED users
  BY <1>6 DEF AddNext, Setup, Create, Register, Refuse, CloseSetup, Consume, memory
<1>7. ASSUME SaveNext(h) \/ InviteNext(h) PROVE UNCHANGED users
  BY <1>7 DEF SaveNext, Snapshot, Truncate, Write, WriteFails, InviteNext, CreateInvite,
       DeleteInvite, ChangeInvite, SnapshotInvites, TruncateInvites, WriteInvites, memory
<1> QED BY <1>1, <1>2, <1>3, <1>4, <1>5, <1>6, <1>7 DEF ChangeNext

LEMMA FreshInit == Init => Fresh
<1> SUFFICES ASSUME Init, NeedsSetup PROVE setupCode = TRUE
  BY DEF Init, Fresh
<1>1. [NoUsers EXCEPT ![AdminName] = NewAdmin][AdminName] # NoUser
  BY NamesAssumption, SentinelAssumption, Sentinels DEF NoUsers
<1> QED BY <1>1, NamesAssumption DEF Init, NeedsSetup, NoUsers

LEMMA FreshNext ==
    ASSUME Typed, Fresh, [Next]_vars
    PROVE  Fresh'
<1> USE DEF Fresh
<1>1. CASE UNCHANGED vars
  BY <1>1 DEF vars, memory, NeedsSetup
<1>2. ASSUME NEW h \in Handler, AddNext(h) \/ ChangeNext(h) \/ SaveNext(h) \/ InviteNext(h)
      PROVE  Fresh'
  <2> SUFFICES ASSUME NeedsSetup', NeedsSetup, setupCode = TRUE,
                      \A g \in Handler : pc[g] \in {"idle", "insert"}
               PROVE  setupCode' = TRUE /\ \A g \in Handler : pc'[g] \in {"idle", "insert"}
    BY <1>2, StoreKept
  <2>1. Admins = {} /\ \A n \in Name : users[n] = NoUser
    BY DEF NeedsSetup, NoUsers, Admins, AdminsOf
  <2>2. pc \in [Handler -> Steps]
    BY DEF Typed, TypeOK
  <2>3. ~Insert(h)
    <3>1. SUFFICES ASSUME Insert(h) PROVE FALSE
      OBVIOUS
    <3>2. job[h].name \in Name /\ [role |-> job[h].role, disabled |-> FALSE] \in Account
      BY DEF Typed, TypeOK, Job, Account
    <3>3. users'[job[h].name] = [role |-> job[h].role, disabled |-> FALSE]
      BY <3>1, <3>2 DEF Insert, Typed, TypeOK, Users
    <3> QED BY <3>2, <3>3, SentinelAssumption DEF NeedsSetup, NoUsers
  <2>4. CASE AddNext(h)
    BY <2>2, <2>3, <2>4
    DEF AddNext, Setup, Create, Register, Begin, Refuse, CloseSetup, Consume, memory
  <2>5. CASE ChangeNext(h)
    BY <2>1, <2>5 DEF ChangeNext, SetDisabled, DeleteUser, Edit
  <2>6. CASE SaveNext(h)
    BY <2>6 DEF SaveNext, Snapshot, Truncate, Write, WriteFails
  <2>7. CASE InviteNext(h)
    BY <2>1, <2>7 DEF InviteNext, CreateInvite, DeleteInvite, ChangeInvite,
         SnapshotInvites, TruncateInvites, WriteInvites
  <2> QED BY <1>2, <2>4, <2>5, <2>6, <2>7
<1>3. CASE Restart
  <2>1. EnsureAdmin(LoadUsers) # NoUsers
    <3>1. EnsureAdmin(LoadUsers)[AdminName] # NoUser
      BY <1>3, LoadedUsers, AdminEnsured
    <3>2. NoUsers[AdminName] = NoUser
      BY NamesAssumption DEF NoUsers
    <3> QED BY <3>1, <3>2
  <2> QED BY <1>3, <2>1 DEF Restart, Load, NeedsSetup
<1> QED BY <1>1, <1>2, <1>3 DEF Next

(* A box without accounts can be set up. *)
THEOREM SetupStaysReachable == Spec => []SetupReachable
<1>1. Fresh => SetupReachable
  BY DEF Fresh, SetupReachable
<1> QED BY <1>1, TypedInit, TypedNext, FreshInit, FreshNext, PTL DEF Spec

(* While the program runs, no account is made over another. *)
THEOREM RolesAreKept == Spec => RoleKept
<1>1. ASSUME Typed, [Next]_vars
      PROVE  [restarts' = restarts =>
                \A n \in Name : users[n] # NoUser /\ users'[n] # NoUser =>
                                   users'[n].role = users[n].role]_vars
  <2>1. CASE Restart
    <3>1. restarts \in Nat /\ restarts' = restarts + 1
      BY <1>1, <2>1, BoundsAssumption DEF Restart, Typed, TypeOK
    <3> QED BY <3>1
  <2> QED BY <1>1, <2>1, StoreKept DEF Next
<1> QED BY <1>1, TypedInit, TypedNext, PTL DEF Spec, RoleKept

-----------------------------------------------------------------------------
(* The administrator.  Every map that can become the store has one: the    *)
(* map in memory, the maps being saved, and users.json.  An invite is the  *)
(* only way in without one, so there is none before the first account.     *)
HasAdmin(m) == AdminsOf(m) # {}

FileHasAdmin  == usersFile \in {Empty, Torn} \/ HasAdmin(usersFile)
SavesHaveAdmin ==
    \A h \in Handler : pc[h] \in {"truncate", "write"} => HasAdmin(snap[h])
OnlySetups ==
    /\ \A h \in Handler : job[h].op = "setup" => job[h].role = "admin"
    /\ NeedsSetup => /\ invites = NoInvites /\ LoadInvites = NoInvites
                     /\ \A h \in Handler : pc[h] = "insert" => job[h].op = "setup"

AdminInv == AdminRemains /\ FileHasAdmin /\ SavesHaveAdmin /\ OnlySetups

IInv == Typed /\ Fresh /\ AdminInv

LEMMA AdminInit == Init => AdminInv
<1> SUFFICES ASSUME Init PROVE AdminInv
  OBVIOUS
<1>1. \/ users = NoUsers /\ usersFile = Empty
      \/ HasAdmin(users) /\ usersFile = users
  <2>1. CASE users = [NoUsers EXCEPT ![AdminName] = NewAdmin] /\ usersFile = users
    <3>1. users[AdminName] = NewAdmin /\ NewAdmin # NoUser
      BY <2>1, NamesAssumption, SentinelAssumption, Sentinels DEF NoUsers
    <3>2. NewAdmin.role = "admin"
      BY DEF NewAdmin
    <3>3. AdminName \in AdminsOf(users)
      BY <3>1, <3>2, NamesAssumption DEF AdminsOf
    <3> QED BY <2>1, <3>3 DEF HasAdmin
  <2> QED BY <2>1 DEF Init
<1>2. AdminRemains /\ FileHasAdmin
  BY <1>1 DEF Init, AdminRemains, FileHasAdmin, Admins, HasAdmin
<1>3. SavesHaveAdmin /\ OnlySetups
  BY DEF Init, SavesHaveAdmin, OnlySetups, NoJob, JobOf, LoadInvites
<1> QED BY <1>2, <1>3 DEF AdminInv

LEMMA AdminAdd ==
    ASSUME IInv, NEW h \in Handler, AddNext(h)
    PROVE  AdminInv'
<1> USE DEF IInv, AdminInv, FileHasAdmin, SavesHaveAdmin, OnlySetups
<1>1. NeedsSetup' => NeedsSetup
  BY StoreKept
<1>2. pc \in [Handler -> Steps] /\ job \in [Handler -> Job]
  BY DEF Typed, TypeOK
<1>3. ASSUME NEW n \in Name, NEW o \in {"setup", "create", "register"},
             NEW r \in {"admin", "user"}, NEW c \in Code \cup {NoInvite},
             Begin(h, o, n, r, c), o = "setup" => r = "admin",
             NeedsSetup => o = "setup",
             UNCHANGED <<memory, files, snap>>
      PROVE  AdminInv'
  BY <1>2, <1>3 DEF Begin, memory, files, AdminRemains, Admins, NeedsSetup, LoadInvites
<1>4. ASSUME NEW n \in Name, Setup(h, n) PROVE AdminInv'
  BY <1>3, <1>4 DEF Setup
<1>5. ASSUME NEW n \in Name, NEW r \in {"admin", "user"}, Create(h, n, r) PROVE AdminInv'
  <2>1. ~NeedsSetup
    BY <1>5 DEF Create, NeedsSetup, NoUsers, Admins, AdminsOf
  <2> QED BY <1>3, <1>5, <2>1 DEF Create
<1>6. ASSUME NEW n \in Name, NEW c \in Code, Register(h, n, c) PROVE AdminInv'
  <2>1. ~NeedsSetup
    BY <1>6 DEF Register, UsesLeft, NoInvites
  <2> QED BY <1>3, <1>6, <2>1 DEF Register
<1>7. CASE Refuse(h)
  BY <1>2, <1>7 DEF Refuse, memory, files, NoJob, JobOf, AdminRemains, Admins, NeedsSetup, LoadInvites
<1>8. CASE Insert(h)
  <2> DEFINE n == job[h].name
             a == [role |-> job[h].role, disabled |-> FALSE]
  <2>1. n \in Name /\ a # NoUser /\ users[n] = NoUser
    <3>1. n \in Name /\ a \in Account
      BY <1>2 DEF Job, Account
    <3> QED BY <1>8, <3>1, SentinelAssumption DEF Insert
  <2>2. users' = [users EXCEPT ![n] = a] /\ users \in Users
    BY <1>8 DEF Insert, Typed, TypeOK
  <2>3. Admins' # {}
    <3>1. CASE NeedsSetup
      <4>1. a.role = "admin"
        BY <1>8, <3>1 DEF Insert
      <4>2. users'[n] = a
        BY <2>1, <2>2 DEF Users
      <4> QED BY <2>1, <4>1, <4>2 DEF Admins, AdminsOf
    <3>2. CASE ~NeedsSetup
      <4>1. PICK k \in Name : users[k] # NoUser /\ users[k].role = "admin"
        BY <3>2 DEF AdminRemains, NeedsSetup, Admins, AdminsOf
      <4>2. users'[k] = users[k]
        BY <2>1, <2>2, <4>1 DEF Users
      <4> QED BY <4>1, <4>2 DEF Admins, AdminsOf
    <3> QED BY <3>1, <3>2
  <2>4. ~NeedsSetup'
    BY <2>3 DEF NeedsSetup, NoUsers, Admins, AdminsOf
  <2> QED BY <1>2, <1>8, <2>3, <2>4 DEF Insert, files, AdminRemains
<1>9. CASE CloseSetup(h)
  BY <1>2, <1>9
  DEF CloseSetup, files, NoJob, JobOf, AdminRemains, Admins, NeedsSetup, LoadInvites
<1>10. CASE Consume(h)
  <2>1. ~NeedsSetup
    BY <1>10 DEF Consume, Fresh
  <2> QED BY <1>2, <1>10, <2>1
      DEF Consume, files, AdminRemains, Admins, NeedsSetup, LoadInvites
<1> QED BY <1>4, <1>5, <1>6, <1>7, <1>8, <1>9, <1>10 DEF AddNext

LEMMA AdminChange ==
    ASSUME IInv, NEW h \in Handler, ChangeNext(h)
    PROVE  AdminInv'
<1>1. ASSUME NEW m, Change(h, m), HasAdmin(m) PROVE AdminInv'
  <2>1. Admins' # {} /\ ~NeedsSetup'
    BY <1>1 DEF Change, HasAdmin, Admins, AdminsOf, NeedsSetup, NoUsers
  <2>2. pc \in [Handler -> Steps] /\ job \in [Handler -> Job]
    BY DEF IInv, Typed, TypeOK
  <2> QED BY <1>1, <2>1, <2>2
      DEF Change, IInv, AdminInv, FileHasAdmin, SavesHaveAdmin, OnlySetups, files, JobOf,
          AdminRemains
<1>2. users \in Users
  BY DEF IInv, Typed, TypeOK
<1>3. ASSUME NEW n \in Name, NEW b \in BOOLEAN, SetDisabled(h, n, b) PROVE AdminInv'
  <2> DEFINE m == [users EXCEPT ![n] = [role |-> @.role, disabled |-> b]]
  <2>1. PICK k \in Name : users[k] # NoUser /\ users[k].role = "admin"
    BY <1>3 DEF SetDisabled, Admins, AdminsOf
  <2>2. [role |-> users[n].role, disabled |-> b] \in Account
    BY <1>2, <1>3 DEF SetDisabled, Users, Account
  <2>3. m[k] # NoUser /\ m[k].role = "admin"
    BY <1>2, <2>1, <2>2, SentinelAssumption DEF Users
  <2>4. HasAdmin(m)
    BY <2>3 DEF HasAdmin, AdminsOf
  <2> QED BY <1>1, <1>3, <2>4 DEF SetDisabled
<1>4. ASSUME NEW n \in Name, DeleteUser(h, n) PROVE AdminInv'
  <2> DEFINE m == [users EXCEPT ![n] = NoUser]
  <2>1. PICK k \in Name : k # n /\ users[k] # NoUser /\ users[k].role = "admin"
    BY <1>4 DEF DeleteUser, Admins, AdminsOf
  <2>2. m[k] # NoUser /\ m[k].role = "admin"
    BY <1>2, <2>1 DEF Users
  <2>3. HasAdmin(m)
    BY <2>2 DEF HasAdmin, AdminsOf
  <2> QED BY <1>1, <1>4, <2>3 DEF DeleteUser
<1>5. ASSUME NEW n \in Name, Edit(h, n) PROVE AdminInv'
  <2>1. HasAdmin(users)
    BY <1>5 DEF Edit, IInv, AdminInv, AdminRemains, Admins, HasAdmin, NoUsers
  <2> QED BY <1>1, <1>5, <2>1 DEF Edit
<1> QED BY <1>3, <1>4, <1>5 DEF ChangeNext

LEMMA AdminSave ==
    ASSUME IInv, NEW h \in Handler, SaveNext(h) \/ InviteNext(h)
    PROVE  AdminInv'
<1> USE DEF IInv, AdminInv, FileHasAdmin, SavesHaveAdmin, OnlySetups
<1>1. pc \in [Handler -> Steps] /\ job \in [Handler -> Job]
  BY DEF Typed, TypeOK
<1>2. ~NeedsSetup
  BY DEF Fresh, SaveNext, Snapshot, Truncate, Write, WriteFails, InviteNext, CreateInvite,
         DeleteInvite, ChangeInvite, SnapshotInvites, TruncateInvites, WriteInvites,
         NeedsSetup, NoUsers, Admins, AdminsOf
<1>3. UNCHANGED users
  BY DEF SaveNext, Snapshot, Truncate, Write, WriteFails, InviteNext, CreateInvite,
         DeleteInvite, ChangeInvite, SnapshotInvites, TruncateInvites, WriteInvites, memory
<1>4. AdminRemains' /\ ~NeedsSetup'
  BY <1>2, <1>3 DEF AdminRemains, Admins, AdminsOf, NeedsSetup
<1>5. HasAdmin(users)
  BY <1>2 DEF AdminRemains, NeedsSetup, HasAdmin, Admins
<1>6. CASE Snapshot(h)
  <2>1. \A g \in Handler : pc'[g] \in {"truncate", "write"} => HasAdmin(snap'[g])
    BY <1>1, <1>5, <1>6 DEF Snapshot, Typed, TypeOK
  <2> QED BY <1>4, <1>6, <2>1 DEF Snapshot, files
<1>7. CASE Truncate(h)
  BY <1>1, <1>4, <1>7 DEF Truncate
<1>8. CASE Write(h)
  <2>1. usersFile' \in {snap[h], Torn} /\ HasAdmin(snap[h])
    BY <1>8 DEF Write, Overlay
  <2>2. After(h) \notin {"truncate", "write"}
    BY DEF After
  <2> QED BY <1>1, <1>4, <1>8, <2>1, <2>2 DEF Write, NoJob, JobOf
<1>9. CASE WriteFails(h)
  BY <1>1, <1>4, <1>9 DEF WriteFails, NoJob, JobOf
<1>10. CASE InviteNext(h)
  <2>1. UNCHANGED usersFile
    BY <1>10 DEF InviteNext, CreateInvite, DeleteInvite, ChangeInvite, SnapshotInvites,
         TruncateInvites, WriteInvites, files
  <2>2. \A g \in Handler : pc'[g] \in {"truncate", "write"} =>
           pc[g] = pc'[g] /\ snap'[g] = snap[g]
    BY <1>1, <1>10 DEF InviteNext, CreateInvite, DeleteInvite, ChangeInvite, SnapshotInvites,
         TruncateInvites, WriteInvites, Typed, TypeOK
  <2>3. \A g \in Handler : job'[g].op = "setup" => job'[g] = job[g]
    BY <1>1, <1>10 DEF InviteNext, CreateInvite, DeleteInvite, ChangeInvite, SnapshotInvites,
         TruncateInvites, WriteInvites, NoJob, JobOf
  <2> QED BY <1>4, <2>1, <2>2, <2>3
<1> QED BY <1>6, <1>7, <1>8, <1>9, <1>10 DEF SaveNext

LEMMA AdminRestart ==
    ASSUME ~BlankCrashes, IInv, Restart
    PROVE  AdminInv'
<1>1. LoadUsers = NoUsers \/ HasAdmin(LoadUsers)
  BY DEF IInv, AdminInv, FileHasAdmin, LoadUsers, Restart
<1>2. HasAdmin(EnsureAdmin(LoadUsers)) /\ EnsureAdmin(LoadUsers) # NoUsers
  <2>1. /\ EnsureAdmin(LoadUsers)[AdminName] # NoUser
        /\ EnsureAdmin(LoadUsers)[AdminName].role = "admin"
    BY LoadedUsers, AdminEnsured DEF IInv
  <2> QED BY <2>1, AdminIsThere, NamesAssumption DEF HasAdmin, AdminsOf
<1>3. users' \in {LoadUsers, EnsureAdmin(LoadUsers)} /\ usersFile' \in {usersFile, users'}
  BY DEF Restart, Load
<1>4. AdminRemains'
  BY <1>1, <1>2, <1>3 DEF AdminRemains, Admins, HasAdmin
<1>5. FileHasAdmin'
  <2>1. CASE usersFile' = usersFile
    BY <2>1 DEF FileHasAdmin, IInv, AdminInv
  <2>2. CASE usersFile' = users' /\ users' = EnsureAdmin(LoadUsers)
    BY <1>2, <2>2 DEF FileHasAdmin
  <2> QED BY <2>1, <2>2 DEF Restart, Load
<1>6. NeedsSetup' => LoadInvites = NoInvites
  <2>1. CASE usersFile = Empty
    BY <2>1 DEF Restart, IInv, AdminInv, OnlySetups
  <2>2. CASE usersFile # Empty
    <3>1. HasAdmin(usersFile) /\ LoadUsers = usersFile
      BY <2>2 DEF IInv, AdminInv, FileHasAdmin, LoadUsers, Restart
    <3>2. LoadUsers # NoUsers
      BY <3>1 DEF HasAdmin, AdminsOf, NoUsers
    <3> QED BY <1>2, <1>3, <3>2 DEF NeedsSetup
  <2> QED BY <2>1, <2>2
<1>7. SavesHaveAdmin' /\ OnlySetups'
  BY <1>6 DEF Restart, SavesHaveAdmin, OnlySetups, NoJob, JobOf, LoadInvites
<1> QED BY <1>4, <1>5, <1>7 DEF AdminInv

LEMMA IInvNext ==
    ASSUME ~BlankCrashes, IInv, [Next]_vars
    PROVE  IInv'
<1>1. Typed' /\ Fresh'
  BY TypedNext, FreshNext DEF IInv
<1>2. CASE UNCHANGED vars
  <2>1. AdminRemains' /\ FileHasAdmin' /\ OnlySetups'
    BY <1>2 DEF vars, memory, files, IInv, AdminInv, AdminRemains, Admins, NeedsSetup,
         FileHasAdmin, OnlySetups, LoadInvites
  <2>2. SavesHaveAdmin'
    BY <1>2 DEF vars, IInv, AdminInv, SavesHaveAdmin
  <2> QED BY <1>1, <2>1, <2>2 DEF IInv, AdminInv
<1> QED BY <1>1, <1>2, AdminAdd, AdminChange, AdminSave, AdminRestart DEF Next, IInv

(* Once the box has an account it has an administrator, whatever requests, *)
(* stale saves, failed writes and restarts do, unless a crash finds        *)
(* users.json blank.                                                       *)
THEOREM AdministratorRemains == ASSUME ~BlankCrashes PROVE Spec => []AdminRemains
<1>1. Init => IInv
  BY TypedInit, FreshInit, AdminInit DEF IInv
<1>2. IInv => AdminRemains
  BY DEF IInv, AdminInv
<1> QED BY <1>1, <1>2, IInvNext, PTL DEF Spec

(* The setup code does not come back once it is gone, whatever requests,   *)
(* failed writes and restarts do, unless a crash finds users.json blank:   *)
(* that is the only way a configured box opens its setup again.            *)
THEOREM SetupClosesForGood == ASSUME ~BlankCrashes PROVE Spec => SetupOnce
<1>1. Init => IInv
  BY TypedInit, FreshInit, AdminInit DEF IInv
<1>2. IInv /\ [Next]_vars => [~setupCode => ~setupCode']_vars
  <2> SUFFICES ASSUME IInv, Next, ~setupCode PROVE ~setupCode'
    OBVIOUS
  <2>1. ASSUME NEW h \in Handler, AddNext(h) \/ ChangeNext(h) \/ SaveNext(h) \/ InviteNext(h)
        PROVE  ~setupCode'
    BY <2>1 DEF AddNext, Setup, Create, Register, Refuse, Insert, CloseSetup, Consume,
         ChangeNext, SetDisabled, DeleteUser, Edit, Change, SaveNext, Snapshot, Truncate,
         Write, WriteFails, InviteNext, CreateInvite, DeleteInvite, ChangeInvite,
         SnapshotInvites, TruncateInvites, WriteInvites, memory
  <2>2. CASE Restart
    <3>1. ~NeedsSetup
      BY DEF IInv, Fresh
    <3>2. usersFile # Empty /\ usersFile # Torn
      BY <2>2, <3>1 DEF Restart
    <3>3. HasAdmin(usersFile) /\ LoadUsers = usersFile
      BY <3>2 DEF IInv, AdminInv, FileHasAdmin, LoadUsers
    <3>4. LoadUsers # NoUsers
      BY <3>3 DEF HasAdmin, AdminsOf, NoUsers
    <3> QED BY <2>2, <3>4 DEF Restart, Load
  <2> QED BY <2>1, <2>2 DEF Next
<1> QED BY <1>1, <1>2, IInvNext, PTL DEF Spec, SetupOnce

-----------------------------------------------------------------------------
(* The uses of an invite.  A step of a request is one of six to each       *)
(* invite: it lets a registration in, makes its account, counts the use,   *)
(* loses it to a failed save, creates the invite, or does none of these.   *)
Waiting(c) == {h \in Handler : /\ job[h].op = "register" /\ job[h].code = c
                               /\ pc[h] = "insert"}

SameSets(c)  == Uncounted(c)' = Uncounted(c) /\ Waiting(c)' = Waiting(c)
SameUses(c)  == registered'[c] = registered[c] /\ invites'[c] = invites[c]

LetIn(h, c) ==
    /\ UsesLeft(c) /\ SameUses(c) /\ faults' = faults
    /\ h \notin Uncounted(c) /\ h \notin Waiting(c)
    /\ Waiting(c)' = Waiting(c) \cup {h} /\ Uncounted(c)' = Uncounted(c)

Made(h, c) ==
    /\ h \in Waiting(c) /\ h \notin Uncounted(c)
    /\ Waiting(c)' = Waiting(c) \ {h} /\ Uncounted(c)' = Uncounted(c) \cup {h}
    /\ registered'[c] = registered[c] + 1 /\ registered[c] # NoInvite
    /\ invites'[c] = invites[c] /\ faults' = faults

CountedUse(h, c) ==
    /\ h \in Uncounted(c)
    /\ Waiting(c)' = Waiting(c) /\ Uncounted(c)' = Uncounted(c) \ {h}
    /\ registered'[c] = registered[c] /\ faults' = faults
    /\ invites'[c] = IF invites[c] = NoInvite THEN NoInvite ELSE invites[c] + 1

LostUse(h, c) ==
    /\ h \in Uncounted(c) /\ faults' = faults + 1
    /\ Waiting(c)' = Waiting(c) /\ Uncounted(c)' = Uncounted(c) \ {h}
    /\ SameUses(c)

Created(c) ==
    /\ registered[c] = NoInvite /\ registered'[c] = 0 /\ invites'[c] = 0
    /\ Uncounted(c)' = {} /\ Waiting(c)' = {} /\ faults' = faults

Quiet(c) ==
    /\ Uncounted(c)' = Uncounted(c) /\ Waiting(c)' \subseteq Waiting(c)
    /\ registered'[c] = registered[c] /\ invites'[c] \in {invites[c], NoInvite}
    /\ faults' \in {faults, faults + 1}

Effect(h, c) ==
    LetIn(h, c) \/ Made(h, c) \/ CountedUse(h, c) \/ LostUse(h, c) \/ Created(c) \/ Quiet(c)

LEMMA EffectAdd ==
    ASSUME Typed, NEW h \in Handler, AddNext(h), NEW c \in Code PROVE Effect(h, c)
<1>t. /\ pc \in [Handler -> Steps] /\ job \in [Handler -> Job]
      /\ invites \in Invites /\ registered \in Invites
  BY DEF Typed, TypeOK
<1>1. ASSUME NEW n \in Name, NEW o \in {"setup", "create"},
             NEW r \in {"admin", "user"}, Begin(h, o, n, r, NoInvite),
             UNCHANGED <<invites, registered, faults>>
      PROVE  Effect(h, c)
  <2>1. SameSets(c)
    BY <1>t, <1>1 DEF Begin, SameSets, Uncounted, Waiting
  <2> QED BY <1>1, <2>1 DEF Effect, Quiet, SameSets
<1>2. ASSUME NEW n \in Name, Setup(h, n) PROVE Effect(h, c)
  BY <1>1, <1>2 DEF Setup, memory, failures
<1>3. ASSUME NEW n \in Name, NEW r \in {"admin", "user"}, Create(h, n, r) PROVE Effect(h, c)
  BY <1>1, <1>3 DEF Create, memory, failures
<1>4. ASSUME NEW n \in Name, NEW d \in Code, Register(h, n, d) PROVE Effect(h, c)
  <2>1. /\ job' = [job EXCEPT ![h] = [op |-> "register", name |-> n, role |-> "user", code |-> d]]
        /\ pc[h] = "idle" /\ pc' = [pc EXCEPT ![h] = "insert"] /\ UsesLeft(d)
        /\ UNCHANGED <<invites, registered, faults>>
    BY <1>4 DEF Register, Begin, memory, failures
  <2>2. CASE c = d
    <3>1. /\ h \notin Uncounted(c) /\ h \notin Waiting(c)
          /\ Waiting(c)' = Waiting(c) \cup {h} /\ Uncounted(c)' = Uncounted(c)
      BY <1>t, <2>1, <2>2 DEF Uncounted, Waiting
    <3> QED BY <2>1, <2>2, <3>1 DEF Effect, LetIn, SameUses
  <2>3. CASE c # d
    <3>1. SameSets(c)
      BY <1>t, <2>1, <2>3 DEF SameSets, Uncounted, Waiting
    <3> QED BY <2>1, <3>1 DEF Effect, Quiet, SameSets
  <2> QED BY <2>2, <2>3
<1>5. CASE Refuse(h)
  <2>1. /\ pc[h] = "insert" /\ pc' = [pc EXCEPT ![h] = "idle"]
        /\ job' = [job EXCEPT ![h] = NoJob] /\ UNCHANGED <<invites, registered, faults>>
    BY <1>5 DEF Refuse, memory, failures
  <2>2. Uncounted(c)' = Uncounted(c) /\ Waiting(c)' \subseteq Waiting(c)
    BY <1>t, <2>1 DEF Uncounted, Waiting
  <2> QED BY <2>1, <2>2 DEF Effect, Quiet
<1>6. CASE Insert(h)
  <2>1. /\ pc[h] = "insert" /\ pc' = [pc EXCEPT ![h] = "save"] /\ registered' = Counted(h)
        /\ UNCHANGED <<invites, job, faults>>
    BY <1>6 DEF Insert, failures
  <2>2. CASE job[h].op = "register" /\ job[h].code = c
    <3>1. /\ h \in Waiting(c) /\ h \notin Uncounted(c)
          /\ Waiting(c)' = Waiting(c) \ {h} /\ Uncounted(c)' = Uncounted(c) \cup {h}
      BY <1>t, <2>1, <2>2 DEF Uncounted, Waiting
    <3>2. registered'[c] = registered[c] + 1 /\ registered[c] # NoInvite
      BY <1>t, <2>1, <2>2 DEF Counted, Typed, CodesKnown, Invites
    <3> QED BY <2>1, <3>1, <3>2 DEF Effect, Made
  <2>3. CASE ~(job[h].op = "register" /\ job[h].code = c)
    <3>1. SameSets(c)
      BY <1>t, <2>1, <2>3 DEF SameSets, Uncounted, Waiting
    <3>2. registered'[c] = registered[c]
      BY <1>t, <2>1, <2>3 DEF Counted, Invites
    <3> QED BY <2>1, <3>1, <3>2 DEF Effect, Quiet, SameSets
  <2> QED BY <2>2, <2>3
<1>7. CASE CloseSetup(h)
  <2>1. /\ pc[h] = "close" /\ pc' = [pc EXCEPT ![h] = "idle"]
        /\ job' = [job EXCEPT ![h] = NoJob] /\ UNCHANGED <<invites, registered, faults>>
    BY <1>7 DEF CloseSetup, failures
  <2>2. SameSets(c)
    BY <1>t, <2>1 DEF SameSets, Uncounted, Waiting
  <2> QED BY <2>1, <2>2 DEF Effect, Quiet, SameSets
<1>8. CASE Consume(h)
  <2>1. /\ pc[h] = "consume" /\ pc' = [pc EXCEPT ![h] = "saveInvites"]
        /\ invites' = [invites EXCEPT ![job[h].code] = IF @ = NoInvite THEN @ ELSE @ + 1]
        /\ UNCHANGED <<registered, job, faults>>
    BY <1>8 DEF Consume, failures
  <2>2. job[h].op = "register" /\ job[h].code \in Code
    BY <2>1 DEF Typed, CodesKnown
  <2>3. CASE job[h].code = c
    <3>1. /\ h \in Uncounted(c)
          /\ Waiting(c)' = Waiting(c) /\ Uncounted(c)' = Uncounted(c) \ {h}
      BY <1>t, <2>1, <2>2, <2>3 DEF Uncounted, Waiting
    <3>2. invites'[c] = IF invites[c] = NoInvite THEN NoInvite ELSE invites[c] + 1
      BY <1>t, <2>1, <2>3 DEF Invites
    <3> QED BY <2>1, <3>1, <3>2 DEF Effect, CountedUse
  <2>4. CASE job[h].code # c
    <3>1. SameSets(c)
      BY <1>t, <2>1, <2>4 DEF SameSets, Uncounted, Waiting
    <3>2. invites'[c] = invites[c]
      BY <1>t, <2>1, <2>4 DEF Invites
    <3> QED BY <2>1, <3>1, <3>2 DEF Effect, Quiet, SameSets
  <2> QED BY <2>3, <2>4
<1> QED BY <1>2, <1>3, <1>4, <1>5, <1>6, <1>7, <1>8 DEF AddNext

LEMMA EffectChange ==
    ASSUME Typed, NEW h \in Handler, ChangeNext(h), NEW c \in Code PROVE Effect(h, c)
<1>t. pc \in [Handler -> Steps] /\ job \in [Handler -> Job]
  BY DEF Typed, TypeOK
<1>1. /\ pc[h] = "idle" /\ pc' = [pc EXCEPT ![h] = "save"]
      /\ job' = [job EXCEPT ![h] = JobOf("edit")] /\ UNCHANGED <<invites, registered, faults>>
  BY DEF ChangeNext, SetDisabled, DeleteUser, Edit, Change, failures
<1>2. JobOf("edit").op = "edit"
  BY DEF JobOf
<1>3. SameSets(c)
  BY <1>t, <1>1, <1>2 DEF SameSets, Uncounted, Waiting
<1> QED BY <1>1, <1>3 DEF Effect, Quiet, SameSets

LEMMA EffectSave ==
    ASSUME Typed, NEW h \in Handler, SaveNext(h), NEW c \in Code PROVE Effect(h, c)
<1>t. pc \in [Handler -> Steps] /\ job \in [Handler -> Job]
  BY DEF Typed, TypeOK
<1>1. ASSUME NEW s \in {"truncate", "write"}, pc[h] = "save" \/ pc[h] = "truncate",
             pc' = [pc EXCEPT ![h] = s], UNCHANGED <<invites, registered, faults, job>>
      PROVE  Effect(h, c)
  <2>1. SameSets(c)
    BY <1>t, <1>1 DEF SameSets, Uncounted, Waiting
  <2> QED BY <1>1, <2>1 DEF Effect, Quiet, SameSets
<1>2. CASE Snapshot(h)
  BY <1>1, <1>2 DEF Snapshot, memory, failures
<1>3. CASE Truncate(h)
  BY <1>1, <1>3 DEF Truncate, memory, failures
<1>4. CASE Write(h)
  <2>1. /\ pc[h] = "write" /\ pc' = [pc EXCEPT ![h] = After(h)]
        /\ job' = [job EXCEPT ![h] = IF After(h) = "idle" THEN NoJob ELSE @]
        /\ UNCHANGED <<invites, registered, faults>>
    BY <1>4 DEF Write, memory, failures
  <2>2. CASE job[h].op = "register"
    <3>1. After(h) = "consume"
      BY <2>2 DEF After
    <3>2. pc' = [pc EXCEPT ![h] = "consume"] /\ job' = job
      BY <1>t, <2>1, <3>1
    <3>3. SameSets(c)
      BY <1>t, <2>1, <3>2 DEF SameSets, Uncounted, Waiting
    <3> QED BY <2>1, <3>3 DEF Effect, Quiet, SameSets
  <2>3. CASE job[h].op # "register"
    <3>1. After(h) \in {"close", "idle"}
      BY <2>3 DEF After
    <3>2. job'[h].op # "register"
      BY <1>t, <2>1, <2>3 DEF NoJob, JobOf
    <3>3. \A g \in Handler \ {h} : pc'[g] = pc[g] /\ job'[g] = job[g]
      BY <1>t, <2>1
    <3>4. SameSets(c)
      BY <2>3, <3>2, <3>3 DEF SameSets, Uncounted, Waiting
    <3> QED BY <2>1, <3>4 DEF Effect, Quiet, SameSets
  <2> QED BY <2>2, <2>3
<1>5. CASE WriteFails(h)
  <2>1. /\ pc[h] \in {"truncate", "write"} /\ pc' = [pc EXCEPT ![h] = "idle"]
        /\ job' = [job EXCEPT ![h] = NoJob] /\ faults' = faults + 1
        /\ UNCHANGED <<invites, registered>>
    BY <1>5 DEF WriteFails, memory
  <2>2. CASE job[h].op = "register" /\ job[h].code = c
    <3>1. /\ h \in Uncounted(c)
          /\ Waiting(c)' = Waiting(c) /\ Uncounted(c)' = Uncounted(c) \ {h}
      BY <1>t, <2>1, <2>2 DEF Uncounted, Waiting
    <3> QED BY <2>1, <3>1 DEF Effect, LostUse, SameUses
  <2>3. CASE ~(job[h].op = "register" /\ job[h].code = c)
    <3>1. SameSets(c)
      BY <1>t, <2>1, <2>3 DEF SameSets, Uncounted, Waiting
    <3> QED BY <2>1, <3>1 DEF Effect, Quiet, SameSets
  <2> QED BY <2>2, <2>3
<1> QED BY <1>2, <1>3, <1>4, <1>5 DEF SaveNext

LEMMA EffectInvite ==
    ASSUME Typed, NEW h \in Handler, InviteNext(h), NEW c \in Code PROVE Effect(h, c)
<1>t. /\ pc \in [Handler -> Steps] /\ job \in [Handler -> Job]
      /\ invites \in Invites /\ registered \in Invites
  BY DEF Typed, TypeOK
<1>e. JobOf("edit").op = "edit" /\ NoJob.op = "none"
  BY DEF JobOf, NoJob
<1>1. ASSUME NEW d \in Code, NEW uses, ChangeInvite(h, d, uses) PROVE SameSets(c)
  BY <1>t, <1>e, <1>1 DEF ChangeInvite, SameSets, Uncounted, Waiting
<1>2. ASSUME NEW d \in Code, CreateInvite(h, d) PROVE Effect(h, c)
  <2>1. /\ registered[d] = NoInvite /\ registered' = [registered EXCEPT ![d] = 0]
        /\ invites' = [invites EXCEPT ![d] = 0] /\ faults' = faults /\ SameSets(c)
    BY <1>1, <1>2 DEF CreateInvite, ChangeInvite, failures
  <2>2. CASE c = d
    <3>1. Uncounted(c) = {} /\ Waiting(c) = {}
      BY <2>1, <2>2 DEF Uncounted, Waiting, Typed, CodesKnown
    <3> QED BY <1>t, <2>1, <2>2, <3>1 DEF Effect, Created, SameSets, Invites
  <2>3. CASE c # d
    BY <1>t, <2>1, <2>3 DEF Effect, Quiet, SameSets, Invites
  <2> QED BY <2>2, <2>3
<1>3. ASSUME NEW d \in Code, DeleteInvite(h, d) PROVE Effect(h, c)
  <2>1. /\ invites' = [invites EXCEPT ![d] = NoInvite] /\ SameSets(c)
        /\ UNCHANGED <<registered, faults>>
    BY <1>1, <1>3 DEF DeleteInvite, ChangeInvite, failures
  <2>2. invites'[c] \in {invites[c], NoInvite}
    BY <1>t, <2>1 DEF Invites
  <2> QED BY <2>1, <2>2 DEF Effect, Quiet, SameSets
<1>4. ASSUME NEW s \in {"truncateInvites", "writeInvites", "idle"},
             pc[h] \in {"saveInvites", "truncateInvites", "writeInvites"},
             pc' = [pc EXCEPT ![h] = s],
             job' = job \/ job' = [job EXCEPT ![h] = NoJob],
             UNCHANGED <<invites, registered>>, faults' \in {faults, faults + 1}
      PROVE  Effect(h, c)
  <2>1. SameSets(c)
    BY <1>t, <1>e, <1>4 DEF SameSets, Uncounted, Waiting
  <2> QED BY <1>4, <2>1 DEF Effect, Quiet, SameSets
<1>5. CASE SnapshotInvites(h)
  BY <1>4, <1>5 DEF SnapshotInvites, memory, failures
<1>6. CASE TruncateInvites(h)
  BY <1>4, <1>6 DEF TruncateInvites, memory, failures
<1>7. CASE WriteInvites(h)
  BY <1>4, <1>7 DEF WriteInvites, memory
<1> QED BY <1>2, <1>3, <1>5, <1>6, <1>7 DEF InviteNext

LEMMA EffectStep ==
    ASSUME Typed, NEW h \in Handler,
           AddNext(h) \/ ChangeNext(h) \/ SaveNext(h) \/ InviteNext(h)
    PROVE  \A c \in Code : Effect(h, c)
BY EffectAdd, EffectChange, EffectSave, EffectInvite

LEMMA Sizes ==
    ASSUME NEW S, NEW T, NEW h \in Handler, S \subseteq Handler, T \subseteq Handler
    PROVE  /\ Cardinality(Handler) \in Nat /\ Cardinality(S) \in Nat /\ Cardinality(T) \in Nat
           /\ T \subseteq S => Cardinality(T) <= Cardinality(S)
           /\ T = S \cup {h} /\ h \notin S => Cardinality(T) = Cardinality(S) + 1
           /\ T = S \ {h} /\ h \in S => Cardinality(T) = Cardinality(S) - 1
<1>1. IsFiniteSet(S) /\ IsFiniteSet(T)
  BY FiniteAssumption, FS_Subset
<1>2. Cardinality(Handler) \in Nat /\ Cardinality(S) \in Nat /\ Cardinality(T) \in Nat
  BY <1>1, FiniteAssumption, FS_CardinalityType
<1>3. T \subseteq S => Cardinality(T) <= Cardinality(S)
  BY <1>1, FS_Subset
<1>4. h \notin S => Cardinality(S \cup {h}) = Cardinality(S) + 1
  BY <1>1, FS_AddElement
<1>5. h \in S => Cardinality(S \ {h}) = Cardinality(S) - 1
  BY <1>1, FS_RemoveElement
<1> QED BY <1>2, <1>3, <1>4, <1>5

(* Two parts of the requests that leave one out.                           *)
LEMMA Apart ==
    ASSUME NEW S, NEW T, NEW h \in Handler, S \subseteq Handler \ {h}, T \subseteq Handler \ {h},
           S \cap T = {}
    PROVE  Cardinality(S) + Cardinality(T) < Cardinality(Handler)
<1>1. IsFiniteSet(S) /\ IsFiniteSet(T)
  BY FiniteAssumption, FS_Subset
<1>2. Cardinality(S \cup T) = Cardinality(S) + Cardinality(T) - Cardinality({})
  BY <1>1, FS_Union
<1>3. Cardinality({}) = 0
  BY FS_EmptySet
<1>4. Cardinality(Handler \ {h}) = Cardinality(Handler) - 1
  BY FiniteAssumption, FS_RemoveElement
<1>5. Cardinality(S \cup T) <= Cardinality(Handler \ {h})
  BY FiniteAssumption, FS_RemoveElement, FS_Subset
<1>6. Cardinality(S) \in Nat /\ Cardinality(T) \in Nat /\ Cardinality(Handler) \in Nat
  BY <1>1, FiniteAssumption, FS_CardinalityType
<1> QED BY <1>2, <1>3, <1>4, <1>5, <1>6

LEMMA UsesNumbers ==
    ASSUME Typed, NEW c \in Code
    PROVE  /\ faults \in Nat
           /\ Uncounted(c) \subseteq Handler /\ Waiting(c) \subseteq Handler
           /\ Cardinality(Uncounted(c)) \in Nat /\ Cardinality(Waiting(c)) \in Nat
           /\ Cardinality(Handler) \in Nat
           /\ registered[c] # NoInvite => registered[c] \in Nat
           /\ invites[c] # NoInvite => invites[c] \in Nat /\ registered[c] \in Nat
<1>1. Uncounted(c) \subseteq Handler /\ Waiting(c) \subseteq Handler
  BY DEF Uncounted, Waiting
<1>2. /\ Cardinality(Uncounted(c)) \in Nat /\ Cardinality(Waiting(c)) \in Nat
      /\ Cardinality(Handler) \in Nat
  BY <1>1, FiniteAssumption, FS_Subset, FS_CardinalityType
<1> QED BY <1>1, <1>2, BoundsAssumption DEF Typed, TypeOK, CodesKnown, Invites

Counts(c) ==
    invites[c] # NoInvite =>
        /\ registered[c] - invites[c] - Cardinality(Uncounted(c)) >= 0
        /\ registered[c] - invites[c] - Cardinality(Uncounted(c)) <= faults

LEMMA CountsMean == Typed => (UsesCounted <=> \A c \in Code : Counts(c))
<1> SUFFICES ASSUME Typed, NEW c \in Code
             PROVE  (invites[c] # NoInvite =>
                        registered[c] - invites[c] - Cardinality(Uncounted(c)) \in 0 .. faults)
                    <=> Counts(c)
  BY DEF UsesCounted
<1> QED BY UsesNumbers DEF Counts

LEMMA CountsKept ==
    ASSUME Typed, Typed', NEW h \in Handler, NEW c \in Code, Effect(h, c), Counts(c)
    PROVE  Counts(c)'
<1> SUFFICES ASSUME invites'[c] # NoInvite
             PROVE  /\ registered'[c] - invites'[c] - Cardinality(Uncounted(c)') >= 0
                    /\ registered'[c] - invites'[c] - Cardinality(Uncounted(c)') <= faults'
  BY DEF Counts
<1>1. /\ faults \in Nat /\ Cardinality(Uncounted(c)) \in Nat
      /\ Uncounted(c) \subseteq Handler
      /\ invites[c] # NoInvite => invites[c] \in Nat /\ registered[c] \in Nat
  BY UsesNumbers
<1>2. Uncounted(c)' \subseteq Handler
  BY DEF Uncounted
<1>3. CASE LetIn(h, c)
  BY <1>1, <1>3 DEF LetIn, SameUses, Counts
<1>4. CASE Made(h, c)
  <2>1. Cardinality(Uncounted(c)') = Cardinality(Uncounted(c)) + 1
    BY <1>1, <1>2, <1>4, Sizes DEF Made
  <2> QED BY <1>1, <1>4, <2>1 DEF Made, Counts
<1>5. CASE CountedUse(h, c)
  <2>1. Cardinality(Uncounted(c)') = Cardinality(Uncounted(c)) - 1
    BY <1>1, <1>2, <1>5, Sizes DEF CountedUse
  <2> QED BY <1>1, <1>5, <2>1 DEF CountedUse, Counts
<1>6. CASE LostUse(h, c)
  <2>1. Cardinality(Uncounted(c)') = Cardinality(Uncounted(c)) - 1
    BY <1>1, <1>2, <1>6, Sizes DEF LostUse
  <2> QED BY <1>1, <1>6, <2>1 DEF LostUse, SameUses, Counts
<1>7. CASE Created(c)
  <2>1. Cardinality(Uncounted(c)') = 0
    BY <1>7, FS_EmptySet DEF Created
  <2> QED BY <1>1, <1>7, <2>1 DEF Created
<1>8. CASE Quiet(c)
  BY <1>1, <1>8 DEF Quiet, Counts
<1> QED BY <1>3, <1>4, <1>5, <1>6, <1>7, <1>8 DEF Effect

LEMMA UsesInit == Init => UsesCounted
BY DEF Init, UsesCounted, NoInvites

LEMMA UsesStep == ASSUME Typed, UsesCounted, [Next]_vars PROVE UsesCounted'
<1>t. Typed'
  BY TypedNext
<1>1. ASSUME NEW h \in Handler, AddNext(h) \/ ChangeNext(h) \/ SaveNext(h) \/ InviteNext(h)
      PROVE  UsesCounted'
  <2>1. \A c \in Code : Counts(c)
    BY CountsMean
  <2>2. \A c \in Code : Counts(c)'
    BY <1>t, <1>1, <2>1, EffectStep, CountsKept
  <2>3. Typed' => (UsesCounted' <=> (\A c \in Code : Counts(c))')
    BY CountsMean, PTL
  <2> QED BY <1>t, <2>2, <2>3
<1>2. CASE Restart
  <2> SUFFICES ASSUME NEW c \in Code, invites'[c] # NoInvite
               PROVE  registered'[c] - invites'[c] - Cardinality(Uncounted(c)') \in 0 .. faults'
    BY DEF UsesCounted
  <2>1. registered'[c] = invites'[c] /\ faults' = faults
    BY <1>2 DEF Restart
  <2>2. Uncounted(c)' = {}
    BY <1>2 DEF Restart, Uncounted, NoJob, JobOf
  <2>3. Cardinality(Uncounted(c)') = 0
    BY <2>2, FS_EmptySet
  <2>4. invites'[c] \in Nat /\ faults' \in Nat
    BY <1>t, BoundsAssumption DEF Typed, TypeOK, Invites
  <2> QED BY <2>1, <2>3, <2>4
<1>3. CASE UNCHANGED vars
  BY <1>3 DEF vars, memory, failures, UsesCounted, Uncounted
<1> QED BY <1>1, <1>2, <1>3 DEF Next

(* Every account made through an invite is counted on it once, or its      *)
(* request is about to count it, or its save failed (register).            *)
THEOREM UsesAreCounted == Spec => []UsesCounted
<1> QED BY TypedInit, TypedNext, UsesInit, UsesStep, PTL DEF Spec

-----------------------------------------------------------------------------
(* The bound on the uses.  It counts the registrations that were let in,   *)
(* and holds for every map of invites that a restart may find.             *)
Bound == MaxUses + Cardinality(Handler) + faults

RoomLeft(c)  == registered[c] # NoInvite => registered[c] + Cardinality(Waiting(c)) < Bound
Below(m, b)  == \A c \in Code : m[c] # NoInvite => m[c] < b
ImagesBelow  == /\ invitesFile \in Invites => Below(invitesFile, Bound)
                /\ \A h \in Handler : pc[h] \in {"truncateInvites", "writeInvites"} =>
                                          Below(snap[h], Bound)
OveruseInv   == MaxUses # 0 => (\A c \in Code : RoomLeft(c)) /\ ImagesBelow

LEMMA RoomKept ==
    ASSUME Typed, Typed', NEW h \in Handler, NEW c \in Code, Effect(h, c), Counts(c),
           RoomLeft(c), MaxUses # 0
    PROVE  RoomLeft(c)'
<1> SUFFICES ASSUME registered'[c] # NoInvite
             PROVE  registered'[c] + Cardinality(Waiting(c)')
                      < MaxUses + Cardinality(Handler) + faults'
  BY DEF RoomLeft, Bound
<1>1. /\ faults \in Nat /\ Cardinality(Waiting(c)) \in Nat /\ Cardinality(Uncounted(c)) \in Nat
      /\ Cardinality(Handler) \in Nat /\ MaxUses \in Nat \ {0}
      /\ Uncounted(c) \subseteq Handler /\ Waiting(c) \subseteq Handler
      /\ registered[c] # NoInvite => registered[c] \in Nat
      /\ invites[c] # NoInvite => invites[c] \in Nat /\ registered[c] \in Nat
  BY UsesNumbers, BoundsAssumption
<1>2. Waiting(c)' \subseteq Handler
  BY DEF Waiting
<1>3. registered[c] # NoInvite =>
         registered[c] + Cardinality(Waiting(c)) < MaxUses + Cardinality(Handler) + faults
  BY DEF RoomLeft, Bound
<1>4. CASE LetIn(h, c)
  <2>1. Cardinality(Waiting(c)') = Cardinality(Waiting(c)) + 1
    BY <1>1, <1>2, <1>4, Sizes DEF LetIn
  <2>2. Uncounted(c) \cap Waiting(c) = {}
    BY DEF Uncounted, Waiting
  <2>3. Cardinality(Uncounted(c)) + Cardinality(Waiting(c)) < Cardinality(Handler)
    BY <1>1, <1>4, <2>2, Apart DEF LetIn
  <2>4. /\ invites[c] # NoInvite /\ invites[c] < MaxUses
        /\ registered'[c] = registered[c] /\ faults' = faults
    BY <1>4 DEF LetIn, UsesLeft, SameUses
  <2> QED BY <1>1, <2>1, <2>3, <2>4 DEF Counts
<1>5. CASE Made(h, c)
  <2>1. Cardinality(Waiting(c)') = Cardinality(Waiting(c)) - 1
    BY <1>1, <1>2, <1>5, Sizes DEF Made
  <2> QED BY <1>1, <1>3, <1>5, <2>1 DEF Made
<1>6. CASE CountedUse(h, c)
  BY <1>1, <1>3, <1>6 DEF CountedUse
<1>7. CASE LostUse(h, c)
  BY <1>1, <1>3, <1>7 DEF LostUse, SameUses
<1>8. CASE Created(c)
  <2>1. Cardinality(Waiting(c)') = 0
    BY <1>8, FS_EmptySet DEF Created
  <2> QED BY <1>1, <1>8, <2>1 DEF Created
<1>9. CASE Quiet(c)
  <2>1. Cardinality(Waiting(c)') \in Nat /\ Cardinality(Waiting(c)') <= Cardinality(Waiting(c))
    BY <1>1, <1>2, <1>9, Sizes DEF Quiet
  <2> QED BY <1>1, <1>3, <1>9, <2>1 DEF Quiet
<1> QED BY <1>4, <1>5, <1>6, <1>7, <1>8, <1>9 DEF Effect

LEMMA Bounds ==
    ASSUME Typed PROVE Bound \in Nat /\ Bound >= MaxUses
<1>1. Cardinality(Handler) \in Nat
  BY FiniteAssumption, FS_CardinalityType
<1> QED BY <1>1, BoundsAssumption DEF Bound, Typed, TypeOK

(* A map of invites stays below a bound that grows.                        *)
LEMMA BelowKept ==
    ASSUME NEW m \in Invites, NEW b \in Nat, NEW d \in Nat, b <= d, Below(m, b)
    PROVE  Below(m, d)
<1> SUFFICES ASSUME NEW c \in Code, m[c] # NoInvite PROVE m[c] < d
  BY DEF Below
<1>1. m[c] \in Nat /\ m[c] < b
  BY DEF Below, Invites
<1> QED BY <1>1

LEMMA MemoryBelow ==
    ASSUME Typed, UsesCounted, MaxUses # 0, \A c \in Code : RoomLeft(c)
    PROVE  Below(invites, Bound)
<1> SUFFICES ASSUME NEW c \in Code, invites[c] # NoInvite PROVE invites[c] < Bound
  BY DEF Below
<1>1. /\ Cardinality(Uncounted(c)) \in Nat /\ Cardinality(Waiting(c)) \in Nat
      /\ invites[c] \in Nat /\ registered[c] \in Nat /\ registered[c] # NoInvite
  BY UsesNumbers, SentinelAssumption
<1>2. registered[c] - invites[c] - Cardinality(Uncounted(c)) >= 0
  BY CountsMean DEF Counts
<1>3. registered[c] + Cardinality(Waiting(c)) < Bound
  BY <1>1 DEF RoomLeft
<1>4. Bound \in Nat
  BY Bounds
<1> QED BY <1>1, <1>2, <1>3, <1>4

(* What may be written, or become invites.json, stays below the bound.     *)
LEMMA ImagesKept ==
    ASSUME Typed, Typed', UsesCounted, MaxUses # 0, \A c \in Code : RoomLeft(c), ImagesBelow,
           NEW h \in Handler, AddNext(h) \/ ChangeNext(h) \/ SaveNext(h) \/ InviteNext(h)
    PROVE  ImagesBelow'
<1>1. Bound \in Nat /\ Bound' \in Nat /\ Bound <= Bound'
  <2>1. faults \in Nat /\ faults' \in {faults, faults + 1} /\ MaxUses \in Nat
    BY BoundsAssumption
    DEF Typed, TypeOK, AddNext, Setup, Create, Register, Refuse, Insert, CloseSetup, Consume,
        ChangeNext, SetDisabled, DeleteUser, Edit, Change, SaveNext, Snapshot, Truncate, Write,
        WriteFails, InviteNext, CreateInvite, DeleteInvite, ChangeInvite, SnapshotInvites,
        TruncateInvites, WriteInvites, failures
  <2>2. Cardinality(Handler) \in Nat
    BY FiniteAssumption, FS_CardinalityType
  <2> QED BY <2>1, <2>2 DEF Bound
<1>t. /\ pc \in [Handler -> Steps] /\ invites \in Invites
      /\ snap \in [Handler -> Users \cup Invites \cup {NoSnap}]
      /\ \A g \in Handler : pc[g] \in {"truncateInvites", "writeInvites"} => snap[g] \in Invites
  BY DEF Typed, TypeOK, SnapOK
<1>2. invitesFile' # invitesFile =>
         \/ pc[h] = "writeInvites" /\ invitesFile' \in {snap[h], Torn}
         \/ invitesFile' = Empty
  BY DEF AddNext, Setup, Create, Register, Refuse, Insert, CloseSetup, Consume, ChangeNext,
         SetDisabled, DeleteUser, Edit, Change, SaveNext, Snapshot, Truncate, Write, WriteFails,
         InviteNext, CreateInvite, DeleteInvite, ChangeInvite, SnapshotInvites, TruncateInvites,
         WriteInvites, Overlay, files
<1>3. ASSUME invitesFile' \in Invites PROVE Below(invitesFile', Bound')
  <2>1. Empty \notin Invites /\ Torn \notin Invites
    BY SentinelAssumption
  <2>2. Below(invitesFile', Bound)
    <3>1. CASE invitesFile' = invitesFile
      BY <1>3, <3>1 DEF ImagesBelow
    <3>2. CASE invitesFile' # invitesFile
      BY <1>2, <1>3, <2>1, <3>2 DEF ImagesBelow
    <3> QED BY <3>1, <3>2
  <2> QED BY <1>1, <1>3, <2>2, BelowKept
<1>4. ASSUME NEW g \in Handler, pc'[g] \in {"truncateInvites", "writeInvites"}
      PROVE  Below(snap'[g], Bound')
  <2>1. \/ snap'[g] = snap[g] /\ pc[g] \in {"truncateInvites", "writeInvites"}
        \/ snap'[g] = invites
    <3>1. CASE AddNext(h)
      BY <1>t, <1>4, <3>1 DEF AddNext, Setup, Create, Register, Begin, Refuse, Insert, CloseSetup,
           Consume
    <3>2. CASE ChangeNext(h)
      BY <1>t, <1>4, <3>2 DEF ChangeNext, SetDisabled, DeleteUser, Edit, Change
    <3>3. CASE SaveNext(h)
      BY <1>t, <1>4, <3>3 DEF SaveNext, Snapshot, Truncate, Write, WriteFails, After
    <3>4. CASE InviteNext(h)
      BY <1>t, <1>4, <3>4 DEF InviteNext, CreateInvite, DeleteInvite, ChangeInvite,
           SnapshotInvites, TruncateInvites, WriteInvites
    <3> QED BY <3>1, <3>2, <3>3, <3>4
  <2>2. CASE snap'[g] = invites
    BY <1>1, <1>t, <2>2, MemoryBelow, BelowKept
  <2>3. CASE snap'[g] = snap[g] /\ pc[g] \in {"truncateInvites", "writeInvites"}
    <3>1. snap[g] \in Invites /\ Below(snap[g], Bound)
      BY <1>t, <2>3 DEF ImagesBelow
    <3> QED BY <1>1, <2>3, <3>1, BelowKept
  <2> QED BY <2>1, <2>2, <2>3
<1> QED BY <1>3, <1>4 DEF ImagesBelow

LEMMA OveruseInit == Init => OveruseInv
BY SentinelAssumption DEF Init, OveruseInv, RoomLeft, ImagesBelow, Below, NoInvites

LEMMA OveruseStep ==
    ASSUME Typed, UsesCounted, OveruseInv, [Next]_vars PROVE OveruseInv'
<1> SUFFICES ASSUME MaxUses # 0 PROVE (\A c \in Code : RoomLeft(c)') /\ ImagesBelow'
  BY DEF OveruseInv
<1>t. Typed'
  BY TypedNext
<1>0. (\A c \in Code : RoomLeft(c)) /\ ImagesBelow
  BY DEF OveruseInv
<1>1. ASSUME NEW h \in Handler, AddNext(h) \/ ChangeNext(h) \/ SaveNext(h) \/ InviteNext(h)
      PROVE  (\A c \in Code : RoomLeft(c)') /\ ImagesBelow'
  <2>1. \A c \in Code : Counts(c)
    BY CountsMean
  <2>2. \A c \in Code : RoomLeft(c)'
    BY <1>t, <1>0, <1>1, <2>1, EffectStep, RoomKept
  <2> QED BY <1>t, <1>0, <1>1, <2>2, ImagesKept
<1>2. CASE Restart
  <2>1. Bound' = Bound /\ Bound \in Nat /\ Bound >= MaxUses /\ MaxUses \in Nat
    BY <1>2, Bounds, BoundsAssumption DEF Restart, Bound
  <2>2. invites' \in Invites /\ Below(invites', Bound)
    <3>1. CASE invitesFile \in {Empty, Torn}
      BY <1>2, <3>1, Sentinels DEF Restart, LoadInvites, NoInvites, Below
    <3>2. CASE invitesFile \in Invites
      BY <1>0, <1>2, <3>2, SentinelAssumption DEF Restart, LoadInvites, ImagesBelow
    <3> QED BY <3>1, <3>2 DEF Typed, TypeOK
  <2>3. ASSUME NEW c \in Code, registered'[c] # NoInvite
        PROVE  registered'[c] + Cardinality(Waiting(c)') < Bound'
    <3>1. Waiting(c)' = {}
      BY <1>2 DEF Restart, Waiting, NoJob, JobOf
    <3>2. Cardinality(Waiting(c)') = 0
      BY <3>1, FS_EmptySet
    <3>3. CASE invites'[c] # NoInvite
      <4>1. registered'[c] = invites'[c] /\ invites'[c] \in Nat /\ invites'[c] < Bound
        BY <1>2, <2>2, <3>3 DEF Restart, Below, Invites
      <4> QED BY <2>1, <3>2, <4>1
    <3>4. CASE invites'[c] = NoInvite
      <4>1. registered'[c] = registered[c]
        BY <1>2, <3>4 DEF Restart
      <4>2. registered[c] \in Nat /\ Cardinality(Waiting(c)) \in Nat
        BY <2>3, <4>1, UsesNumbers
      <4>3. registered[c] + Cardinality(Waiting(c)) < Bound
        BY <1>0, <2>3, <4>1 DEF RoomLeft
      <4> QED BY <2>1, <3>2, <4>1, <4>2, <4>3
    <3> QED BY <3>3, <3>4
  <2>4. ImagesBelow'
    <3>1. invitesFile' = invitesFile /\ \A h \in Handler : pc'[h] = "idle"
      BY <1>2 DEF Restart
    <3> QED BY <1>0, <2>1, <3>1 DEF ImagesBelow
  <2> QED BY <2>3, <2>4 DEF RoomLeft
<1>3. CASE UNCHANGED vars
  <2>1. \A c \in Code : Waiting(c)' = Waiting(c)
    BY <1>3 DEF vars, Waiting
  <2> QED BY <1>0, <1>3, <2>1 DEF vars, memory, files, failures, RoomLeft, ImagesBelow, Bound
<1> QED BY <1>1, <1>2, <1>3 DEF Next

(* However many requests register at the same time, and whatever saves     *)
(* fail or are lost, an invite is overused by fewer accounts than there    *)
(* are requests and failed saves (register, save_invites, load).           *)
THEOREM OverusesAreBounded == Spec => []OveruseBounded
<1>1. ASSUME Typed, OveruseInv PROVE OveruseBounded
  <2> SUFFICES ASSUME MaxUses # 0, NEW c \in Code, registered[c] # NoInvite
               PROVE  registered[c] < MaxUses + Cardinality(Handler) + faults
    BY DEF OveruseBounded
  <2>1. /\ registered[c] \in Nat /\ Cardinality(Waiting(c)) \in Nat /\ faults \in Nat
        /\ Cardinality(Handler) \in Nat /\ MaxUses \in Nat
    BY <1>1, UsesNumbers, BoundsAssumption
  <2>2. registered[c] + Cardinality(Waiting(c)) < MaxUses + Cardinality(Handler) + faults
    BY <1>1 DEF OveruseInv, RoomLeft, Bound
  <2> QED BY <2>1, <2>2
<1> QED BY <1>1, TypedInit, TypedNext, UsesInit, UsesStep, OveruseInit, OveruseStep, PTL DEF Spec

(* With one request at a time and no failed write, no invite is used more  *)
(* often than it allows, restarts included: overlap and lost saves are the *)
(* only ways to overuse one (register).                                    *)
THEOREM AloneUsesAreKept ==
    ASSUME Cardinality(Handler) = 1, MaxFaults = 0
    PROVE  Spec => []UsesKept
<1>1. ASSUME Typed, OveruseBounded PROVE UsesKept
  <2> SUFFICES ASSUME MaxUses # 0, NEW c \in Code, registered[c] # NoInvite
               PROVE  registered[c] <= MaxUses
    BY DEF UsesKept
  <2>1. registered[c] \in Nat /\ MaxUses \in Nat /\ faults = 0
    BY <1>1, UsesNumbers, BoundsAssumption DEF Typed, TypeOK
  <2>2. registered[c] < MaxUses + 1 + 0
    BY <1>1, <2>1 DEF OveruseBounded
  <2> QED BY <2>1, <2>2
<1> QED BY <1>1, OverusesAreBounded, TypedInit, TypedNext, PTL DEF Spec

(* A deleted invite stays deleted while the program runs.                  *)
THEOREM DeletedInvitesStay == Spec => DeletedInviteGone
<1>1. ASSUME Typed, [Next]_vars
      PROVE  [restarts' = restarts =>
                \A c \in Code : registered[c] # NoInvite /\ invites[c] = NoInvite =>
                                   invites'[c] = NoInvite]_vars
  <2>1. CASE Restart
    <3>1. restarts \in Nat /\ restarts' = restarts + 1
      BY <1>1, <2>1, BoundsAssumption DEF Restart, Typed, TypeOK
    <3> QED BY <3>1
  <2>2. ASSUME NEW h \in Handler, AddNext(h) \/ ChangeNext(h) \/ SaveNext(h) \/ InviteNext(h),
               NEW c \in Code, registered[c] # NoInvite, invites[c] = NoInvite
        PROVE  invites'[c] = NoInvite
    <3>1. Effect(h, c)
      BY <1>1, <2>2, EffectStep
    <3> QED BY <2>2, <3>1 DEF Effect, LetIn, UsesLeft, Made, CountedUse, LostUse, SameUses, Created,
                              Quiet
  <2> QED BY <1>1, <2>1, <2>2 DEF Next
<1> QED BY <1>1, TypedInit, TypedNext, PTL DEF Spec, DeletedInviteGone

(* One request at a time: outside a save the file is what memory holds,    *)
(* and what the save has collected is what memory holds too.               *)
InviteSteps == {"saveInvites", "truncateInvites", "writeInvites"}

InvitesOnDisk(h) ==
    /\ pc[h] \notin InviteSteps => LoadInvites = invites
    /\ pc[h] \in InviteSteps \ {"saveInvites"} => snap[h] = invites
    /\ pc[h] = "writeInvites" => invitesFile = Empty

LEMMA InvitesOnDiskStep ==
    ASSUME NEW h, Handler = {h}, MaxFaults = 0
    PROVE  Typed /\ InvitesOnDisk(h) /\ [Next]_vars => InvitesOnDisk(h)'
<1> SUFFICES ASSUME Typed, InvitesOnDisk(h), [Next]_vars PROVE InvitesOnDisk(h)'
  OBVIOUS
<1>0. /\ h \in Handler /\ pc \in [Handler -> Steps] /\ DOMAIN snap = Handler
      /\ invites \in Invites /\ faults = 0
  BY DEF Typed, TypeOK
<1> USE DEF InvitesOnDisk, InviteSteps, LoadInvites
<1>1. CASE SnapshotInvites(h) \/ TruncateInvites(h)
  BY <1>0, <1>1 DEF SnapshotInvites, TruncateInvites, memory
<1>2. CASE WriteInvites(h)
  <2>1. invitesFile' \in Overlay(Empty, invites) /\ invites' = invites /\ pc'[h] = "idle"
    BY <1>0, <1>2 DEF WriteInvites, memory
  <2>2. invites \notin {Empty, Torn}
    BY <1>0, SentinelAssumption
  <2> QED BY <2>1, <2>2 DEF Overlay
<1>3. ASSUME NEW c \in Code, CreateInvite(h, c) \/ DeleteInvite(h, c) PROVE InvitesOnDisk(h)'
  BY <1>0, <1>3 DEF CreateInvite, DeleteInvite, ChangeInvite
<1>4. CASE Consume(h)
  BY <1>0, <1>4 DEF Consume
<1>5. ASSUME pc[h] \notin InviteSteps, pc'[h] \notin InviteSteps, UNCHANGED <<invites, invitesFile>>
      PROVE  InvitesOnDisk(h)'
  BY <1>5
<1>6. CASE Write(h) \/ WriteFails(h)
  <2>1. After(h) \notin InviteSteps
    BY DEF After
  <2> QED BY <1>0, <1>5, <1>6, <2>1 DEF Write, WriteFails, memory
<1>7. CASE Snapshot(h) \/ Truncate(h)
  BY <1>0, <1>5, <1>7 DEF Snapshot, Truncate, memory, files
<1>8. CASE AddNext(h) /\ ~Consume(h)
  BY <1>0, <1>5, <1>8 DEF AddNext, Setup, Create, Register, Begin, Refuse, Insert, CloseSetup,
       memory, files
<1>9. CASE ChangeNext(h)
  BY <1>0, <1>5, <1>9 DEF ChangeNext, SetDisabled, DeleteUser, Edit, Change, files
<1>10. CASE Restart
  BY <1>0, <1>10 DEF Restart
<1>11. CASE UNCHANGED vars
  BY <1>11 DEF vars, memory, files
<1> QED BY <1>1, <1>2, <1>3, <1>4, <1>6, <1>7, <1>8, <1>9, <1>10, <1>11
        DEF Next, SaveNext, InviteNext

(* With one request at a time and no failed write, a restart while nothing *)
(* goes on finds the invites as they were: only saves that overlap bring   *)
(* back an older list (save_invites, load).                                *)
THEOREM AloneInvitesSurvive ==
    ASSUME NEW r, Handler = {r}, MaxFaults = 0
    PROVE  Spec => InvitesSurvive
<1> DEFINE OnDisk == InvitesOnDisk(r)
<1>1. Init => OnDisk
  BY DEF Init, InvitesOnDisk, InviteSteps, LoadInvites
<1>2. Typed /\ OnDisk /\ [Next]_vars =>
        [restarts' # restarts /\ (\A h \in Handler : pc[h] = "idle") => invites' = invites]_vars
  <2> SUFFICES ASSUME OnDisk, Next, restarts' # restarts, pc[r] = "idle"
               PROVE  invites' = invites
    OBVIOUS
  <2>1. Restart
    BY DEF Next, AddNext, Setup, Create, Register, Refuse, Insert, CloseSetup, Consume,
       ChangeNext, SetDisabled, DeleteUser, Edit, Change, SaveNext, Snapshot, Truncate,
       Write, WriteFails, InviteNext, CreateInvite, DeleteInvite, ChangeInvite,
       SnapshotInvites, TruncateInvites, WriteInvites, failures
  <2> QED BY <2>1 DEF Restart, InvitesOnDisk, InviteSteps
<1>3. Typed /\ OnDisk /\ [Next]_vars => OnDisk'
  BY InvitesOnDiskStep
<1> HIDE DEF OnDisk
<1> QED BY <1>1, <1>2, <1>3, TypedInit, TypedNext, PTL DEF Spec, InvitesSurvive

=============================================================================
