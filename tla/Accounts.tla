------------------------------- MODULE Accounts -------------------------------
(***************************************************************************)
(* The user store of auth.rs: first-run setup, accounts, invites, bans,    *)
(* users.json and invites.json.                                            *)
(*                                                                         *)
(* Concurrent actors: request handlers.  A request changes the maps in one *)
(* lock region; saving collects the map in a second one, releases it, and  *)
(* writes the file with fs::write, which truncates it first.  The program  *)
(* may die between any two steps.                                          *)
(*                                                                         *)
(* Abstracted: passwords, tokens, second factors and e-mail of an account  *)
(* (Edit stands for every change of these), the age of an invite (an       *)
(* expired one is not accepted, a step a request need not take).           *)
(***************************************************************************)
EXTENDS Integers, FiniteSets

CONSTANTS
    Name,         \* user names
    Handler,      \* concurrent requests
    Code,         \* invite codes
    MaxUses,      \* max_uses of an invite, 0 for no limit
    AdminName,    \* MAGNETBOX_ADMIN_USER
    Recoveries,   \* whether MAGNETBOX_ADMIN_PASSWORD may be set at a start
    BlankCrashes, \* whether a crash may find users.json blank
    NoUser, NoInvite, NoSnap, Empty, Torn,
    MaxFaults, MaxRestarts   \* bounds of the state space: failed writes, crashes

ASSUME NamesAssumption  == AdminName \in Name
ASSUME FiniteAssumption == IsFiniteSet(Handler)
ASSUME BoundsAssumption == {MaxUses, MaxFaults, MaxRestarts} \subseteq Nat
ASSUME ModesAssumption  == {Recoveries, BlankCrashes} \subseteq BOOLEAN

Account == [role : {"admin", "user"}, disabled : BOOLEAN]
Users   == [Name -> Account \cup {NoUser}]
Invites == [Code -> Nat \cup {NoInvite}]
Job     == [op : {"none", "setup", "create", "register", "edit"}, name : Name,
            role : {"admin", "user"}, code : Code \cup {NoInvite}]

ASSUME SentinelAssumption ==
    /\ NoUser \notin Account /\ NoInvite \notin Nat \cup Code
    /\ {NoSnap, Empty, Torn} \cap (Users \cup Invites) = {} /\ Empty # Torn

Steps == {"idle", "insert", "save", "truncate", "write", "close", "consume",
          "saveInvites", "truncateInvites", "writeInvites"}

VARIABLES
    users,        \* the accounts in memory
    setupCode,    \* whether setup_token holds a code
    invites,      \* the uses counted on each invite
    usersFile,    \* users.json
    invitesFile,  \* invites.json
    pc, job,      \* the next step of each handler, and its request
    snap,         \* the map a handler has collected for its save
    registered,   \* history: the uses an invite started with and had since
    faults,       \* failed writes so far
    restarts

memory == <<users, setupCode, invites>>
files  == <<usersFile, invitesFile>>
failures == <<faults, restarts>>
vars   == <<memory, files, pc, job, snap, registered, failures>>

NoUsers     == [n \in Name |-> NoUser]
NoInvites   == [c \in Code |-> NoInvite]
NewAdmin    == [role |-> "admin", disabled |-> FALSE]
JobOf(o)    == [op |-> o, name |-> AdminName, role |-> "user", code |-> NoInvite]
NoJob       == JobOf("none")
AdminsOf(m) == {n \in Name : m[n] # NoUser /\ m[n].role = "admin"}
Admins      == AdminsOf(users)
NeedsSetup  == users = NoUsers

-----------------------------------------------------------------------------
(* Auth::load: a users.json without bytes, or none, is an empty store; one *)
(* that does not parse stops the program.  invites.json that does not      *)
(* parse counts as none.  init_admin creates or resets the administrator   *)
(* when the password is set, and otherwise opens the setup on an empty     *)
(* store.                                                                  *)

LoadUsers   == IF usersFile = Empty THEN NoUsers ELSE usersFile
LoadInvites == IF invitesFile \in {Empty, Torn} THEN NoInvites ELSE invitesFile

EnsureAdmin(m) == [m EXCEPT ![AdminName] = IF @ = NoUser THEN NewAdmin
                                           ELSE [role |-> "admin", disabled |-> @.disabled]]

Load(stored, recovering) ==
    /\ users' = IF recovering THEN EnsureAdmin(stored) ELSE stored
    /\ usersFile' = IF recovering THEN users' ELSE usersFile
    /\ setupCode' = (~recovering /\ stored = NoUsers)

Init ==
    /\ \/ users = NoUsers /\ usersFile = Empty /\ setupCode = TRUE
       \/ /\ Recoveries
          /\ users = [NoUsers EXCEPT ![AdminName] = NewAdmin]
          /\ usersFile = users /\ setupCode = FALSE
    /\ invites = NoInvites
    /\ invitesFile = Empty
    /\ pc = [h \in Handler |-> "idle"]
    /\ job = [h \in Handler |-> NoJob]
    /\ snap = [h \in Handler |-> NoSnap]
    /\ registered = NoInvites
    /\ faults = 0
    /\ restarts = 0

-----------------------------------------------------------------------------
(* Requests begin.  api_setup and complete_setup look at the store and the *)
(* code several times; the last look decides, since neither comes back.    *)

Begin(h, op, n, r, c) ==
    /\ pc[h] = "idle"
    /\ pc' = [pc EXCEPT ![h] = "insert"]
    /\ job' = [job EXCEPT ![h] = [op |-> op, name |-> n, role |-> r, code |-> c]]

Setup_TakesCode(h, n) ==
    /\ NeedsSetup /\ setupCode
    /\ Begin(h, "setup", n, "admin", NoInvite)
    /\ setupCode' = FALSE
    /\ UNCHANGED <<users, invites, files, snap, registered, failures>>

Setup(h, n) ==
    /\ NeedsSetup /\ setupCode
    /\ Begin(h, "setup", n, "admin", NoInvite)
    /\ UNCHANGED <<memory, files, snap, registered, failures>>

(* users_create, which only administrators reach *)
Create(h, n, r) ==
    /\ Admins # {}
    /\ Begin(h, "create", n, r, NoInvite)
    /\ UNCHANGED <<memory, files, snap, registered, failures>>

(* register, its first lock region: the invite exists and has a use left *)
UsesLeft_OffByOne(c) == invites[c] # NoInvite /\ (MaxUses = 0 \/ invites[c] <= MaxUses)

UsesLeft(c) == invites[c] # NoInvite /\ (MaxUses = 0 \/ invites[c] < MaxUses)

Register(h, n, c) ==
    /\ UsesLeft(c)
    /\ Begin(h, "register", n, "user", c)
    /\ UNCHANGED <<memory, files, snap, registered, failures>>

(* add_user_full: refused for a bad name, password or e-mail, or a name    *)
(* that is taken.                                                          *)
Refuse(h) ==
    /\ pc[h] = "insert"
    /\ pc' = [pc EXCEPT ![h] = "idle"]
    /\ job' = [job EXCEPT ![h] = NoJob]
    /\ UNCHANGED <<memory, files, snap, registered, failures>>

Counted(h) == IF job[h].op = "register"
              THEN [registered EXCEPT ![job[h].code] = @ + 1] ELSE registered

Insert_Overwrites(h) ==
    /\ pc[h] = "insert"
    /\ users' = [users EXCEPT ![job[h].name] = [role |-> job[h].role, disabled |-> FALSE]]
    /\ registered' = Counted(h)
    /\ pc' = [pc EXCEPT ![h] = "save"]
    /\ UNCHANGED <<setupCode, invites, files, job, snap, failures>>

Insert(h) ==
    /\ pc[h] = "insert"
    /\ users[job[h].name] = NoUser
    /\ users' = [users EXCEPT ![job[h].name] = [role |-> job[h].role, disabled |-> FALSE]]
    /\ registered' = Counted(h)
    /\ pc' = [pc EXCEPT ![h] = "save"]
    /\ UNCHANGED <<setupCode, invites, files, job, snap, failures>>

-----------------------------------------------------------------------------
(* Changes of an account that is there, each in one lock region. *)

Change(h, changed) ==
    /\ pc[h] = "idle"
    /\ users' = changed
    /\ pc' = [pc EXCEPT ![h] = "save"]
    /\ job' = [job EXCEPT ![h] = JobOf("edit")]
    /\ UNCHANGED <<setupCode, invites, files, snap, registered, failures>>

(* set_disabled: an administrator is never disabled *)
SetDisabled(h, n, b) ==
    /\ Admins # {} /\ users[n] # NoUser
    /\ ~(users[n].role = "admin" /\ b)
    /\ Change(h, [users EXCEPT ![n] = [role |-> @.role, disabled |-> b]])

DeleteUser_Unchecked(h, n) ==
    /\ Admins # {} /\ users[n] # NoUser
    /\ Change(h, [users EXCEPT ![n] = NoUser])

(* delete_user: the last administrator stays *)
DeleteUser(h, n) ==
    /\ Admins # {} /\ users[n] # NoUser
    /\ Admins # {n}
    /\ Change(h, [users EXCEPT ![n] = NoUser])

(* set_password, regenerate_token, confirm_2fa, disable_2fa and            *)
(* consume_recovery change what is abstracted here, and save.              *)
Edit(h, n) == users[n] # NoUser /\ Change(h, users)

-----------------------------------------------------------------------------
(* save, then what the request does next: complete_setup takes the code    *)
(* away, register counts the use.                                          *)

Snapshot(h) ==
    /\ pc[h] = "save"
    /\ snap' = [snap EXCEPT ![h] = users]
    /\ pc' = [pc EXCEPT ![h] = "truncate"]
    /\ UNCHANGED <<memory, files, job, registered, failures>>

Truncate(h) ==
    /\ pc[h] = "truncate"
    /\ usersFile' = Empty
    /\ pc' = [pc EXCEPT ![h] = "write"]
    /\ UNCHANGED <<memory, invitesFile, job, snap, registered, failures>>

(* A write starts at offset 0: over what another writer put there since    *)
(* the truncation it may leave that writer's tail.                         *)
Overlay(old, mine) == IF old \in {Empty, mine} THEN {mine} ELSE {mine, Torn}

After(h) == CASE job[h].op = "setup"    -> "close"
              [] job[h].op = "register" -> "consume"
              [] OTHER                  -> "idle"

Write(h) ==
    /\ pc[h] = "write"
    /\ usersFile' \in Overlay(usersFile, snap[h])
    /\ snap' = [snap EXCEPT ![h] = NoSnap]
    /\ pc' = [pc EXCEPT ![h] = After(h)]
    /\ job' = [job EXCEPT ![h] = IF After(h) = "idle" THEN NoJob ELSE @]
    /\ UNCHANGED <<memory, invitesFile, registered, failures>>

(* fs::write fails before or after the truncation, and `?` ends the        *)
(* request with an error.                                                  *)
WriteFails(h) ==
    /\ pc[h] \in {"truncate", "write"}
    /\ faults < MaxFaults
    /\ faults' = faults + 1
    /\ usersFile' \in IF pc[h] = "write" THEN {usersFile, Torn} ELSE {usersFile}
    /\ snap' = [snap EXCEPT ![h] = NoSnap]
    /\ pc' = [pc EXCEPT ![h] = "idle"]
    /\ job' = [job EXCEPT ![h] = NoJob]
    /\ UNCHANGED <<memory, invitesFile, registered, restarts>>

CloseSetup(h) ==
    /\ pc[h] = "close"
    /\ setupCode' = FALSE
    /\ pc' = [pc EXCEPT ![h] = "idle"]
    /\ job' = [job EXCEPT ![h] = NoJob]
    /\ UNCHANGED <<users, invites, files, snap, registered, failures>>

Consume_Saturates(h) ==
    /\ pc[h] = "consume"
    /\ invites' = [invites EXCEPT ![job[h].code] = IF @ \in {NoInvite, MaxUses} THEN @ ELSE @ + 1]
    /\ pc' = [pc EXCEPT ![h] = "saveInvites"]
    /\ UNCHANGED <<users, setupCode, files, job, snap, registered, failures>>

Consume_Recreates(h) ==
    /\ pc[h] = "consume"
    /\ invites' = [invites EXCEPT ![job[h].code] = IF @ = NoInvite THEN 1 ELSE @ + 1]
    /\ pc' = [pc EXCEPT ![h] = "saveInvites"]
    /\ UNCHANGED <<users, setupCode, files, job, snap, registered, failures>>

Consume(h) ==
    /\ pc[h] = "consume"
    /\ invites' = [invites EXCEPT ![job[h].code] = IF @ = NoInvite THEN @ ELSE @ + 1]
    /\ pc' = [pc EXCEPT ![h] = "saveInvites"]
    /\ UNCHANGED <<users, setupCode, files, job, snap, registered, failures>>

-----------------------------------------------------------------------------
(* Invites.  A code is random, so none is made twice. *)

ChangeInvite(h, c, uses) ==
    /\ pc[h] = "idle" /\ Admins # {}
    /\ invites' = [invites EXCEPT ![c] = uses]
    /\ pc' = [pc EXCEPT ![h] = "saveInvites"]
    /\ job' = [job EXCEPT ![h] = JobOf("edit")]
    /\ UNCHANGED <<users, setupCode, files, snap, failures>>

CreateInvite(h, c) ==
    /\ registered[c] = NoInvite
    /\ registered' = [registered EXCEPT ![c] = 0]
    /\ ChangeInvite(h, c, 0)

DeleteInvite(h, c) ==
    /\ invites[c] # NoInvite
    /\ ChangeInvite(h, c, NoInvite)
    /\ UNCHANGED registered

SnapshotInvites(h) ==
    /\ pc[h] = "saveInvites"
    /\ snap' = [snap EXCEPT ![h] = invites]
    /\ pc' = [pc EXCEPT ![h] = "truncateInvites"]
    /\ UNCHANGED <<memory, files, job, registered, failures>>

TruncateInvites(h) ==
    /\ pc[h] = "truncateInvites"
    /\ invitesFile' = Empty
    /\ pc' = [pc EXCEPT ![h] = "writeInvites"]
    /\ UNCHANGED <<memory, usersFile, job, snap, registered, failures>>

(* An error of this write is discarded. *)
WriteInvites(h) ==
    /\ pc[h] = "writeInvites"
    /\ \/ invitesFile' \in Overlay(invitesFile, snap[h]) /\ UNCHANGED faults
       \/ invitesFile' = Torn /\ faults < MaxFaults /\ faults' = faults + 1
    /\ snap' = [snap EXCEPT ![h] = NoSnap]
    /\ pc' = [pc EXCEPT ![h] = "idle"]
    /\ job' = [job EXCEPT ![h] = NoJob]
    /\ UNCHANGED <<memory, usersFile, registered, restarts>>

-----------------------------------------------------------------------------
(* The program dies and starts again.  Unless BlankCrashes, it does not    *)
(* die while users.json is blank although there are accounts: before the   *)
(* first administrator is saved, or between the two halves of a write.     *)
Restart ==
    /\ restarts < MaxRestarts
    /\ usersFile # Torn
    /\ BlankCrashes \/ usersFile # Empty \/ NeedsSetup
    /\ restarts' = restarts + 1
    /\ \E recovering \in {FALSE, Recoveries} : Load(LoadUsers, recovering)
    /\ invites' = LoadInvites
    /\ registered' = [c \in Code |-> IF invites'[c] = NoInvite THEN registered[c] ELSE invites'[c]]
    /\ pc' = [h \in Handler |-> "idle"]
    /\ job' = [h \in Handler |-> NoJob]
    /\ snap' = [h \in Handler |-> NoSnap]
    /\ UNCHANGED <<invitesFile, faults>>

AddNext(h) == \/ \E n \in Name : \/ Setup(h, n)
                                 \/ \E r \in {"admin", "user"} : Create(h, n, r)
                                 \/ \E c \in Code : Register(h, n, c)
              \/ Refuse(h) \/ Insert(h) \/ CloseSetup(h) \/ Consume(h)

ChangeNext(h) == \E n \in Name : \/ \E b \in BOOLEAN : SetDisabled(h, n, b)
                                 \/ DeleteUser(h, n) \/ Edit(h, n)

SaveNext(h) == Snapshot(h) \/ Truncate(h) \/ Write(h) \/ WriteFails(h)

InviteNext(h) == \/ \E c \in Code : CreateInvite(h, c) \/ DeleteInvite(h, c)
                 \/ SnapshotInvites(h) \/ TruncateInvites(h) \/ WriteInvites(h)

Next == \/ \E h \in Handler : AddNext(h) \/ ChangeNext(h) \/ SaveNext(h) \/ InviteNext(h)
        \/ Restart

Spec == Init /\ [][Next]_vars

-----------------------------------------------------------------------------
(* Every variable keeps its type. *)
TypeOK ==
    /\ users \in Users
    /\ setupCode \in BOOLEAN
    /\ invites \in Invites
    /\ usersFile \in Users \cup {Empty, Torn}
    /\ invitesFile \in Invites \cup {Empty, Torn}
    /\ pc \in [Handler -> Steps]
    /\ job \in [Handler -> Job]
    /\ snap \in [Handler -> Users \cup Invites \cup {NoSnap}]
    /\ registered \in Invites
    /\ faults \in 0 .. MaxFaults
    /\ restarts \in 0 .. MaxRestarts

(* A box that has accounts has an administrator, whatever deletions,       *)
(* stale saves and restarts do: nobody else can make one.                  *)
AdminRemains == users # NoUsers => Admins # {}

(* A box without accounts accepts its setup code: a setup that was refused *)
(* or cut short can be tried again.                                        *)
SetupReachable == NeedsSetup => setupCode

(* Nobody is registered or created over an existing account: its role      *)
(* stays what it was while the program runs.                               *)
RoleKept ==
    [][restarts' = restarts =>
         \A n \in Name : users[n] # NoUser /\ users'[n] # NoUser =>
                            users'[n].role = users[n].role]_vars

(* Each account made through an invite is counted on it once, or its       *)
(* request is about to count it; but for one whose save failed, which      *)
(* stays in memory and ends the request before its use is counted.         *)
Uncounted(c) == {h \in Handler : /\ job[h].op = "register" /\ job[h].code = c
                                 /\ pc[h] \in {"save", "truncate", "write", "consume"}}
UsesCounted ==
    \A c \in Code : invites[c] # NoInvite =>
        registered[c] - invites[c] - Cardinality(Uncounted(c)) \in 0 .. faults

(* An invite is overused by fewer accounts than there are requests at the  *)
(* same time, for its use is counted after the account is made, and failed *)
(* saves.                                                                  *)
OveruseBounded ==
    MaxUses # 0 => \A c \in Code : registered[c] # NoInvite =>
        registered[c] < MaxUses + Cardinality(Handler) + faults

(* An invite that was deleted is not there again while the program runs,   *)
(* though a registration that was let in before counts its use after.      *)
DeletedInviteGone ==
    [][restarts' = restarts =>
         \A c \in Code : registered[c] # NoInvite /\ invites[c] = NoInvite =>
                            invites'[c] = NoInvite]_vars

-----------------------------------------------------------------------------
(* What the documentation and comments say, which the code does not keep   *)

(* auth.rs: there is no setup code once the box is configured. *)
SetupOnce == [][~setupCode => ~setupCode']_vars

(* auth.rs: an administrator cannot be disabled, and the administrator     *)
(* that a start with the password set brings back can log in.              *)
AdminEnabled == \A n \in Admins : ~users[n].disabled

(* README.md: single-use invite codes. *)
UsesKept == MaxUses # 0 => \A c \in Code : registered[c] # NoInvite => registered[c] <= MaxUses

(* A restart while nothing goes on finds the invites as they were: what    *)
(* save_invites is for.  Two saves that overlap break it.                  *)
InvitesSurvive ==
    [][restarts' # restarts /\ (\A h \in Handler : pc[h] = "idle") => invites' = invites]_vars

=============================================================================
