--------------------------------- MODULE Login ---------------------------------
(***************************************************************************)
(* Signing in, second factors, sessions and bans of auth.rs, during one    *)
(* run of the program: all of it but the accounts is in memory only, and   *)
(* Accounts models how those are kept.                                     *)
(*                                                                         *)
(* Concurrent actors: request handlers.  Each lock region is a step, so    *)
(* what a request has looked at may be old when it acts on it.  Ages count *)
(* ticks of the clock since an entry was made and stop growing once the    *)
(* code tells them apart no more.                                          *)
(*                                                                         *)
(* Abstracted: a password, a TOTP code or a recovery code is right or      *)
(* wrong.  Only accounts that may be disabled appear, those of users.      *)
(***************************************************************************)
EXTENDS Integers, FiniteSets

CONSTANTS
    Name, Handler,
    Token,         \* session tokens: at most so many sessions at a time
    Challenge,     \* challenge tokens: at most so many challenges at a time
    Code,          \* recovery codes ever issued
    PerUser,       \* recovery codes issued at a time
    MaxFails,      \* MAX_FAILS
    Window,        \* FAIL_WINDOW, and the lifetimes below, in ticks
    MaxTries,      \* codes tried on a challenge
    ChallengeTTL, PendingTTL, SessionTTL,
    None,
    MaxRecorded    \* bound of the state space: failures counted in a window

ASSUME FiniteAssumption == IsFiniteSet(Handler) /\ IsFiniteSet(Token)
ASSUME LimitsAssumption ==
    {PerUser, MaxFails, Window, MaxTries, ChallengeTTL, PendingTTL, SessionTTL,
     MaxRecorded} \subseteq Nat \ {0}

Account == [disabled : BOOLEAN, twofa : BOOLEAN, codes : SUBSET Code]
Steps   == {"idle", "password", "fail", "clear", "has2fa", "challenge", "account",
            "throttle", "code", "unthrottle", "drop", "session", "offer", "confirm",
            "disable", "unpend", "evict", "gate", "serve"}
Job     == [user : Name \cup {None}, challenge : Challenge \cup {None},
            code : Code \cup {None}]
Session == [user : Name, age : 0 .. SessionTTL]
Asked   == [user : Name, age : 0 .. ChallengeTTL + 1, tries : 0 .. MaxTries]
Fails   == [fails : 0 .. MaxRecorded, age : 0 .. Window + 1]

ASSUME SentinelAssumption ==
    None \notin Account \cup Session \cup Asked \cup Fails \cup Nat \cup Name \cup
                Challenge \cup Code

VARIABLES
    users,       \* the accounts
    sessions,    \* the session of each token
    throttle,    \* the failures of each name
    challenges,  \* the login behind each challenge token
    pending,     \* pending_2fa: the age of each name's enrolment
    pc, job,     \* the next step of each handler, and what it has learned
    issued,      \* history: the recovery codes issued so far
    opened       \* history: the sessions each recovery code has opened

store == <<users, issued>>
login == <<throttle, challenges>>
work  == <<pc, job>>
vars  == <<store, sessions, login, pending, work, opened>>

NoJob == [user |-> None, challenge |-> None, code |-> None]
NewAccount == [disabled |-> FALSE, twofa |-> FALSE, codes |-> {}]

Init ==
    /\ users \in [Name -> {NewAccount, None}]
    /\ sessions = [t \in Token |-> None]
    /\ throttle = [n \in Name |-> None]
    /\ challenges = [c \in Challenge |-> None]
    /\ pending = [n \in Name |-> None]
    /\ pc = [h \in Handler |-> "idle"]
    /\ job = [h \in Handler |-> NoJob]
    /\ issued = {}
    /\ opened = [x \in Code |-> 0]

Goto(h, step) == pc' = [pc EXCEPT ![h] = step] /\ UNCHANGED job
Return(h)     == pc' = [pc EXCEPT ![h] = "idle"] /\ job' = [job EXCEPT ![h] = NoJob]
Begin(h, step, n) == /\ pc[h] = "idle"
                     /\ pc' = [pc EXCEPT ![h] = step]
                     /\ job' = [job EXCEPT ![h] = [NoJob EXCEPT !.user = n]]

User(h) == users[job[h].user]

-----------------------------------------------------------------------------
(* The throttle: a window starts with the first failure after the last one *)
(* ended, and a name with MaxFails of them waits for its end.              *)

Throttled_OffByOne(n) ==
    throttle[n] # None /\ throttle[n].age < Window /\ throttle[n].fails > MaxFails

Throttled(n) ==
    throttle[n] # None /\ throttle[n].age < Window /\ throttle[n].fails >= MaxFails

Failed_Refreshed(f) == [fails |-> IF f = None \/ f.age > Window THEN 1 ELSE f.fails + 1,
                        age   |-> 0]

Failed(f) == IF f = None \/ f.age > Window THEN [fails |-> 1, age |-> 0]
             ELSE [fails |-> f.fails + 1, age |-> f.age]

RecordFailure(h) ==
    /\ pc[h] = "fail"
    /\ LET n == job[h].user
       IN  /\ Failed(throttle[n]).fails <= MaxRecorded
           /\ throttle' = [throttle EXCEPT ![n] = Failed(@)]
    /\ Return(h)
    /\ UNCHANGED <<store, sessions, challenges, pending, opened>>

ClearThrottle(h) ==
    /\ pc[h] \in {"clear", "unthrottle"}
    /\ throttle' = [throttle EXCEPT ![job[h].user] = None]
    /\ Goto(h, IF pc[h] = "clear" THEN "has2fa" ELSE "drop")
    /\ UNCHANGED <<store, sessions, challenges, pending, opened>>

-----------------------------------------------------------------------------
(* login: the throttle, the password and whether the account is disabled,  *)
(* the throttle again, the second factor, and the session or the challenge *)

Login(h, n) ==
    /\ ~Throttled(n)
    /\ Begin(h, "password", n)
    /\ UNCHANGED <<store, sessions, login, pending, opened>>

Password(h, right) ==
    /\ pc[h] = "password"
    /\ \/ User(h) = None /\ ~right /\ Goto(h, "fail")
       \/ User(h) # None /\ User(h).disabled /\ Return(h)
       \/ User(h) # None /\ ~User(h).disabled /\ Goto(h, IF right THEN "clear" ELSE "fail")
    /\ UNCHANGED <<store, sessions, login, pending, opened>>

Has2fa(n) == users[n] # None /\ users[n].twofa

SecondFactor(h) ==
    /\ pc[h] = "has2fa"
    /\ Goto(h, IF Has2fa(job[h].user) THEN "challenge" ELSE "session")
    /\ UNCHANGED <<store, sessions, login, pending, opened>>

Fresh(c) == IF challenges[c] # None /\ challenges[c].age < ChallengeTTL
            THEN challenges[c] ELSE None

(* A new token is none that a request still holds. *)
Ask(h, c) ==
    /\ pc[h] = "challenge"
    /\ Fresh(c) = None /\ \A g \in Handler : job[g].challenge # c
    /\ challenges' = [d \in Challenge |->
                         IF d = c THEN [user |-> job[h].user, age |-> 0, tries |-> 0]
                         ELSE Fresh(d)]
    /\ Return(h)
    /\ UNCHANGED <<store, sessions, throttle, pending, opened>>

NewSession(h, t) ==
    /\ pc[h] = "session"
    /\ sessions[t] = None
    /\ sessions' = [sessions EXCEPT ![t] = [user |-> job[h].user, age |-> 0]]
    /\ opened' = [x \in Code |-> opened[x] + IF x = job[h].code THEN 1 ELSE 0]
    /\ Return(h)
    /\ UNCHANGED <<store, login, pending>>

-----------------------------------------------------------------------------
(* verify_2fa: the challenge, the account, the throttle, the code. *)

Spent_OffByOne(c) == challenges[c].age > ChallengeTTL \/ challenges[c].tries > MaxTries

Spent(c) == challenges[c].age > ChallengeTTL \/ challenges[c].tries = MaxTries

Verify(h, c) ==
    /\ pc[h] = "idle" /\ challenges[c] # None
    /\ IF Spent(c)
       THEN challenges' = [challenges EXCEPT ![c] = None] /\ UNCHANGED work
       ELSE /\ challenges' = [challenges EXCEPT ![c].tries = @ + 1]
            /\ pc' = [pc EXCEPT ![h] = "account"]
            /\ job' = [job EXCEPT ![h] = [user |-> challenges[c].user, challenge |-> c,
                                          code |-> None]]
    /\ UNCHANGED <<store, sessions, throttle, pending, opened>>

(* An account without a second factor is refused a step later in the code, *)
(* by the same answer.                                                     *)
Acceptable(u) == u # None /\ ~u.disabled /\ u.twofa

FindAccount(h) ==
    /\ pc[h] = "account"
    /\ IF Acceptable(User(h)) THEN Goto(h, "throttle") ELSE Return(h)
    /\ UNCHANGED <<store, sessions, login, pending, opened>>

CheckThrottle(h) ==
    /\ pc[h] = "throttle"
    /\ IF Throttled(job[h].user) THEN Return(h) ELSE Goto(h, "code")
    /\ UNCHANGED <<store, sessions, login, pending, opened>>

(* A right TOTP code needs no look at the account, any other is looked for *)
(* among its recovery codes.                                               *)
CheckCode(h, right) ==
    /\ pc[h] = "code"
    /\ Goto(h, IF right THEN "unthrottle" ELSE "fail")
    /\ UNCHANGED <<store, sessions, login, pending, opened>>

ConsumeRecovery_Kept(h, x) ==
    /\ pc[h] = "code"
    /\ User(h) # None /\ x \in User(h).codes
    /\ job' = [job EXCEPT ![h].code = x]
    /\ pc' = [pc EXCEPT ![h] = "unthrottle"]
    /\ UNCHANGED <<store, sessions, login, pending, opened>>

ConsumeRecovery(h, x) ==
    /\ pc[h] = "code"
    /\ User(h) # None /\ x \in User(h).codes
    /\ users' = [users EXCEPT ![job[h].user].codes = @ \ {x}]
    /\ job' = [job EXCEPT ![h].code = x]
    /\ pc' = [pc EXCEPT ![h] = "unthrottle"]
    /\ UNCHANGED <<sessions, login, pending, issued, opened>>

DropChallenge(h) ==
    /\ pc[h] = "drop"
    /\ challenges' = [challenges EXCEPT ![job[h].challenge] = None]
    /\ Goto(h, "session")
    /\ UNCHANGED <<store, sessions, throttle, pending, opened>>

-----------------------------------------------------------------------------
(* Enrolment: start_enroll_2fa, confirm_2fa, disable_2fa. *)

StartEnroll(h, n) ==
    /\ ~Has2fa(n)
    /\ Begin(h, "offer", n)
    /\ UNCHANGED <<store, sessions, login, pending, opened>>

Offer(h) ==
    /\ pc[h] = "offer"
    /\ pending' = [pending EXCEPT ![job[h].user] = 0]
    /\ Return(h)
    /\ UNCHANGED <<store, sessions, login, opened>>

Confirm(h, n) ==
    /\ pc[h] = "idle" /\ pending[n] # None
    /\ IF pending[n] > PendingTTL
       THEN pending' = [pending EXCEPT ![n] = None] /\ UNCHANGED work
       ELSE Begin(h, "confirm", n) /\ UNCHANGED pending
    /\ UNCHANGED <<store, sessions, login, opened>>

Enable(h, new) ==
    /\ pc[h] = "confirm"
    /\ User(h) # None
    /\ issued' = issued \cup new
    /\ users' = [users EXCEPT ![job[h].user].twofa = TRUE, ![job[h].user].codes = new]
    /\ Goto(h, "unpend")
    /\ UNCHANGED <<sessions, login, pending, opened>>

(* A wrong code, or no such user. *)
NotConfirmed(h) ==
    /\ pc[h] = "confirm"
    /\ Return(h)
    /\ UNCHANGED <<store, sessions, login, pending, opened>>

DisableFactor(h, n) ==
    /\ users[n] # None
    /\ Begin(h, "disable", n)
    /\ UNCHANGED <<store, sessions, login, pending, opened>>

ClearFactor(h) ==
    /\ pc[h] = "disable"
    /\ users' = [users EXCEPT ![job[h].user] =
                    IF @ = None THEN None ELSE [@ EXCEPT !.twofa = FALSE, !.codes = {}]]
    /\ Goto(h, "unpend")
    /\ UNCHANGED <<sessions, login, pending, issued, opened>>

Unpend(h) ==
    /\ pc[h] = "unpend"
    /\ pending' = [pending EXCEPT ![job[h].user] = None]
    /\ Return(h)
    /\ UNCHANGED <<store, sessions, login, opened>>

-----------------------------------------------------------------------------
(* Administration: set_disabled marks the account and then drops its       *)
(* sessions; delete_user and add_user_full are one step here.              *)

SetDisabled_Stays(h, n, b) ==
    /\ pc[h] = "idle" /\ users[n] # None
    /\ users' = [users EXCEPT ![n].disabled = b]
    /\ UNCHANGED <<issued, sessions, login, pending, work, opened>>

SetDisabled(h, n, b) ==
    /\ users[n] # None
    /\ users' = [users EXCEPT ![n].disabled = b]
    /\ IF b THEN Begin(h, "evict", n) ELSE pc[h] = "idle" /\ UNCHANGED work
    /\ UNCHANGED <<issued, sessions, login, pending, opened>>

SessionsOf(n) == {t \in Token : sessions[t] # None /\ sessions[t].user = n}

Drop(dropped) == sessions' = [t \in Token |-> IF t \in dropped THEN None ELSE sessions[t]]

Evict(h) ==
    /\ pc[h] = "evict"
    /\ Drop(SessionsOf(job[h].user))
    /\ Return(h)
    /\ UNCHANGED <<store, login, pending, opened>>

CreateUser(n) ==
    /\ users[n] = None
    /\ users' = [users EXCEPT ![n] = NewAccount]
    /\ UNCHANGED <<issued, sessions, login, pending, work, opened>>

DeleteUser(n) ==
    /\ users[n] # None
    /\ users' = [users EXCEPT ![n] = None]
    /\ UNCHANGED <<issued, sessions, login, pending, work, opened>>

-----------------------------------------------------------------------------
(* Sessions: logout and revoke_session, logout_others, revoke_all_except,  *)
(* and the request that require_auth lets pass: by a session or an API     *)
(* token, and then unless the account is disabled.                         *)

SignOut(t) ==
    /\ sessions[t] # None
    /\ \/ Drop({t})
       \/ Drop(SessionsOf(sessions[t].user) \ {t})
       \/ Drop(Token \ {t})
    /\ UNCHANGED <<store, login, pending, work, opened>>

Identify(h, t) ==
    /\ pc[h] = "idle" /\ sessions[t] # None
    /\ IF sessions[t].age < SessionTTL
       THEN Begin(h, "gate", sessions[t].user) /\ UNCHANGED sessions
       ELSE Drop({t}) /\ UNCHANGED work
    /\ UNCHANGED <<store, login, pending, opened>>

UserByToken(h, n) ==
    /\ users[n] # None
    /\ Begin(h, "gate", n)
    /\ UNCHANGED <<store, sessions, login, pending, opened>>

Gate(h) ==
    /\ pc[h] = "gate"
    /\ IF User(h) # None /\ User(h).disabled THEN Return(h) ELSE Goto(h, "serve")
    /\ UNCHANGED <<store, sessions, login, pending, opened>>

Served(h) ==
    /\ pc[h] = "serve"
    /\ Return(h)
    /\ UNCHANGED <<store, sessions, login, pending, opened>>

-----------------------------------------------------------------------------
Older(entry, limit) == IF entry = None \/ entry.age = limit THEN entry
                       ELSE [entry EXCEPT !.age = @ + 1]

Tick ==
    /\ throttle' = [n \in Name |-> Older(throttle[n], Window + 1)]
    /\ challenges' = [c \in Challenge |-> Older(challenges[c], ChallengeTTL + 1)]
    /\ sessions' = [t \in Token |-> Older(sessions[t], SessionTTL)]
    /\ pending' = [n \in Name |-> IF pending[n] \in {None, PendingTTL + 1} THEN pending[n]
                                  ELSE pending[n] + 1]
    /\ UNCHANGED <<store, work, opened>>

LoginNext(h) == \/ \E n \in Name : Login(h, n)
                \/ \E right \in BOOLEAN : Password(h, right) \/ CheckCode(h, right)
                \/ \E c \in Challenge : Ask(h, c) \/ Verify(h, c)
                \/ \E t \in Token : NewSession(h, t)
                \/ \E x \in Code : ConsumeRecovery(h, x)
                \/ RecordFailure(h) \/ ClearThrottle(h) \/ SecondFactor(h)
                \/ FindAccount(h) \/ CheckThrottle(h) \/ DropChallenge(h)

EnrollNext(h) == \/ \E n \in Name : StartEnroll(h, n) \/ Confirm(h, n) \/ DisableFactor(h, n)
                 \/ \E new \in SUBSET (Code \ issued) :
                        Cardinality(new) = PerUser /\ Enable(h, new)
                 \/ Offer(h) \/ NotConfirmed(h) \/ ClearFactor(h) \/ Unpend(h)

RequestNext(h) == \/ \E t \in Token : Identify(h, t)
                  \/ \E n \in Name : UserByToken(h, n) \/ \E b \in BOOLEAN : SetDisabled(h, n, b)
                  \/ Gate(h) \/ Served(h) \/ Evict(h)

Next == \/ \E h \in Handler : LoginNext(h) \/ EnrollNext(h) \/ RequestNext(h)
        \/ \E n \in Name : CreateUser(n) \/ DeleteUser(n)
        \/ \E t \in Token : SignOut(t)
        \/ Tick

Spec == Init /\ [][Next]_vars

-----------------------------------------------------------------------------
(* Every variable keeps its type; a challenge is tried MaxTries times. *)
TypeOK ==
    /\ users \in [Name -> Account \cup {None}]
    /\ sessions \in [Token -> Session \cup {None}]
    /\ throttle \in [Name -> Fails \cup {None}]
    /\ challenges \in [Challenge -> Asked \cup {None}]
    /\ pending \in [Name -> 0 .. PendingTTL + 1 \cup {None}]
    /\ pc \in [Handler -> Steps]
    /\ job \in [Handler -> Job]
    /\ issued \subseteq Code
    /\ opened \in [Code -> Nat]

(* Before its window ends a name fails fewer times than the limit and the  *)
(* requests under way allow, for each of these passed the check before.    *)
FailuresBounded ==
    \A n \in Name : throttle[n] # None /\ throttle[n].age < Window =>
                        throttle[n].fails < MaxFails + Cardinality(Handler)

(* Nothing puts off the end of a lockout: a late failure does not start    *)
(* its window again, only a right password ends it early.                  *)
LockoutNotExtended ==
    [][\A n \in Name : Throttled(n) =>
           throttle'[n] = None \/ throttle'[n].age >= throttle[n].age]_vars

(* A recovery code opens one session, however many requests present it.    *)
CodeOnce == \A x \in Code : opened[x] <= 1

(* Once a ban has dropped the sessions, whoever still acts for the account *)
(* or signed in since had passed its check before: with the sessions they  *)
(* leave these are fewer than the handlers, for one of them set the ban.   *)
ActingSteps == {"clear", "has2fa", "challenge", "throttle", "code", "unthrottle", "drop",
                "session", "serve"}
Acting(n) == {h \in Handler : job[h].user = n /\ pc[h] \in ActingSteps}
Evicting(n) == \E h \in Handler : pc[h] = "evict" /\ job[h].user = n
BanEvicts ==
    \A n \in Name : users[n] # None /\ users[n].disabled /\ ~Evicting(n) =>
        Cardinality(SessionsOf(n)) + Cardinality(Acting(n)) < Cardinality(Handler)

=============================================================================
