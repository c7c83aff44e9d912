------------------------------ MODULE LoginProofs ------------------------------
(* What Login promises for any number of names, requests, sessions, codes  *)
(* and challenges, and any limits.                                         *)
EXTENDS Login, FiniteSetTheorems, TLAPS

(* A request that is under way knows its user. *)
WorkOK == /\ pc \in [Handler -> Steps]
          /\ job \in [Handler -> Job]
          /\ \A h \in Handler : pc[h] # "idle" => job[h].user \in Name

TypeInv == TypeOK /\ WorkOK

LEMMA NoJobType == NoJob \in Job
  BY DEF NoJob, Job

LEMMA WorkKept == WorkOK /\ UNCHANGED work => WorkOK'
  BY DEF WorkOK, work

LEMMA GotoType ==
    ASSUME WorkOK, NEW h \in Handler, NEW step \in Steps, pc[h] # "idle", Goto(h, step)
    PROVE  WorkOK'
  BY DEF WorkOK, Goto

LEMMA ReturnType == ASSUME WorkOK, NEW h \in Handler, Return(h) PROVE WorkOK'
  BY NoJobType DEF WorkOK, Return, Steps

LEMMA BeginType ==
    ASSUME WorkOK, NEW h \in Handler, NEW step \in Steps, NEW n \in Name, Begin(h, step, n)
    PROVE  WorkOK'
  <1>1. [NoJob EXCEPT !.user = n] \in Job /\ [NoJob EXCEPT !.user = n].user = n
    BY DEF NoJob, Job
  <1> QED BY <1>1 DEF WorkOK, Begin


LEMMA TypeInit == Init => TypeInv
  <1> SUFFICES ASSUME Init PROVE TypeInv
    OBVIOUS
  <1>1. NewAccount \in Account
    BY DEF NewAccount, Account
  <1>2. pc \in [Handler -> Steps] /\ job \in [Handler -> Job]
    BY NoJobType DEF Init, Steps
  <1> QED BY <1>1, <1>2 DEF Init, TypeInv, TypeOK, WorkOK

LEMMA TypeStep == TypeInv /\ [Next]_vars => TypeInv'
  <1> SUFFICES ASSUME TypeInv, [Next]_vars PROVE TypeInv'
    OBVIOUS
  <1>t. TypeOK /\ WorkOK
    BY DEF TypeInv
  <1>s. /\ {"password", "fail", "clear", "has2fa", "challenge", "account", "throttle", "code",
            "unthrottle", "drop", "session", "offer", "confirm", "disable", "unpend", "evict",
            "gate", "serve"} \subseteq Steps \ {"idle"}
    BY DEF Steps
  <1>k. TypeOK /\ UNCHANGED <<store, sessions, login, pending, opened>> /\ WorkOK' => TypeInv'
    BY DEF TypeInv, TypeOK, WorkOK, store, login
  \* Steps of one handler that change its own progress only.
  <1>1. ASSUME NEW h \in Handler, NEW n \in Name,
               Login(h, n) \/ StartEnroll(h, n) \/ DisableFactor(h, n) \/ UserByToken(h, n)
        PROVE  TypeInv'
    BY <1>1, <1>t, <1>s, <1>k, BeginType DEF Login, StartEnroll, DisableFactor, UserByToken
  <1>2. ASSUME NEW h \in Handler, NEW right \in BOOLEAN, Password(h, right) \/ CheckCode(h, right)
        PROVE  TypeInv'
    BY <1>2, <1>t, <1>s, <1>k, GotoType, ReturnType DEF Password, CheckCode
  <1>3. ASSUME NEW h \in Handler,
               SecondFactor(h) \/ FindAccount(h) \/ CheckThrottle(h) \/ NotConfirmed(h)
                 \/ Gate(h) \/ Served(h)
        PROVE  TypeInv'
    BY <1>3, <1>t, <1>s, <1>k, GotoType, ReturnType
       DEF SecondFactor, FindAccount, CheckThrottle, NotConfirmed, Gate, Served
  <1>4. ASSUME NEW h \in Handler, RecordFailure(h) PROVE TypeInv'
    <2>1. WorkOK'
      BY <1>4, <1>t, ReturnType DEF RecordFailure
    <2> DEFINE n == job[h].user
    <2>2. n \in Name /\ throttle[n] \in Fails \cup {None}
      BY <1>4, <1>t DEF RecordFailure, TypeOK, WorkOK
    <2>3. Failed(throttle[n]).fails <= MaxRecorded /\ throttle' = [throttle EXCEPT ![n] = Failed(throttle[n])]
      BY <1>4 DEF RecordFailure
    <2> HIDE DEF n
    <2>4. Failed(throttle[n]) \in Fails
      BY <2>2, <2>3, LimitsAssumption DEF Failed, Fails
    <2>5. throttle' \in [Name -> Fails \cup {None}]
      BY <2>3, <2>4, <1>t DEF TypeOK
    <2> QED BY <1>4, <1>t, <2>1, <2>5 DEF RecordFailure, TypeInv, TypeOK, WorkOK, store
  <1>5. ASSUME NEW h \in Handler, ClearThrottle(h) PROVE TypeInv'
    <2>1. WorkOK'
      BY <1>5, <1>t, <1>s, GotoType DEF ClearThrottle
    <2> QED BY <1>5, <1>t, <2>1 DEF ClearThrottle, TypeInv, TypeOK, WorkOK, store
  <1>6. ASSUME NEW h \in Handler, NEW c \in Challenge, Ask(h, c) PROVE TypeInv'
    <2>1. WorkOK'
      BY <1>6, <1>t, ReturnType DEF Ask
    <2>2. job[h].user \in Name
      BY <1>6, <1>t DEF Ask, WorkOK
    <2>3. [user |-> job[h].user, age |-> 0, tries |-> 0] \in Asked
      BY <2>2, LimitsAssumption DEF Asked
    <2>4. \A d \in Challenge : Fresh(d) \in Asked \cup {None}
      BY <1>t DEF Fresh, TypeOK
    <2>5. challenges' \in [Challenge -> Asked \cup {None}]
      BY <1>6, <2>3, <2>4 DEF Ask
    <2> QED BY <1>6, <1>t, <2>1, <2>5 DEF Ask, TypeInv, TypeOK, WorkOK, store
  <1>7. ASSUME NEW h \in Handler, NEW tk \in Token, NewSession(h, tk) PROVE TypeInv'
    <2>1. WorkOK'
      BY <1>7, <1>t, ReturnType DEF NewSession
    <2>2. job[h].user \in Name
      BY <1>7, <1>t DEF NewSession, WorkOK
    <2>3. [user |-> job[h].user, age |-> 0] \in Session
      BY <2>2, LimitsAssumption DEF Session
    <2>4. opened' \in [Code -> Nat]
      BY <1>7, <1>t DEF NewSession, TypeOK
    <2> QED BY <1>7, <1>t, <2>1, <2>3, <2>4 DEF NewSession, TypeInv, TypeOK, WorkOK, store, login
  <1>8. ASSUME NEW h \in Handler, NEW c \in Challenge, Verify(h, c) PROVE TypeInv'
    <2>0. challenges[c] \in Asked
      BY <1>8, <1>t DEF Verify, TypeOK
    <2>1. CASE Spent(c)
      <3>1. WorkOK'
        BY <1>8, <1>t, <2>1, WorkKept DEF Verify
      <3> QED BY <1>8, <1>t, <2>1, <3>1 DEF Verify, TypeInv, TypeOK, WorkOK, store
    <2>2. CASE ~Spent(c)
      <3>1. [user |-> challenges[c].user, challenge |-> c, code |-> None] \in Job
        BY <2>0 DEF Asked, Job
      <3>2. WorkOK'
        BY <1>8, <1>t, <2>0, <2>2, <3>1, <1>s DEF Verify, WorkOK, Asked
      <3>3. [challenges[c] EXCEPT !.tries = @ + 1] \in Asked
        BY <2>0, <2>2, LimitsAssumption DEF Spent, Asked
      <3>4. challenges' = [challenges EXCEPT ![c] = [challenges[c] EXCEPT !.tries = @ + 1]]
        BY <1>8, <2>2 DEF Verify
      <3> QED BY <1>8, <1>t, <3>2, <3>3, <3>4 DEF Verify, TypeInv, TypeOK, WorkOK, store
    <2> QED BY <2>1, <2>2
  <1>9. ASSUME NEW h \in Handler, NEW x \in Code, ConsumeRecovery(h, x) PROVE TypeInv'
    <2> DEFINE n == job[h].user
    <2>1. n \in Name /\ job[h] \in Job /\ users[n] \in Account
      BY <1>9, <1>t DEF ConsumeRecovery, User, TypeOK, WorkOK
    <2>2. [job[h] EXCEPT !.code = x] \in Job /\ [job[h] EXCEPT !.code = x].user = n
      BY <2>1 DEF Job
    <2>3. job' = [job EXCEPT ![h] = [job[h] EXCEPT !.code = x]]
      BY <1>9 DEF ConsumeRecovery
    <2>4. [users[n] EXCEPT !.codes = @ \ {x}] \in Account
      BY <2>1 DEF Account
    <2>5. users' = [users EXCEPT ![n] = [users[n] EXCEPT !.codes = @ \ {x}]]
      BY <1>9 DEF ConsumeRecovery
    <2>6. WorkOK'
      BY <1>9, <1>t, <1>s, <2>1, <2>2, <2>3 DEF ConsumeRecovery, WorkOK
    <2>7. UNCHANGED <<sessions, throttle, challenges, pending, issued, opened>>
      BY <1>9 DEF ConsumeRecovery, login
    <2> HIDE DEF n
    <2>8. users' \in [Name -> Account \cup {None}]
      BY <1>t, <2>1, <2>4, <2>5 DEF TypeOK
    <2> QED BY <1>t, <2>6, <2>7, <2>8 DEF TypeInv, TypeOK, WorkOK
  <1>10. ASSUME NEW h \in Handler, DropChallenge(h) PROVE TypeInv'
    <2>1. WorkOK'
      BY <1>10, <1>t, <1>s, GotoType DEF DropChallenge
    <2> QED BY <1>10, <1>t, <2>1 DEF DropChallenge, TypeInv, TypeOK, WorkOK, store
  <1>11. ASSUME NEW h \in Handler, Offer(h) \/ Unpend(h) PROVE TypeInv'
    <2>1. WorkOK'
      BY <1>11, <1>t, ReturnType DEF Offer, Unpend
    <2>2. pending' \in [Name -> 0 .. PendingTTL + 1 \cup {None}]
      BY <1>11, <1>t, LimitsAssumption DEF Offer, Unpend, TypeOK
    <2> QED BY <1>11, <1>t, <2>1, <2>2 DEF Offer, Unpend, TypeInv, TypeOK, WorkOK, store, login
  <1>12. ASSUME NEW h \in Handler, NEW n \in Name, Confirm(h, n) PROVE TypeInv'
    <2>1. WorkOK'
      BY <1>12, <1>t, <1>s, BeginType, WorkKept DEF Confirm
    <2> QED BY <1>12, <1>t, <2>1 DEF Confirm, TypeInv, TypeOK, WorkOK, store, login
  <1>13. ASSUME NEW h \in Handler, NEW new \in SUBSET (Code \ issued), Enable(h, new)
         PROVE  TypeInv'
    <2> DEFINE n == job[h].user
    <2>1. WorkOK'
      BY <1>13, <1>t, <1>s, GotoType DEF Enable
    <2>2. n \in Name /\ users[n] \in Account
      BY <1>13, <1>t DEF Enable, User, TypeOK, WorkOK
    <2>3. [[users[n] EXCEPT !.twofa = TRUE] EXCEPT !.codes = new] \in Account
      BY <2>2 DEF Account
    <2>4. users' = [users EXCEPT ![n] = [[users[n] EXCEPT !.twofa = TRUE] EXCEPT !.codes = new]]
      BY <1>13, <1>t, <2>2 DEF Enable, TypeOK
    <2>5. /\ UNCHANGED <<sessions, throttle, challenges, pending, opened>>
          /\ issued' = issued \cup new
      BY <1>13 DEF Enable, login
    <2> HIDE DEF n
    <2>6. users' \in [Name -> Account \cup {None}]
      BY <1>t, <2>2, <2>3, <2>4 DEF TypeOK
    <2>7. issued' \subseteq Code
      BY <1>t, <2>5 DEF TypeOK
    <2> QED BY <1>t, <2>1, <2>5, <2>6, <2>7 DEF TypeInv, TypeOK, WorkOK
  <1>14. ASSUME NEW h \in Handler, ClearFactor(h) PROVE TypeInv'
    <2> DEFINE n == job[h].user
               cleared == IF users[n] = None THEN None
                          ELSE [users[n] EXCEPT !.twofa = FALSE, !.codes = {}]
    <2>1. WorkOK'
      BY <1>14, <1>t, <1>s, GotoType DEF ClearFactor
    <2>2. n \in Name /\ users[n] \in Account \cup {None}
      BY <1>14, <1>t DEF ClearFactor, TypeOK, WorkOK
    <2>3. cleared \in Account \cup {None}
      BY <2>2 DEF Account
    <2>4. users' = [users EXCEPT ![n] = cleared]
      BY <1>14 DEF ClearFactor
    <2> HIDE DEF n, cleared
    <2> QED BY <1>14, <1>t, <2>1, <2>3, <2>4 DEF ClearFactor, TypeInv, TypeOK, WorkOK, login
  <1>15. ASSUME NEW h \in Handler, NEW n \in Name, NEW b \in BOOLEAN, SetDisabled(h, n, b)
         PROVE  TypeInv'
    <2>1. WorkOK'
      BY <1>15, <1>t, <1>s, BeginType, WorkKept DEF SetDisabled
    <2>2. users[n] \in Account
      BY <1>15, <1>t DEF SetDisabled, TypeOK
    <2>3. [users[n] EXCEPT !.disabled = b] \in Account
      BY <2>2 DEF Account
    <2>4. users' = [users EXCEPT ![n] = [users[n] EXCEPT !.disabled = b]]
      BY <1>15 DEF SetDisabled
    <2> QED BY <1>15, <1>t, <2>1, <2>3, <2>4 DEF SetDisabled, TypeInv, TypeOK, WorkOK, login
  <1>d. ASSUME NEW dropped, Drop(dropped) PROVE sessions' \in [Token -> Session \cup {None}]
    BY <1>d, <1>t DEF Drop, TypeOK
  <1>16. ASSUME NEW h \in Handler, Evict(h) PROVE TypeInv'
    <2>1. WorkOK'
      BY <1>16, <1>t, ReturnType DEF Evict
    <2> QED BY <1>16, <1>t, <1>d, <2>1 DEF Evict, TypeInv, TypeOK, WorkOK, store, login
  <1>17. ASSUME NEW n \in Name, CreateUser(n) \/ DeleteUser(n) PROVE TypeInv'
    <2>1. WorkOK'
      BY <1>17, <1>t, WorkKept DEF CreateUser, DeleteUser
    <2>2. NewAccount \in Account
      BY DEF NewAccount, Account
    <2> QED BY <1>17, <1>t, <2>1, <2>2
            DEF CreateUser, DeleteUser, TypeInv, TypeOK, WorkOK, login
  <1>18. ASSUME NEW tk \in Token, SignOut(tk) PROVE TypeInv'
    <2>1. WorkOK'
      BY <1>18, <1>t, WorkKept DEF SignOut
    <2>2. sessions' \in [Token -> Session \cup {None}]
      BY <1>18, <1>d DEF SignOut
    <2> QED BY <1>18, <1>t, <2>1, <2>2 DEF SignOut, TypeInv, TypeOK, WorkOK, store, login
  <1>19. ASSUME NEW h \in Handler, NEW tk \in Token, Identify(h, tk) PROVE TypeInv'
    <2>0. sessions[tk] \in Session
      BY <1>19, <1>t DEF Identify, TypeOK
    <2>1. WorkOK'
      BY <1>19, <1>t, <1>s, <2>0, BeginType, WorkKept DEF Identify, Session
    <2>2. sessions' \in [Token -> Session \cup {None}]
      BY <1>19, <1>t, <1>d DEF Identify, TypeOK
    <2> QED BY <1>19, <1>t, <2>1, <2>2 DEF Identify, TypeInv, TypeOK, WorkOK, store, login
  <1>20. CASE Tick
    <2>1. WorkOK'
      BY <1>20, <1>t, WorkKept DEF Tick
    <2>2. \A n \in Name : Older(throttle[n], Window + 1) \in Fails \cup {None}
      BY <1>t, LimitsAssumption DEF Older, Fails, TypeOK
    <2>3. \A c \in Challenge : Older(challenges[c], ChallengeTTL + 1) \in Asked \cup {None}
      BY <1>t, LimitsAssumption DEF Older, Asked, TypeOK
    <2>4. \A tk \in Token : Older(sessions[tk], SessionTTL) \in Session \cup {None}
      BY <1>t, LimitsAssumption DEF Older, Session, TypeOK
    <2>5. pending' \in [Name -> 0 .. PendingTTL + 1 \cup {None}]
      BY <1>20, <1>t, LimitsAssumption DEF Tick, TypeOK
    <2> QED BY <1>20, <1>t, <2>1, <2>2, <2>3, <2>4, <2>5
            DEF Tick, TypeInv, TypeOK, WorkOK, store
  <1>21. CASE UNCHANGED vars
    BY <1>21, <1>t, <1>k, WorkKept DEF vars
  <1>22. ASSUME NEW h \in Handler, LoginNext(h) PROVE TypeInv'
    BY <1>22, <1>1, <1>2, <1>3, <1>4, <1>5, <1>6, <1>7, <1>8, <1>9, <1>10 DEF LoginNext
  <1>23. ASSUME NEW h \in Handler, EnrollNext(h) PROVE TypeInv'
    BY <1>23, <1>1, <1>3, <1>11, <1>12, <1>13, <1>14 DEF EnrollNext
  <1>24. ASSUME NEW h \in Handler, RequestNext(h) PROVE TypeInv'
    BY <1>24, <1>1, <1>3, <1>15, <1>16, <1>19 DEF RequestNext
  <1> QED BY <1>17, <1>18, <1>20, <1>21, <1>22, <1>23, <1>24 DEF Next

(* Every variable keeps its type; no challenge is tried more than MaxTries *)
(* times.                                                                  *)
THEOREM TypeCorrect == Spec => []TypeOK
  <1>1. TypeInv => TypeOK
    BY DEF TypeInv
  <1> QED BY <1>1, TypeInit, TypeStep, PTL DEF Spec

-----------------------------------------------------------------------------
(* Nothing puts off the end of a lockout.  Three steps touch the throttle. *)
THEOREM LockoutsEnd == Spec => LockoutNotExtended
  <1>1. TypeInv /\ [Next]_vars =>
          \A n \in Name : Throttled(n) =>
             throttle'[n] = None \/ throttle'[n].age >= throttle[n].age
    <2> SUFFICES ASSUME TypeInv, [Next]_vars, NEW n \in Name, Throttled(n)
                 PROVE  throttle'[n] = None \/ throttle'[n].age >= throttle[n].age
      OBVIOUS
    <2>t. /\ throttle \in [Name -> Fails \cup {None}]
          /\ throttle[n] \in Fails /\ throttle[n].age \in Nat /\ throttle[n].age < Window
      BY LimitsAssumption DEF TypeInv, TypeOK, Throttled, Fails
    <2>0. throttle' = throttle => throttle'[n].age >= throttle[n].age
      BY <2>t
    <2>1. ASSUME NEW h \in Handler, RecordFailure(h)
          PROVE  throttle'[n].age >= throttle[n].age
      <3>1. throttle' = [throttle EXCEPT ![job[h].user] = Failed(throttle[job[h].user])]
        BY <2>1 DEF RecordFailure
      <3>2. Failed(throttle[n]).age = throttle[n].age
        BY <2>t, SentinelAssumption, LimitsAssumption DEF Failed
      <3> QED BY <2>t, <3>1, <3>2
    <2>2. ASSUME NEW h \in Handler, ClearThrottle(h)
          PROVE  throttle'[n] = None \/ throttle'[n] = throttle[n]
      BY <2>2, <2>t DEF ClearThrottle
    <2>3. CASE Tick
      <3>1. throttle'[n] = Older(throttle[n], Window + 1)
        BY <2>3 DEF Tick
      <3> QED BY <2>t, <3>1 DEF Older, Fails
    <2>4. ASSUME NEW h \in Handler, LoginNext(h) PROVE throttle' = throttle \/ RecordFailure(h)
                                                         \/ ClearThrottle(h)
      BY <2>4 DEF LoginNext, Login, Password, CheckCode, Ask, Verify, NewSession,
                  ConsumeRecovery, SecondFactor, FindAccount, CheckThrottle, DropChallenge, login
    <2>5. ASSUME NEW h \in Handler, EnrollNext(h) PROVE throttle' = throttle
      BY <2>5 DEF EnrollNext, StartEnroll, Confirm, DisableFactor, Enable, Offer, NotConfirmed,
                  ClearFactor, Unpend, login
    <2>6. ASSUME NEW h \in Handler, RequestNext(h) PROVE throttle' = throttle
      BY <2>6 DEF RequestNext, Identify, UserByToken, SetDisabled, Gate, Served, Evict, login
    <2>7. ASSUME NEW m \in Name, CreateUser(m) \/ DeleteUser(m) PROVE throttle' = throttle
      BY <2>7 DEF CreateUser, DeleteUser, login
    <2>8. ASSUME NEW tk \in Token, SignOut(tk) PROVE throttle' = throttle
      BY <2>8 DEF SignOut, login
    <2>9. CASE UNCHANGED vars
      BY <2>9, <2>0 DEF vars, login
    <2> QED BY <2>t, <2>0, <2>1, <2>2, <2>3, <2>4, <2>5, <2>6, <2>7, <2>8, <2>9 DEF Next
  <1> QED BY <1>1, TypeInit, TypeStep, PTL DEF Spec, LockoutNotExtended

-----------------------------------------------------------------------------
(* Recovery codes.  An issued code is held by one account, carried by one  *)
(* request that has taken it from there, or spent.                         *)

Holds(n, x) == users[n] # None /\ x \in users[n].codes

CodesOK ==
    /\ \A n, m \in Name, x \in Code : Holds(n, x) /\ Holds(m, x) => n = m
    /\ \A h, g \in Handler, x \in Code : job[h].code = x /\ job[g].code = x => h = g
    /\ \A n \in Name, h \in Handler, x \in Code : Holds(n, x) => job[h].code # x
    /\ \A n \in Name, x \in Code : Holds(n, x) => x \in issued /\ opened[x] = 0
    /\ \A h \in Handler, x \in Code : job[h].code = x => x \in issued /\ opened[x] = 0
    /\ \A x \in Code : x \notin issued => opened[x] = 0
    /\ CodeOnce

(* A step that issues and spends nothing, and at most forgets codes. *)
LEMMA CodesForgotten ==
    ASSUME CodesOK, issued' = issued, opened' = opened,
           \A n \in Name, x \in Code : Holds(n, x)' => Holds(n, x),
           \A h \in Handler, x \in Code : job'[h].code = x => job[h].code = x
    PROVE  CodesOK'
  BY DEF CodesOK, CodeOnce

LEMMA NoCode == NoJob.code = None /\ \A n : [NoJob EXCEPT !.user = n].code = None
  BY DEF NoJob

LEMMA WorkForgets ==
    ASSUME TypeInv, NEW h \in Handler,
           \/ \E step \in Steps : Goto(h, step) \/ \E n \in Name : Begin(h, step, n)
           \/ Return(h) \/ UNCHANGED work
    PROVE  \A g \in Handler, x \in Code : job'[g].code = x => job[g].code = x
  <1>1. job \in [Handler -> Job] /\ None \notin Code
    BY SentinelAssumption DEF TypeInv, WorkOK
  <1>2. ASSUME NEW j, j.code = None, job' = [job EXCEPT ![h] = j]
        PROVE  \A g \in Handler, x \in Code : job'[g].code = x => job[g].code = x
    BY <1>1, <1>2
  <1>3. ASSUME job' = job PROVE \A g \in Handler, x \in Code : job'[g].code = x => job[g].code = x
    BY <1>3
  <1>4. \/ job' = job \/ job' = [job EXCEPT ![h] = NoJob]
        \/ \E n \in Name : job' = [job EXCEPT ![h] = [NoJob EXCEPT !.user = n]]
    BY DEF Goto, Begin, Return, work
  <1> QED BY <1>2, <1>3, <1>4, NoCode

LEMMA CodesInit == Init => CodesOK
  <1> SUFFICES ASSUME Init PROVE CodesOK
    OBVIOUS
  <1>1. \A n \in Name, x \in Code : ~Holds(n, x)
    BY DEF Init, Holds, NewAccount
  <1>2. \A h \in Handler, x \in Code : job[h].code # x
    BY SentinelAssumption, NoCode DEF Init
  <1> QED BY <1>1, <1>2 DEF Init, CodesOK, CodeOnce

LEMMA CodesStep == TypeInv /\ CodesOK /\ [Next]_vars => CodesOK'
  <1> SUFFICES ASSUME TypeInv, CodesOK, [Next]_vars PROVE CodesOK'
    OBVIOUS
  <1>t. /\ users \in [Name -> Account \cup {None}] /\ job \in [Handler -> Job]
        /\ opened \in [Code -> Nat] /\ None \notin Code
        /\ \A h \in Handler : pc[h] # "idle" => job[h].user \in Name
    BY SentinelAssumption DEF TypeInv, TypeOK, WorkOK
  <1>s. /\ {"password", "fail", "clear", "has2fa", "challenge", "throttle", "code",
            "unthrottle", "drop", "session", "offer", "confirm", "disable", "unpend", "evict",
            "gate", "serve"} \subseteq Steps
    BY DEF Steps
  <1>k. UNCHANGED <<store, opened>>
          /\ (\A h \in Handler, x \in Code : job'[h].code = x => job[h].code = x) => CodesOK'
    BY CodesForgotten DEF store, Holds
  <1>j. job' = job => \A h \in Handler, x \in Code : job'[h].code = x => job[h].code = x
    OBVIOUS
  <1>1. ASSUME NEW h \in Handler, NEW n \in Name,
               Login(h, n) \/ StartEnroll(h, n) \/ DisableFactor(h, n) \/ UserByToken(h, n)
                 \/ Confirm(h, n)
        PROVE  CodesOK'
    BY <1>1, <1>s, <1>k, WorkForgets DEF Login, StartEnroll, DisableFactor, UserByToken, Confirm
  <1>2. ASSUME NEW h \in Handler, NEW right \in BOOLEAN, Password(h, right) \/ CheckCode(h, right)
        PROVE  CodesOK'
    BY <1>2, <1>s, <1>k, WorkForgets DEF Password, CheckCode
  <1>3. ASSUME NEW h \in Handler,
               SecondFactor(h) \/ FindAccount(h) \/ CheckThrottle(h) \/ NotConfirmed(h)
                 \/ Gate(h) \/ Served(h)
        PROVE  CodesOK'
    BY <1>3, <1>s, <1>k, WorkForgets
       DEF SecondFactor, FindAccount, CheckThrottle, NotConfirmed, Gate, Served
  <1>4. ASSUME NEW h \in Handler,
               RecordFailure(h) \/ ClearThrottle(h) \/ DropChallenge(h) \/ Offer(h) \/ Unpend(h)
                 \/ Evict(h)
        PROVE  CodesOK'
    BY <1>4, <1>s, <1>k, WorkForgets
       DEF RecordFailure, ClearThrottle, DropChallenge, Offer, Unpend, Evict
  <1>5. ASSUME NEW h \in Handler, NEW c \in Challenge, Ask(h, c) PROVE CodesOK'
    BY <1>5, <1>k, WorkForgets DEF Ask
  <1>6. ASSUME NEW h \in Handler, NEW c \in Challenge, Verify(h, c) PROVE CodesOK'
    <2>1. \A g \in Handler, x \in Code : job'[g].code = x => job[g].code = x
      BY <1>6, <1>t DEF Verify, work
    <2> QED BY <1>6, <1>k, <2>1 DEF Verify
  <1>7. ASSUME NEW h \in Handler, NEW tk \in Token, NewSession(h, tk) PROVE CodesOK'
    <2>1. /\ UNCHANGED <<users, issued>>
          /\ \A x \in Code : opened'[x] = IF x = job[h].code THEN opened[x] + 1 ELSE opened[x]
          /\ job' = [job EXCEPT ![h] = NoJob]
      BY <1>7, <1>t DEF NewSession, Return, store
    <2>2. \A n \in Name, x \in Code : Holds(n, x)' <=> Holds(n, x)
      BY <2>1 DEF Holds
    <2>3. \A g \in Handler, x \in Code : job'[g].code = x => job[g].code = x /\ g # h
      BY <1>t, <2>1, NoCode
    <2> QED BY <1>t, <2>1, <2>2, <2>3 DEF CodesOK, CodeOnce
  <1>8. ASSUME NEW h \in Handler, NEW x \in Code, ConsumeRecovery(h, x) PROVE CodesOK'
    <2> DEFINE n == job[h].user
    <2>1. n \in Name /\ Holds(n, x) /\ users[n] \in Account
      BY <1>8, <1>t DEF ConsumeRecovery, User, Holds
    <2>2. /\ UNCHANGED <<issued, opened>>
          /\ users' = [users EXCEPT ![n] = [users[n] EXCEPT !.codes = @ \ {x}]]
          /\ job' = [job EXCEPT ![h] = [job[h] EXCEPT !.code = x]]
      BY <1>8 DEF ConsumeRecovery
    <2> HIDE DEF n
    <2>3. \A m \in Name, y \in Code : Holds(m, y)' => Holds(m, y) /\ (m = n => y # x)
      BY <1>t, <2>1, <2>2 DEF Holds, Account
    <2>4. \A g \in Handler, y \in Code :
             job'[g].code = y => IF g = h THEN y = x ELSE job[g].code = y
      BY <1>t, <2>2 DEF Job
    <2> QED BY <1>t, <2>1, <2>2, <2>3, <2>4 DEF CodesOK, CodeOnce
  <1>9. ASSUME NEW h \in Handler, NEW new \in SUBSET (Code \ issued), Enable(h, new)
        PROVE  CodesOK'
    <2> DEFINE n == job[h].user
    <2>1. n \in Name /\ users[n] \in Account
      BY <1>9, <1>t DEF Enable, User
    <2>2. /\ UNCHANGED <<job, opened>> /\ issued' = issued \cup new
          /\ users' = [users EXCEPT ![n] = [[users[n] EXCEPT !.twofa = TRUE] EXCEPT !.codes = new]]
      BY <1>9, <1>t, <2>1 DEF Enable, Goto
    <2> HIDE DEF n
    <2>3. \A m \in Name, y \in Code : Holds(m, y)' => IF m = n THEN y \in new ELSE Holds(m, y)
      BY <1>t, <2>1, <2>2 DEF Holds, Account
    <2> QED BY <1>t, <2>2, <2>3 DEF CodesOK, CodeOnce
  <1>10. ASSUME NEW h \in Handler, ClearFactor(h) PROVE CodesOK'
    <2>1. \A m \in Name, y \in Code : Holds(m, y)' => Holds(m, y)
      BY <1>10, <1>t DEF ClearFactor, Holds, Account
    <2>2. UNCHANGED <<job, issued, opened>>
      BY <1>10 DEF ClearFactor, Goto
    <2> QED BY <1>j, <2>1, <2>2, CodesForgotten
  <1>11. ASSUME NEW h \in Handler, NEW n \in Name, NEW b \in BOOLEAN, SetDisabled(h, n, b)
         PROVE  CodesOK'
    <2>1. \A m \in Name, y \in Code : Holds(m, y)' => Holds(m, y)
      BY <1>11, <1>t DEF SetDisabled, Holds, Account
    <2>2. UNCHANGED <<issued, opened>>
      BY <1>11 DEF SetDisabled
    <2>3. \A g \in Handler, y \in Code : job'[g].code = y => job[g].code = y
      BY <1>11, <1>s, WorkForgets DEF SetDisabled
    <2> QED BY <2>1, <2>2, <2>3, CodesForgotten
  <1>12. ASSUME NEW n \in Name, CreateUser(n) \/ DeleteUser(n) PROVE CodesOK'
    <2>1. \A m \in Name, y \in Code : Holds(m, y)' => Holds(m, y)
      BY <1>12, <1>t DEF CreateUser, DeleteUser, Holds, NewAccount
    <2>2. UNCHANGED <<job, issued, opened>>
      BY <1>12 DEF CreateUser, DeleteUser, work
    <2> QED BY <1>j, <2>1, <2>2, CodesForgotten
  <1>13. ASSUME NEW tk \in Token, SignOut(tk) PROVE CodesOK'
    BY <1>13, <1>k, <1>j DEF SignOut, work
  <1>14. ASSUME NEW h \in Handler, NEW tk \in Token, Identify(h, tk) PROVE CodesOK'
    <2>1. sessions[tk] # None => sessions[tk].user \in Name
      BY DEF TypeInv, TypeOK, Session
    <2> QED BY <1>14, <1>s, <1>k, <2>1, WorkForgets DEF Identify
  <1>15. CASE Tick \/ UNCHANGED vars
    BY <1>15, <1>k, <1>j DEF Tick, vars, work
  <1>16. ASSUME NEW h \in Handler, LoginNext(h) PROVE CodesOK'
    BY <1>16, <1>1, <1>2, <1>3, <1>4, <1>5, <1>6, <1>7, <1>8 DEF LoginNext
  <1>17. ASSUME NEW h \in Handler, EnrollNext(h) PROVE CodesOK'
    BY <1>17, <1>1, <1>3, <1>4, <1>9, <1>10 DEF EnrollNext
  <1>18. ASSUME NEW h \in Handler, RequestNext(h) PROVE CodesOK'
    BY <1>18, <1>1, <1>3, <1>4, <1>11, <1>14 DEF RequestNext
  <1> QED BY <1>12, <1>13, <1>15, <1>16, <1>17, <1>18 DEF Next

(* No recovery code ever opens a second session. *)
THEOREM CodesOpenOnce == Spec => []CodeOnce
  <1>1. CodesOK => CodeOnce
    BY DEF CodesOK
  <1> QED BY <1>1, TypeInit, TypeStep, CodesInit, CodesStep, PTL DEF Spec

-----------------------------------------------------------------------------
(* Failures.  A request that passed the check counts towards the bound     *)
(* from then on: its failure moves one unit to the name's count.           *)

MayFail(n) == {h \in Handler : job[h].user = n /\ pc[h] \in {"password", "code", "fail"}}
InWindow(n) == throttle[n] # None /\ throttle[n].age < Window
FailInv ==
    \A n \in Name : InWindow(n) =>
        throttle[n].fails + Cardinality(MayFail(n)) < MaxFails + Cardinality(Handler)

LEMMA Subsets ==
    ASSUME NEW A, NEW B, IsFiniteSet(B), A \subseteq B
    PROVE  /\ IsFiniteSet(A) /\ Cardinality(A) \in Nat /\ Cardinality(B) \in Nat
           /\ Cardinality(A) <= Cardinality(B)
  BY FS_Subset, FS_CardinalityType

LEMMA Without ==
    ASSUME NEW A, NEW B, NEW h \in B, IsFiniteSet(B), A \subseteq B \ {h}
    PROVE  Cardinality(A) \in Nat /\ Cardinality(A) <= Cardinality(B) - 1
  <1>1. IsFiniteSet(B \ {h}) /\ Cardinality(B \ {h}) = Cardinality(B) - 1
    BY FS_RemoveElement
  <1> QED BY <1>1, Subsets

(* The set of handlers a step may only shrink: those at one of some steps. *)
At(n, S) == {h \in Handler : job[h].user = n /\ pc[h] \in S}

LEMMA WorkShrinks ==
    ASSUME TypeInv, NEW h \in Handler, NEW S, NEW step \in Steps,
           \/ Goto(h, step) /\ (step \in S => pc[h] \in S)
           \/ Return(h) /\ "idle" \notin S
           \/ (\E n \in Name : Begin(h, step, n)) /\ step \notin S
           \/ UNCHANGED work
    PROVE  \A n \in Name : At(n, S)' \subseteq At(n, S)
  <1>1. pc \in [Handler -> Steps] /\ job \in [Handler -> Job]
    BY DEF TypeInv, WorkOK
  <1> QED BY <1>1 DEF At, Goto, Return, Begin, work

LEMMA FailuresKept ==
    ASSUME TypeInv, FailInv, NEW n \in Name,
           MayFail(n)' \subseteq MayFail(n),
           InWindow(n)' => InWindow(n) /\ throttle'[n].fails = throttle[n].fails
    PROVE  InWindow(n)' => throttle'[n].fails + Cardinality(MayFail(n)')
                             < MaxFails + Cardinality(Handler)
  <1> SUFFICES ASSUME InWindow(n)'
               PROVE  throttle'[n].fails + Cardinality(MayFail(n)')
                        < MaxFails + Cardinality(Handler)
    OBVIOUS
  <1>1. throttle[n].fails \in Nat /\ throttle'[n].fails = throttle[n].fails
    BY LimitsAssumption DEF TypeInv, TypeOK, InWindow, Fails
  <1>2. MayFail(n) \subseteq Handler
    BY DEF MayFail
  <1>3. /\ Cardinality(MayFail(n)') \in Nat /\ Cardinality(MayFail(n)) \in Nat
        /\ Cardinality(MayFail(n)') <= Cardinality(MayFail(n)) /\ Cardinality(Handler) \in Nat
    BY <1>2, Subsets, FiniteAssumption
  <1>4. throttle[n].fails + Cardinality(MayFail(n)) < MaxFails + Cardinality(Handler)
    BY DEF FailInv
  <1> QED BY <1>1, <1>3, <1>4, LimitsAssumption

LEMMA FailStep == TypeInv /\ FailInv /\ [Next]_vars => FailInv'
  <1> SUFFICES ASSUME TypeInv, FailInv, [Next]_vars, NEW n \in Name
               PROVE  InWindow(n)' => throttle'[n].fails + Cardinality(MayFail(n)')
                                        < MaxFails + Cardinality(Handler)
    BY DEF FailInv
  <1> DEFINE Bounded == InWindow(n)' => throttle'[n].fails + Cardinality(MayFail(n)')
                                          < MaxFails + Cardinality(Handler)
             S == {"password", "code", "fail"}
  <1>t. /\ throttle \in [Name -> Fails \cup {None}]
        /\ pc \in [Handler -> Steps] /\ job \in [Handler -> Job]
        /\ \A h \in Handler : pc[h] # "idle" => job[h].user \in Name
    BY DEF TypeInv, TypeOK, WorkOK
  <1>s. /\ {"clear", "has2fa", "challenge", "throttle", "unthrottle", "drop", "session", "offer",
            "confirm", "disable", "unpend", "evict", "gate", "serve"} \subseteq Steps \ S
        /\ S \subseteq Steps /\ "idle" \notin S
    BY DEF Steps
  <1>k. throttle' = throttle /\ MayFail(n)' \subseteq MayFail(n) => Bounded
    BY FailuresKept DEF InWindow
  <1>w. ASSUME NEW h \in Handler, NEW step \in Steps,
               \/ Goto(h, step) /\ (step \in S => pc[h] \in S)
               \/ Return(h)
               \/ (\E m \in Name : Begin(h, step, m)) /\ step \notin S
               \/ UNCHANGED work
        PROVE  MayFail(n)' \subseteq MayFail(n)
    <2>1. MayFail(n) = At(n, S) /\ MayFail(n)' = At(n, S)'
      BY DEF At, MayFail
    <2> HIDE DEF S
    <2>2. At(n, S)' \subseteq At(n, S)
      BY <1>w, <1>s, WorkShrinks
    <2> QED BY <2>1, <2>2
  \* A request that passes the check adds one unit below the limit.
  <1>p. ASSUME NEW h \in Handler, ~Throttled(n), throttle' = throttle PROVE Bounded
    <2> SUFFICES ASSUME InWindow(n)'
                 PROVE  throttle'[n].fails + Cardinality(MayFail(n)')
                          < MaxFails + Cardinality(Handler)
      OBVIOUS
    <2>1. throttle'[n].fails \in Nat /\ throttle'[n].fails < MaxFails
      BY <1>p, <1>t, LimitsAssumption DEF InWindow, Throttled, Fails
    <2>2. /\ Cardinality(MayFail(n)') \in Nat /\ Cardinality(Handler) \in Nat
          /\ Cardinality(MayFail(n)') <= Cardinality(Handler)
      BY Subsets, FiniteAssumption DEF MayFail
    <2> QED BY <2>1, <2>2, LimitsAssumption
  <1>1. ASSUME NEW h \in Handler, NEW m \in Name, Login(h, m) PROVE Bounded
    <2>1. CASE m = n
      BY <1>1, <1>p, <2>1 DEF Login, login
    <2>2. CASE m # n
      <3>1. MayFail(n)' \subseteq MayFail(n)
        <4>1. job'[h].user = m
          BY <1>1, <1>t DEF Login, Begin, NoJob
        <4> QED BY <1>1, <1>t, <2>2, <4>1 DEF Login, Begin, MayFail
      <3> QED BY <1>1, <1>k, <3>1 DEF Login, login
    <2> QED BY <2>1, <2>2
  <1>2. ASSUME NEW h \in Handler, CheckThrottle(h) PROVE Bounded
    <2>0. throttle' = throttle
      BY <1>2 DEF CheckThrottle, login
    <2>1. CASE Throttled(job[h].user)
      BY <1>2, <1>k, <1>w, <1>s, <2>0, <2>1 DEF CheckThrottle
    <2>2. CASE ~Throttled(job[h].user) /\ job[h].user = n
      BY <1>p, <2>0, <2>2
    <2>3. CASE ~Throttled(job[h].user) /\ job[h].user # n
      <3>1. MayFail(n)' \subseteq MayFail(n)
        BY <1>2, <1>t, <2>3 DEF CheckThrottle, Goto, MayFail
      <3> QED BY <1>k, <2>0, <3>1
    <2> QED BY <2>1, <2>2, <2>3
  <1>3. ASSUME NEW h \in Handler, RecordFailure(h) PROVE Bounded
    <2>1. /\ pc[h] = "fail" /\ pc'[h] = "idle" /\ \A g \in Handler \ {h} : pc'[g] = pc[g]
          /\ \A g \in Handler \ {h} : job'[g] = job[g]
          /\ throttle' = [throttle EXCEPT ![job[h].user] = Failed(throttle[job[h].user])]
      BY <1>3, <1>t DEF RecordFailure, Return
    <2>2. CASE job[h].user # n
      <3>1. throttle'[n] = throttle[n]
        BY <1>t, <2>1, <2>2
      <3>2. MayFail(n)' \subseteq MayFail(n)
        BY <2>1 DEF MayFail
      <3> QED BY <3>1, <3>2, FailuresKept DEF InWindow
    <2>3. CASE job[h].user = n
      <3> SUFFICES ASSUME InWindow(n)'
                   PROVE  throttle'[n].fails + Cardinality(MayFail(n)')
                            < MaxFails + Cardinality(Handler)
        OBVIOUS
      <3>1. throttle'[n] = Failed(throttle[n]) /\ h \in MayFail(n)
        BY <1>t, <2>1, <2>3 DEF MayFail
      <3>2. MayFail(n)' \subseteq MayFail(n) \ {h} /\ MayFail(n) \subseteq Handler
        BY <2>1 DEF MayFail
      <3>3. IsFiniteSet(MayFail(n)) /\ Cardinality(MayFail(n)) \in Nat
              /\ Cardinality(MayFail(n)) <= Cardinality(Handler) /\ Cardinality(Handler) \in Nat
        BY <3>2, Subsets, FiniteAssumption
      <3>4. /\ Cardinality(MayFail(n)') \in Nat
            /\ Cardinality(MayFail(n)') <= Cardinality(MayFail(n)) - 1
        BY <3>1, <3>2, <3>3, Without
      <3>5. CASE throttle[n] = None \/ throttle[n].age > Window
        <4>1. throttle'[n].fails = 1
          BY <3>1, <3>5 DEF Failed
        <4> QED BY <3>3, <3>4, <4>1, LimitsAssumption
      <3>6. CASE throttle[n] # None /\ ~(throttle[n].age > Window)
        <4>1. throttle'[n].fails = throttle[n].fails + 1 /\ throttle'[n].age = throttle[n].age
          BY <3>1, <3>6 DEF Failed
        <4>2. InWindow(n) /\ throttle[n].fails \in Nat
          BY <1>t, <3>6, <4>1, LimitsAssumption DEF InWindow, Fails
        <4>3. throttle[n].fails + Cardinality(MayFail(n)) < MaxFails + Cardinality(Handler)
          BY <4>2 DEF FailInv
        <4> QED BY <3>3, <3>4, <4>1, <4>2, <4>3, LimitsAssumption
      <3> QED BY <3>5, <3>6
    <2> QED BY <2>2, <2>3
  <1>4. ASSUME NEW h \in Handler, ClearThrottle(h) PROVE Bounded
    <2>1. MayFail(n)' \subseteq MayFail(n)
      BY <1>4, <1>w, <1>s DEF ClearThrottle
    <2>2. throttle'[n] = None \/ throttle'[n] = throttle[n]
      BY <1>4, <1>t DEF ClearThrottle
    <2> QED BY <2>1, <2>2, FailuresKept DEF InWindow
  <1>5. ASSUME Tick PROVE Bounded
    <2>1. MayFail(n)' \subseteq MayFail(n)
      BY <1>5 DEF Tick, work, MayFail
    <2>2. throttle'[n] = Older(throttle[n], Window + 1)
      BY <1>5 DEF Tick
    <2>3. InWindow(n)' => InWindow(n) /\ throttle'[n].fails = throttle[n].fails
      BY <1>t, <2>2, LimitsAssumption DEF InWindow, Older, Fails
    <2> QED BY <2>1, <2>3, FailuresKept
  <1>6. ASSUME NEW h \in Handler, NEW m \in Name,
               StartEnroll(h, m) \/ DisableFactor(h, m) \/ UserByToken(h, m) \/ Confirm(h, m)
        PROVE  Bounded
    BY <1>6, <1>k, <1>w, <1>s DEF StartEnroll, DisableFactor, UserByToken, Confirm, login
  <1>7. ASSUME NEW h \in Handler, NEW right \in BOOLEAN, Password(h, right) \/ CheckCode(h, right)
        PROVE  Bounded
    BY <1>7, <1>k, <1>w, <1>s DEF Password, CheckCode, login
  <1>8. ASSUME NEW h \in Handler,
               SecondFactor(h) \/ FindAccount(h) \/ NotConfirmed(h) \/ Gate(h) \/ Served(h)
        PROVE  Bounded
    BY <1>8, <1>k, <1>w, <1>s DEF SecondFactor, FindAccount, NotConfirmed, Gate, Served, login
  <1>9. ASSUME NEW h \in Handler,
               DropChallenge(h) \/ Offer(h) \/ Unpend(h) \/ Evict(h) \/ ClearFactor(h)
        PROVE  Bounded
    BY <1>9, <1>k, <1>w, <1>s DEF DropChallenge, Offer, Unpend, Evict, ClearFactor, login
  <1>10. ASSUME NEW h \in Handler, NEW c \in Challenge, Ask(h, c) PROVE Bounded
    BY <1>10, <1>k, <1>w, <1>s DEF Ask
  <1>11. ASSUME NEW h \in Handler, NEW c \in Challenge, Verify(h, c) PROVE Bounded
    <2>1. MayFail(n)' \subseteq MayFail(n)
      BY <1>11, <1>t DEF Verify, work, MayFail
    <2> QED BY <1>11, <1>k, <2>1 DEF Verify
  <1>12. ASSUME NEW h \in Handler, NEW tk \in Token, NewSession(h, tk) \/ Identify(h, tk)
         PROVE  Bounded
    <2>1. sessions[tk] # None => sessions[tk].user \in Name
      BY DEF TypeInv, TypeOK, Session
    <2> QED BY <1>12, <1>k, <1>w, <1>s, <2>1 DEF NewSession, Identify, login
  <1>13. ASSUME NEW h \in Handler, NEW x \in Code, ConsumeRecovery(h, x) PROVE Bounded
    <2>1. MayFail(n)' \subseteq MayFail(n)
      <3>1. \A g \in Handler : job'[g].user = job[g].user
        BY <1>13, <1>t DEF ConsumeRecovery, Job
      <3> QED BY <1>13, <1>t, <3>1 DEF ConsumeRecovery, MayFail
    <2> QED BY <1>13, <1>k, <2>1 DEF ConsumeRecovery, login
  <1>14. ASSUME NEW h \in Handler, NEW new, Enable(h, new) PROVE Bounded
    BY <1>14, <1>k, <1>w, <1>s DEF Enable, login
  <1>15. ASSUME NEW h \in Handler, NEW m \in Name, NEW b \in BOOLEAN, SetDisabled(h, m, b)
         PROVE  Bounded
    BY <1>15, <1>k, <1>w, <1>s DEF SetDisabled, login
  <1>16. ASSUME UNCHANGED <<throttle, work>> PROVE Bounded
    BY <1>16, <1>k DEF work, MayFail
  <1>17. ASSUME NEW m \in Name, CreateUser(m) \/ DeleteUser(m) PROVE Bounded
    BY <1>17, <1>16 DEF CreateUser, DeleteUser, login
  <1>18. ASSUME NEW tk \in Token, SignOut(tk) PROVE Bounded
    BY <1>18, <1>16 DEF SignOut, login
  <1>19. ASSUME UNCHANGED vars PROVE Bounded
    BY <1>19, <1>16 DEF vars, login
  <1> HIDE DEF Bounded
  <1>20. ASSUME NEW h \in Handler, LoginNext(h) PROVE Bounded
    BY <1>20, <1>1, <1>2, <1>3, <1>4, <1>7, <1>8, <1>9, <1>10, <1>11, <1>12, <1>13 DEF LoginNext
  <1>21. ASSUME NEW h \in Handler, EnrollNext(h) PROVE Bounded
    BY <1>21, <1>6, <1>8, <1>9, <1>14 DEF EnrollNext
  <1>22. ASSUME NEW h \in Handler, RequestNext(h) PROVE Bounded
    BY <1>22, <1>6, <1>8, <1>9, <1>12, <1>15 DEF RequestNext
  <1>23. Bounded
    BY <1>5, <1>17, <1>18, <1>19, <1>20, <1>21, <1>22 DEF Next
  <1> QED BY <1>23 DEF Bounded

(* In a window no name fails more often than the limit and the requests    *)
(* under way allow.                                                        *)
THEOREM FailuresAreBounded == Spec => []FailuresBounded
  <1>1. Init => FailInv
    BY DEF Init, FailInv, InWindow
  <1>2. TypeInv /\ FailInv => FailuresBounded
    <2> SUFFICES ASSUME TypeInv, FailInv, NEW n \in Name, InWindow(n)
                 PROVE  throttle[n].fails < MaxFails + Cardinality(Handler)
      BY DEF FailuresBounded, InWindow
    <2>1. throttle[n].fails \in Nat
      BY LimitsAssumption DEF TypeInv, TypeOK, InWindow, Fails
    <2>2. Cardinality(MayFail(n)) \in Nat /\ Cardinality(Handler) \in Nat
      BY Subsets, FiniteAssumption DEF MayFail
    <2>3. throttle[n].fails + Cardinality(MayFail(n)) < MaxFails + Cardinality(Handler)
      BY DEF FailInv
    <2> QED BY <2>1, <2>2, <2>3, LimitsAssumption
  <1> QED BY <1>1, <1>2, TypeInit, TypeStep, FailStep, PTL DEF Spec

-----------------------------------------------------------------------------
(* Bans.  A disabled account gains no session and nobody who acts for it,  *)
(* but by a request that acts already and leaves a session in its place.   *)

Banned(n) == users[n] # None /\ users[n].disabled /\ ~Evicting(n)

LEMMA BanKept ==
    ASSUME TypeInv, BanEvicts, NEW n \in Name, Banned(n)' => Banned(n),
           SessionsOf(n)' \subseteq SessionsOf(n), Acting(n)' \subseteq Acting(n)
    PROVE  Banned(n)' => Cardinality(SessionsOf(n)') + Cardinality(Acting(n)')
                           < Cardinality(Handler)
  <1> SUFFICES ASSUME Banned(n)'
               PROVE  Cardinality(SessionsOf(n)') + Cardinality(Acting(n)') < Cardinality(Handler)
    OBVIOUS
  <1>1. SessionsOf(n) \subseteq Token /\ Acting(n) \subseteq Handler
    BY DEF SessionsOf, Acting
  <1>2. /\ Cardinality(SessionsOf(n)) \in Nat /\ Cardinality(SessionsOf(n)') \in Nat
        /\ Cardinality(SessionsOf(n)') <= Cardinality(SessionsOf(n))
        /\ Cardinality(Acting(n)) \in Nat /\ Cardinality(Acting(n)') \in Nat
        /\ Cardinality(Acting(n)') <= Cardinality(Acting(n)) /\ Cardinality(Handler) \in Nat
    BY <1>1, Subsets, FiniteAssumption
  <1>3. Cardinality(SessionsOf(n)) + Cardinality(Acting(n)) < Cardinality(Handler)
    BY DEF BanEvicts, Banned
  <1> QED BY <1>2, <1>3

LEMMA BanStep == TypeInv /\ BanEvicts /\ [Next]_vars => BanEvicts'
  <1> SUFFICES ASSUME TypeInv, BanEvicts, [Next]_vars, NEW n \in Name
               PROVE  Banned(n)' => Cardinality(SessionsOf(n)') + Cardinality(Acting(n)')
                                      < Cardinality(Handler)
    BY DEF BanEvicts, Banned
  <1> DEFINE Bounded == Banned(n)' => Cardinality(SessionsOf(n)') + Cardinality(Acting(n)')
                                        < Cardinality(Handler)
  <1>t. /\ users \in [Name -> Account \cup {None}] /\ sessions \in [Token -> Session \cup {None}]
        /\ pc \in [Handler -> Steps] /\ job \in [Handler -> Job]
        /\ \A h \in Handler : pc[h] # "idle" => job[h].user \in Name
    BY DEF TypeInv, TypeOK, WorkOK
  <1>s. /\ {"password", "fail", "account", "offer", "confirm", "disable", "unpend", "evict",
            "gate"} \subseteq Steps \ ActingSteps
        /\ ActingSteps \subseteq Steps /\ "idle" \notin ActingSteps /\ "evict" \notin ActingSteps
    BY DEF Steps, ActingSteps
  \* What a step of a handler that is not evicting does to the two sets.
  <1>w. ASSUME NEW h \in Handler, NEW step \in Steps, pc[h] # "evict",
               \/ Goto(h, step) /\ (step \in ActingSteps => pc[h] \in ActingSteps)
               \/ Return(h)
               \/ (\E m \in Name : Begin(h, step, m)) /\ step \notin ActingSteps
               \/ UNCHANGED work
        PROVE  Acting(n)' \subseteq Acting(n) /\ (Evicting(n) => Evicting(n)')
    <2>1. Acting(n) = At(n, ActingSteps) /\ Acting(n)' = At(n, ActingSteps)'
      BY DEF At, Acting
    <2>2. At(n, ActingSteps)' \subseteq At(n, ActingSteps)
      <3> DEFINE S == ActingSteps
      <3>1. "idle" \notin S
        BY <1>s
      <3> HIDE DEF S
      <3>2. At(n, S)' \subseteq At(n, S)
        BY <1>w, <3>1, WorkShrinks DEF S
      <3> QED BY <3>2 DEF S
    <2>3. \A g \in Handler : g # h => pc'[g] = pc[g] /\ job'[g] = job[g]
      BY <1>w, <1>t DEF Goto, Return, Begin, work
    <2>4. Evicting(n) => Evicting(n)'
      BY <1>w, <2>3 DEF Evicting
    <2> QED BY <2>1, <2>2, <2>4
  <1>k. ASSUME Acting(n)' \subseteq Acting(n), Evicting(n) => Evicting(n)',
               SessionsOf(n)' \subseteq SessionsOf(n),
               users'[n] # None /\ users'[n].disabled => users[n] # None /\ users[n].disabled
        PROVE  Bounded
    BY <1>k, BanKept DEF Banned
  <1>u. ASSUME UNCHANGED <<users, sessions>>, Acting(n)' \subseteq Acting(n),
               Evicting(n) => Evicting(n)'
        PROVE  Bounded
    BY <1>u, <1>k DEF SessionsOf
  <1>d. ASSUME NEW dropped, Drop(dropped) PROVE SessionsOf(n)' \subseteq SessionsOf(n)
    BY <1>d DEF Drop, SessionsOf
  \* The steps that lead into the set look at the account first.
  <1>p. ASSUME NEW h \in Handler, NEW step \in Steps, Goto(h, step), pc[h] # "evict",
               UNCHANGED <<users, sessions>>, User(h) = None \/ ~User(h).disabled
        PROVE  Bounded
    <2>1. CASE job[h].user = n
      BY <1>p, <2>1 DEF User, Banned
    <2>2. CASE job[h].user # n
      <3>1. /\ \A g \in Handler : g # h => pc'[g] = pc[g]
            /\ job' = job
        BY <1>p, <1>t DEF Goto
      <3>2. Acting(n)' \subseteq Acting(n) /\ (Evicting(n) => Evicting(n)')
        BY <2>2, <3>1 DEF Acting, Evicting
      <3> QED BY <1>p, <1>u, <3>2
    <2> QED BY <2>1, <2>2
  <1>1. ASSUME NEW h \in Handler, NEW right \in BOOLEAN, Password(h, right) PROVE Bounded
    <2>1. UNCHANGED <<users, sessions>> /\ pc[h] = "password"
      BY <1>1 DEF Password, store
    <2>2. CASE Return(h)
      BY <1>u, <1>w, <1>s, <2>1, <2>2
    <2>3. CASE /\ User(h) = None \/ ~User(h).disabled
               /\ Goto(h, "clear") \/ Goto(h, "fail")
      BY <1>p, <1>s, <2>1, <2>3 DEF Steps
    <2> QED BY <1>1, <2>2, <2>3 DEF Password
  <1>2. ASSUME NEW h \in Handler, FindAccount(h) PROVE Bounded
    <2>1. UNCHANGED <<users, sessions>> /\ pc[h] = "account"
      BY <1>2 DEF FindAccount, store
    <2>2. CASE Return(h)
      BY <1>u, <1>w, <1>s, <2>1, <2>2
    <2>3. CASE Goto(h, "throttle") /\ Acceptable(User(h))
      BY <1>p, <2>1, <2>3 DEF Steps, Acceptable
    <2> QED BY <1>2, <2>2, <2>3 DEF FindAccount
  <1>3. ASSUME NEW h \in Handler, Gate(h) PROVE Bounded
    <2>1. UNCHANGED <<users, sessions>> /\ pc[h] = "gate"
      BY <1>3 DEF Gate, store
    <2>2. CASE Return(h)
      BY <1>u, <1>w, <1>s, <2>1, <2>2
    <2>3. CASE Goto(h, "serve") /\ (User(h) = None \/ ~User(h).disabled)
      BY <1>p, <2>1, <2>3 DEF Steps
    <2> QED BY <1>3, <2>2, <2>3 DEF Gate
  <1>4. ASSUME NEW h \in Handler, NEW tk \in Token, NewSession(h, tk) PROVE Bounded
    <2>1. /\ pc[h] = "session" /\ users' = users /\ pc'[h] = "idle"
          /\ \A g \in Handler : g # h => pc'[g] = pc[g] /\ job'[g] = job[g]
          /\ sessions[tk] = None
          /\ sessions' = [sessions EXCEPT ![tk] = [user |-> job[h].user, age |-> 0]]
      BY <1>4, <1>t DEF NewSession, Return, store
    <2>2. Evicting(n) => Evicting(n)'
      BY <2>1 DEF Evicting
    <2>3. CASE job[h].user # n
      <3>1. Acting(n)' \subseteq Acting(n)
        BY <2>1, <1>s DEF Acting
      <3>2. SessionsOf(n)' \subseteq SessionsOf(n)
        BY <1>t, <2>1, <2>3 DEF SessionsOf
      <3> QED BY <1>k, <2>1, <2>2, <3>1, <3>2
    <2>4. CASE job[h].user = n
      <3> SUFFICES ASSUME Banned(n)'
                   PROVE  Cardinality(SessionsOf(n)') + Cardinality(Acting(n)')
                            < Cardinality(Handler)
        OBVIOUS
      <3>1. /\ h \in Acting(n) /\ Acting(n)' \subseteq Acting(n) \ {h}
            /\ Acting(n) \subseteq Handler
        BY <2>1, <2>4, <1>s DEF Acting, ActingSteps
      <3>2. /\ SessionsOf(n)' \subseteq SessionsOf(n) \cup {tk} /\ tk \notin SessionsOf(n)
            /\ SessionsOf(n) \subseteq Token
        BY <1>t, <2>1 DEF SessionsOf
      <3>3. /\ Cardinality(Acting(n)) \in Nat /\ Cardinality(Acting(n)') \in Nat
            /\ Cardinality(Acting(n)') <= Cardinality(Acting(n)) - 1
            /\ Cardinality(Handler) \in Nat
        BY <3>1, Subsets, Without, FiniteAssumption
      <3>4. /\ Cardinality(SessionsOf(n)) \in Nat /\ Cardinality(SessionsOf(n)') \in Nat
            /\ Cardinality(SessionsOf(n)') <= Cardinality(SessionsOf(n)) + 1
        <4>1. IsFiniteSet(SessionsOf(n)) /\ Cardinality(SessionsOf(n)) \in Nat
          BY <3>2, Subsets, FiniteAssumption
        <4>2. /\ IsFiniteSet(SessionsOf(n) \cup {tk})
              /\ Cardinality(SessionsOf(n) \cup {tk}) = Cardinality(SessionsOf(n)) + 1
          BY <3>2, <4>1, FS_AddElement
        <4>3. /\ Cardinality(SessionsOf(n)') \in Nat
              /\ Cardinality(SessionsOf(n)') <= Cardinality(SessionsOf(n) \cup {tk})
          BY <3>2, <4>2, Subsets
        <4> QED BY <4>1, <4>2, <4>3
      <3>5. Cardinality(SessionsOf(n)) + Cardinality(Acting(n)) < Cardinality(Handler)
        BY <2>1, <2>2 DEF BanEvicts, Banned
      <3> QED BY <3>3, <3>4, <3>5
    <2> QED BY <2>3, <2>4
  <1>5. ASSUME NEW h \in Handler, NEW m \in Name, NEW b \in BOOLEAN, SetDisabled(h, m, b)
        PROVE  Bounded
    <2>1. /\ users' = [users EXCEPT ![m] = [users[m] EXCEPT !.disabled = b]]
          /\ sessions' = sessions /\ pc[h] = "idle" /\ users[m] \in Account
          /\ IF b THEN Begin(h, "evict", m) ELSE UNCHANGED work
      BY <1>5, <1>t DEF SetDisabled, Begin
    <2>2. Acting(n)' \subseteq Acting(n) /\ (Evicting(n) => Evicting(n)')
      BY <1>w, <1>s, <2>1
    <2>3. CASE m # n \/ ~b
      <3>1. users'[n] # None /\ users'[n].disabled => users[n] # None /\ users[n].disabled
        BY <1>t, <2>1, <2>3 DEF Account
      <3> QED BY <1>k, <2>1, <2>2, <3>1 DEF SessionsOf
    <2>4. CASE m = n /\ b
      <3>1. pc'[h] = "evict" /\ job'[h].user = n
        BY <1>t, <2>1, <2>4 DEF Begin, NoJob
      <3>2. Evicting(n)'
        BY <3>1 DEF Evicting
      <3> QED BY <3>2 DEF Banned
    <2> QED BY <2>3, <2>4
  <1>6. ASSUME NEW h \in Handler, Evict(h) PROVE Bounded
    <2>1. /\ pc[h] = "evict" /\ users' = users /\ pc'[h] = "idle" /\ Drop(SessionsOf(job[h].user))
          /\ \A g \in Handler : g # h => pc'[g] = pc[g] /\ job'[g] = job[g]
      BY <1>6, <1>t DEF Evict, Return, store
    <2>2. Acting(n)' \subseteq Handler \ {h} /\ Acting(n)' \subseteq Acting(n)
      BY <2>1, <1>s DEF Acting
    <2>3. CASE job[h].user # n
      <3>1. Evicting(n) => Evicting(n)'
        BY <2>1, <2>3 DEF Evicting
      <3> QED BY <1>d, <1>k, <2>1, <2>2, <3>1
    <2>4. CASE job[h].user = n
      <3>1. SessionsOf(n)' = {}
        BY <2>1, <2>4 DEF Drop, SessionsOf
      <3>2. /\ Cardinality(Acting(n)') \in Nat /\ Cardinality(Handler) \in Nat
            /\ Cardinality(Acting(n)') <= Cardinality(Handler) - 1
        BY <2>2, Without, Subsets, FiniteAssumption
      <3>3. Cardinality(SessionsOf(n)') = 0
        BY <3>1, FS_EmptySet
      <3> QED BY <3>2, <3>3
    <2> QED BY <2>3, <2>4
  <1>7. ASSUME NEW h \in Handler, NEW m \in Name,
               Login(h, m) \/ StartEnroll(h, m) \/ DisableFactor(h, m) \/ UserByToken(h, m)
                 \/ Confirm(h, m)
        PROVE  Bounded
    <2>1. /\ UNCHANGED <<users, sessions>>
          /\ UNCHANGED work \/ \E step \in Steps \ ActingSteps : Begin(h, step, m)
      BY <1>7, <1>s DEF Login, StartEnroll, DisableFactor, UserByToken, Confirm, store
    <2>2. pc[h] = "idle"
      BY <1>7 DEF Login, StartEnroll, DisableFactor, UserByToken, Confirm, Begin
    <2> QED BY <1>u, <1>w, <1>s, <2>1, <2>2
  <1>8. ASSUME NEW h \in Handler, NEW right \in BOOLEAN,
               CheckCode(h, right) \/ SecondFactor(h) \/ CheckThrottle(h) \/ ClearThrottle(h)
                 \/ DropChallenge(h)
        PROVE  Bounded
    BY <1>8, <1>u, <1>w, <1>s
       DEF CheckCode, SecondFactor, CheckThrottle, ClearThrottle, DropChallenge, store,
           ActingSteps
  <1>9. ASSUME NEW h \in Handler,
               RecordFailure(h) \/ NotConfirmed(h) \/ Served(h) \/ Offer(h) \/ Unpend(h)
        PROVE  Bounded
    BY <1>9, <1>u, <1>w, <1>s DEF RecordFailure, NotConfirmed, Served, Offer, Unpend, store
  <1>10. ASSUME NEW h \in Handler, NEW c \in Challenge, Ask(h, c) PROVE Bounded
    BY <1>10, <1>u, <1>w, <1>s DEF Ask, store
  <1>11. ASSUME NEW h \in Handler, NEW c \in Challenge, Verify(h, c) PROVE Bounded
    <2>1. \/ UNCHANGED work
          \/ /\ pc' = [pc EXCEPT ![h] = "account"]
             /\ \A g \in Handler : g # h => job'[g] = job[g]
      BY <1>11, <1>t DEF Verify
    <2>2. pc[h] = "idle" /\ UNCHANGED <<users, sessions>>
      BY <1>11 DEF Verify, store
    <2>3. Acting(n)' \subseteq Acting(n) /\ (Evicting(n) => Evicting(n)')
      BY <1>t, <1>s, <2>1, <2>2 DEF work, Acting, Evicting
    <2> QED BY <1>u, <2>2, <2>3
  <1>12. ASSUME NEW h \in Handler, NEW x \in Code, ConsumeRecovery(h, x) PROVE Bounded
    <2>1. /\ pc[h] = "code" /\ pc' = [pc EXCEPT ![h] = "unthrottle"] /\ sessions' = sessions
          /\ \A g \in Handler : job'[g].user = job[g].user
      BY <1>12, <1>t DEF ConsumeRecovery, Job
    <2>2. Acting(n)' \subseteq Acting(n) /\ (Evicting(n) => Evicting(n)')
      BY <1>t, <2>1 DEF Acting, Evicting, ActingSteps
    <2>3. users'[n] # None /\ users'[n].disabled => users[n] # None /\ users[n].disabled
      BY <1>12, <1>t DEF ConsumeRecovery, User, Account
    <2> QED BY <1>k, <2>1, <2>2, <2>3 DEF SessionsOf
  <1>13. ASSUME NEW h \in Handler, NEW new, Enable(h, new) \/ ClearFactor(h) PROVE Bounded
    <2>1. /\ sessions' = sessions /\ Goto(h, "unpend") /\ pc[h] # "evict"
      BY <1>13 DEF Enable, ClearFactor
    <2>2. Acting(n)' \subseteq Acting(n) /\ (Evicting(n) => Evicting(n)')
      BY <1>w, <1>s, <2>1
    <2>u. job[h].user \in Name /\ users[job[h].user] \in Account \cup {None}
      BY <1>13, <1>t DEF Enable, ClearFactor
    <2>3. users'[n] # None /\ users'[n].disabled => users[n] # None /\ users[n].disabled
      <3> DEFINE m == job[h].user
                 enabled == [[users[m] EXCEPT !.twofa = TRUE] EXCEPT !.codes = new]
                 cleared == [users[m] EXCEPT !.twofa = FALSE, !.codes = {}]
      <3>a. users[m] \in Account => /\ enabled.disabled = users[m].disabled
                                    /\ cleared.disabled = users[m].disabled
        BY DEF Account
      <3>1. CASE Enable(h, new)
        <4>1. users[m] \in Account /\ users' = [users EXCEPT ![m] = enabled]
          BY <1>t, <2>u, <3>1 DEF Enable, User
        <4> HIDE DEF m, enabled, cleared
        <4> QED BY <1>t, <3>a, <4>1, SentinelAssumption
      <3>2. CASE ClearFactor(h)
        <4>1. /\ users[m] \in Account \cup {None}
              /\ users' = [users EXCEPT ![m] = IF users[m] = None THEN None ELSE cleared]
          BY <2>u, <3>2 DEF ClearFactor
        <4> HIDE DEF m, enabled, cleared
        <4> QED BY <1>t, <3>a, <4>1, SentinelAssumption
      <3> QED BY <1>13, <3>1, <3>2
    <2> QED BY <1>k, <2>1, <2>2, <2>3 DEF SessionsOf
  <1>14. ASSUME NEW h \in Handler, NEW tk \in Token, Identify(h, tk) PROVE Bounded
    <2>1. sessions[tk] # None => sessions[tk].user \in Name
      BY <1>t DEF Session
    <2>2. /\ users' = users /\ pc[h] = "idle" /\ (sessions' = sessions \/ Drop({tk}))
          /\ UNCHANGED work \/ \E m \in Name : Begin(h, "gate", m)
      BY <1>14, <2>1 DEF Identify, store
    <2>3. Acting(n)' \subseteq Acting(n) /\ (Evicting(n) => Evicting(n)')
      BY <1>w, <1>s, <2>2
    <2>4. SessionsOf(n)' \subseteq SessionsOf(n)
      BY <1>d, <2>2 DEF SessionsOf
    <2> QED BY <1>k, <2>2, <2>3, <2>4
  <1>e. ASSUME UNCHANGED work PROVE Acting(n)' \subseteq Acting(n) /\ (Evicting(n) => Evicting(n)')
    BY <1>e DEF work, Acting, Evicting
  <1>15. ASSUME NEW m \in Name, CreateUser(m) \/ DeleteUser(m) PROVE Bounded
    <2>1. users'[n] # None /\ users'[n].disabled => users[n] # None /\ users[n].disabled
      BY <1>15, <1>t DEF CreateUser, DeleteUser, NewAccount
    <2>2. UNCHANGED <<work, sessions>>
      BY <1>15 DEF CreateUser, DeleteUser
    <2> QED BY <1>e, <1>k, <2>1, <2>2 DEF SessionsOf
  <1>16. ASSUME NEW tk \in Token, SignOut(tk) PROVE Bounded
    BY <1>16, <1>d, <1>e, <1>k DEF SignOut, store
  <1>17. ASSUME Tick PROVE Bounded
    <2>1. \A tk \in Token : /\ sessions'[tk] = None <=> sessions[tk] = None
                            /\ sessions[tk] # None => sessions'[tk].user = sessions[tk].user
      <3>1. \A tk \in Token : sessions'[tk] = Older(sessions[tk], SessionTTL)
        BY <1>17 DEF Tick
      <3>2. \A e \in Session : /\ Older(e, SessionTTL) # None
                               /\ Older(e, SessionTTL).user = e.user
        <4> SUFFICES ASSUME NEW e \in Session
                     PROVE  Older(e, SessionTTL) # None /\ Older(e, SessionTTL).user = e.user
          OBVIOUS
        <4>1. Older(e, SessionTTL) \in Session
          BY LimitsAssumption DEF Older, Session
        <4>2. Older(e, SessionTTL).user = e.user
          BY DEF Older, Session
        <4> QED BY <4>1, <4>2, SentinelAssumption
      <3> QED BY <1>t, <3>1, <3>2 DEF Older
    <2>2. SessionsOf(n)' \subseteq SessionsOf(n)
      BY <2>1 DEF SessionsOf
    <2>3. UNCHANGED <<work, users>>
      BY <1>17 DEF Tick, store
    <2> QED BY <1>e, <1>k, <2>2, <2>3
  <1>18. ASSUME UNCHANGED vars PROVE Bounded
    BY <1>18, <1>e, <1>u DEF vars, store
  <1> HIDE DEF Bounded
  <1>20. ASSUME NEW h \in Handler, LoginNext(h) PROVE Bounded
    BY <1>20, <1>1, <1>2, <1>4, <1>7, <1>8, <1>9, <1>10, <1>11, <1>12 DEF LoginNext
  <1>21. ASSUME NEW h \in Handler, EnrollNext(h) PROVE Bounded
    BY <1>21, <1>7, <1>9, <1>13 DEF EnrollNext
  <1>22. ASSUME NEW h \in Handler, RequestNext(h) PROVE Bounded
    BY <1>22, <1>3, <1>5, <1>6, <1>7, <1>9, <1>14 DEF RequestNext
  <1>23. Bounded
    BY <1>15, <1>16, <1>17, <1>18, <1>20, <1>21, <1>22 DEF Next
  <1> QED BY <1>23 DEF Bounded

(* A ban leaves an account fewer sessions and requests than there were     *)
(* requests at the same time.                                              *)
THEOREM BansEvict == Spec => []BanEvicts
  <1>1. Init => BanEvicts
    <2> SUFFICES ASSUME Init, NEW n \in Name PROVE ~(users[n] # None /\ users[n].disabled)
      BY DEF BanEvicts
    <2> QED BY DEF Init, NewAccount
  <1> QED BY <1>1, TypeInit, TypeStep, BanStep, PTL DEF Spec

=============================================================================
