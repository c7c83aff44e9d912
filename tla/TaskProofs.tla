----------------------------- MODULE TaskProofs ------------------------------
(***************************************************************************)
(* Proofs about the two components whose work goes on in tasks of their    *)
(* own: the slots of conversions (Transcode), for any number of users and  *)
(* requests and any cap, and the notifier (Notifier), for any number of    *)
(* torrents and downloads.                                                 *)
(***************************************************************************)
EXTENDS Transcode, Notifier, FiniteSetTheorems, TLAPS

-----------------------------------------------------------------------------
(* Transcode *)

LEMMA TypeInit == Init => TypeOK
  BY DEF Init, TypeOK

LEMMA TypeStep == TypeOK /\ [Next]_vars => TypeOK'
  <1> SUFFICES ASSUME TypeOK, [Next]_vars PROVE TypeOK'
    OBVIOUS
  <1> USE DEF TypeOK
  <1>1. ASSUME NEW r \in Request, NEW u \in User, NEW s \in {"stream", "file"}, Acquire(r, u, s)
        PROVE  TypeOK'
    <2>1. enc'[r] \in Encoder /\ enc' = [enc EXCEPT ![r] = enc'[r]]
      BY <1>1 DEF Acquire, Encoder
    <2> QED BY <1>1, <2>1 DEF Acquire
  <1>2. ASSUME NEW r \in Request, enc[r] # NoEncoder, DropGuard(r) PROVE TypeOK'
    BY <1>2 DEF DropGuard, Encoder
  <1>3. ASSUME NEW r \in Request, Spawn(r) \/ StreamFlows(r) \/ ClientGone(r)
                                  \/ Complete(r) \/ BrokenPipe(r)
        PROVE  TypeOK'
    <2>1. enc[r] \in Encoder
      BY <1>3 DEF Spawn, StreamFlows, ClientGone, Complete, BrokenPipe, In
    <2>2. \E e \in Encoder : enc' = [enc EXCEPT ![r] = e]
      BY <1>3, <2>1 DEF Spawn, StreamFlows, ClientGone, Complete, BrokenPipe, Encoder
    <2> QED BY <1>3, <2>2 DEF Spawn, StreamFlows, ClientGone, Complete, BrokenPipe
  <1>4. CASE UNCHANGED vars
    BY <1>4 DEF vars
  <1> QED BY <1>1, <1>2, <1>3, <1>4 DEF Next, Refuse, Reap, In

(* How a step changes who holds a slot: one request takes one, one gives   *)
(* one back, or nobody does.                                               *)
Takes(r, u) ==
    /\ r \notin Holders(u) /\ transcodes[u] < Cap
    /\ \A v \in User : r \notin Holders(v)
    /\ transcodes' = [transcodes EXCEPT ![u] = @ + 1]
    /\ \A v \in User : Holders(v)' = IF v = u THEN Holders(v) \cup {r} ELSE Holders(v)

GivesBack(r, u) ==
    /\ r \in Holders(u)
    /\ transcodes' = [transcodes EXCEPT ![u] = IF @ = 0 THEN 0 ELSE @ - 1]
    /\ \A v \in User : Holders(v)' = IF v = u THEN Holders(v) \ {r} ELSE Holders(v)

Keeps == UNCHANGED transcodes /\ \A v \in User : Holders(v)' = Holders(v)

LEMMA StepKinds ==
    ASSUME TypeOK, [Next]_vars
    PROVE  Keeps \/ \E r \in Request, u \in User : Takes(r, u) \/ GivesBack(r, u)
  <1> USE DEF TypeOK, Holders
  <1>1. ASSUME NEW r \in Request, NEW u \in User, NEW s \in {"stream", "file"}, Acquire(r, u, s)
        PROVE  Takes(r, u)
    <2>1. /\ enc'[r].user = u /\ enc'[r] \in Encoder
          /\ \A q \in Request : q # r => enc'[q] = enc[q]
      BY <1>1 DEF Acquire, Encoder
    <2> QED BY <1>1, <2>1, NoEncoderAssumption DEF Acquire, Takes, Available
  <1>2. ASSUME NEW r \in Request, enc[r] # NoEncoder, DropGuard(r)
        PROVE  \E u \in User : GivesBack(r, u)
    <2>1. enc[r].user \in User
      BY <1>2 DEF Encoder
    <2>2. enc'[r] = NoEncoder /\ \A q \in Request : q # r => enc'[q] = enc[q]
      BY <1>2 DEF DropGuard
    <2>3. PICK u \in User : u = enc[r].user
      BY <2>1
    <2>4. GivesBack(r, u)
      BY <1>2, <2>2, <2>3 DEF DropGuard, GivesBack
    <2> QED BY <2>4
  <1>3. ASSUME NEW r \in Request, Spawn(r) \/ StreamFlows(r) \/ ClientGone(r)
                                  \/ Complete(r) \/ BrokenPipe(r)
        PROVE  Keeps
    <2> USE DEF Spawn, StreamFlows, ClientGone, Complete, BrokenPipe
    <2>1. enc[r] \in Encoder
      BY <1>3 DEF In
    <2>2. \E e \in Encoder : e.user = enc[r].user /\ enc' = [enc EXCEPT ![r] = e]
      BY <1>3, <2>1 DEF Encoder
    <2>3. UNCHANGED transcodes /\ \A q \in Request : q # r => enc'[q] = enc[q]
      BY <1>3
    <2> QED BY <2>1, <2>2, <2>3, NoEncoderAssumption DEF Keeps
  <1>4. CASE UNCHANGED vars
    BY <1>4 DEF vars, Keeps
  <1> HIDE DEF TypeOK, Holders
  <1> QED BY <1>1, <1>2, <1>3, <1>4 DEF Next, Refuse, Reap, In

(* Requests may be without number: only so many were ever admitted.        *)
HoldersFinite == \A u \in User : IsFiniteSet(Holders(u))

SlotsBounded == \A u \in User : transcodes[u] <= Cap

SlotInv == SlotsExact /\ SlotsBounded /\ HoldersFinite

LEMMA SlotInit == Init => SlotInv
  <1> SUFFICES ASSUME Init PROVE SlotInv
    OBVIOUS
  <1>1. \A u \in User : Holders(u) = {}
    BY DEF Init, Holders
  <1> QED BY <1>1, FS_EmptySet, CapAssumption DEF Init, SlotInv, SlotsExact, SlotsBounded, HoldersFinite

LEMMA SlotStep ==
    ASSUME TypeOK, SlotInv, [Next]_vars
    PROVE  SlotInv'
  <1> DEFINE Kept(v) == /\ transcodes'[v] = Cardinality(Holders(v)') /\ transcodes'[v] <= Cap
                        /\ IsFiniteSet(Holders(v)')
  <1> SUFFICES ASSUME NEW v \in User PROVE Kept(v)
    BY DEF SlotInv, SlotsExact, SlotsBounded, HoldersFinite
  <1>1. /\ transcodes \in [User -> Nat]
        /\ transcodes[v] = Cardinality(Holders(v)) /\ transcodes[v] <= Cap
    BY DEF TypeOK, SlotInv, SlotsExact, SlotsBounded
  <1>2. IsFiniteSet(Holders(v)) /\ Cardinality(Holders(v)) \in Nat
    BY FS_CardinalityType DEF SlotInv, HoldersFinite
  <1>3. CASE Keeps
    BY <1>1, <1>2, <1>3 DEF Keeps
  <1>4. ASSUME NEW r \in Request, NEW u \in User, Takes(r, u)
        PROVE  Kept(v)
    <2>1. CASE v = u
      <3>1. /\ Cardinality(Holders(v) \cup {r}) = Cardinality(Holders(v)) + 1
            /\ IsFiniteSet(Holders(v) \cup {r})
        BY <1>2, <1>4, <2>1, FS_AddElement DEF Takes
      <3>2. /\ Holders(v)' = Holders(v) \cup {r}
            /\ transcodes'[v] = transcodes[v] + 1 /\ transcodes[v] < Cap
        BY <1>1, <1>4, <2>1 DEF Takes
      <3> QED BY <1>1, <3>1, <3>2, CapAssumption
    <2>2. CASE v # u
      BY <1>1, <1>2, <1>4, <2>2 DEF Takes
    <2> QED BY <2>1, <2>2
  <1>5. ASSUME NEW r \in Request, NEW u \in User, GivesBack(r, u)
        PROVE  Kept(v)
    <2>1. CASE v = u
      <3>1. /\ Cardinality(Holders(v) \ {r}) = Cardinality(Holders(v)) - 1
            /\ IsFiniteSet(Holders(v) \ {r})
        BY <1>2, <1>5, <2>1, FS_RemoveElement DEF GivesBack
      <3>2. Cardinality(Holders(v)) # 0
        BY <1>2, <1>5, <2>1, FS_EmptySet DEF GivesBack
      <3>3. /\ Holders(v)' = Holders(v) \ {r}
            /\ transcodes'[v] = IF transcodes[v] = 0 THEN 0 ELSE transcodes[v] - 1
        BY <1>1, <1>5, <2>1 DEF GivesBack
      <3> QED BY <1>1, <1>2, <3>1, <3>2, <3>3, CapAssumption
    <2>2. CASE v # u
      BY <1>1, <1>2, <1>5, <2>2 DEF GivesBack
    <2> QED BY <2>1, <2>2
  <1> QED BY <1>3, <1>4, <1>5, StepKinds

(* The count of slots is the number of live guards, whatever path each     *)
(* conversion takes.                                                       *)
THEOREM SlotsAreExact == Spec => []SlotsExact
  <1>1. SlotInv => SlotsExact
    BY DEF SlotInv
  <1> QED BY <1>1, TypeInit, TypeStep, SlotInit, SlotStep, PTL DEF Spec

(* The counter, the guard and the waiting task together implement the      *)
(* limiter of Slots.                                                       *)
THEOREM CounterIsLimiter == Spec => ImplementsSlots
  <1> DEFINE held == [u \in User |-> Holders(u)]
  <1>1. Init => Limiter!Init
    BY DEF Init, Limiter!Init, Holders
  <1>2. ASSUME TypeOK, SlotInv, [Next]_vars PROVE [Limiter!Next]_held
    <2>1. CASE Keeps
      BY <2>1 DEF Keeps
    <2>2. ASSUME NEW r \in Request, NEW u \in User, Takes(r, u) PROVE Limiter!Acquire(r, u)
      <3>1. Cardinality(held[u]) < Cap
        BY <1>2, <2>2 DEF Takes, SlotInv, SlotsExact
      <3>2. held' = [held EXCEPT ![u] = @ \cup {r}]
        BY <2>2 DEF Takes
      <3>3. \A v \in User : r \notin held[v]
        BY <2>2 DEF Takes
      <3> QED BY <3>1, <3>2, <3>3 DEF Limiter!Acquire, Limiter!Cardinality, Cardinality
    <2>3. ASSUME NEW r \in Request, NEW u \in User, GivesBack(r, u) PROVE Limiter!Release(r, u)
      <3>1. held' = [held EXCEPT ![u] = @ \ {r}]
        BY <2>3 DEF GivesBack
      <3>2. r \in held[u]
        BY <2>3 DEF GivesBack
      <3> QED BY <3>1, <3>2 DEF Limiter!Release
    <2> HIDE DEF held
    <2> QED BY <1>2, <2>1, <2>2, <2>3, StepKinds DEF Limiter!Next
  <1> QED
    BY <1>1, <1>2, TypeInit, TypeStep, SlotInit, SlotStep, PTL
       DEF Spec, ImplementsSlots, Limiter!Spec

-----------------------------------------------------------------------------
(* Notifier *)

LEMMA NotifierTypeInit == NotifierInit => NotifierTypeOK
  BY DEF NotifierInit, NotifierTypeOK, Condition

LEMMA NotifierTypeStep == NotifierTypeOK /\ [NotifierNext]_notifierVars => NotifierTypeOK'
  <1> SUFFICES ASSUME NotifierTypeOK, [NotifierNext]_notifierVars PROVE NotifierTypeOK'
    OBVIOUS
  <1> USE DEF NotifierTypeOK
  <1>1. ASSUME NEW i \in Item, NEW from, NEW to \in Condition, Becomes(i, from, to)
        PROVE  NotifierTypeOK'
    BY <1>1 DEF Becomes, looping
  <1>2. ASSUME NEW i \in Item, Add(i) \/ Checked(i) \/ Finish(i) \/ Remove(i) \/ Reselect(i)
        PROVE  NotifierTypeOK'
    <2>1. \E from, to : to \in Condition /\ Becomes(i, from, to)
      BY <1>2 DEF Add, Checked, Finish, Remove, Reselect, Condition
    <2> QED BY <1>1, <2>1
  <1>3. CASE ListTorrents
    BY <1>3 DEF ListTorrents, items, Finished
  <1>4. CASE ListDownloads
    BY <1>4 DEF ListDownloads, items, Finished
  <1>5. ASSUME NEW i \in Item, Skip(i) PROVE NotifierTypeOK'
    BY <1>5 DEF Skip, items, Key
  <1>6. ASSUME NEW i \in Item, Tell(i) PROVE NotifierTypeOK'
    BY <1>6 DEF Tell, items, Key
  <1>7. CASE EndPass
    BY <1>7 DEF EndPass, items
  <1>8. CASE Answered
    BY <1>8 DEF Answered, items, looping
  <1>9. CASE UNCHANGED notifierVars
    BY <1>9 DEF notifierVars, items, looping
  <1> HIDE DEF NotifierTypeOK
  <1> QED BY <1>2, <1>3, <1>4, <1>5, <1>6, <1>7, <1>8, <1>9
          DEF NotifierNext, ItemNext, LoopNext

(* An item is told only while it is unseen and after the first pass, and   *)
(* whatever is told or skipped stays seen.                                 *)
TellingInv ==
    /\ baseline \subseteq seen
    /\ \A i \in Item : /\ told[i] \in {0, 1}
                       /\ told[i] = 1 <=> i \in seen /\ i \notin baseline
    /\ first => \A i \in Item : told[i] = 0

LEMMA TellingStep ==
    ASSUME NotifierTypeOK, TellingInv, [NotifierNext]_notifierVars
    PROVE  TellingInv'
  <1> USE DEF NotifierTypeOK, TellingInv
  <1>1. ASSUME NEW i \in Item, Skip(i) PROVE TellingInv'
    <2>1. /\ i \in seen \/ first
          /\ told' = told /\ first' = first /\ seen' = seen \cup {i}
          /\ baseline' = IF first THEN baseline \cup {i} ELSE baseline
      BY <1>1 DEF Skip, Key
    <2> QED BY <2>1
  <1>2. ASSUME NEW i \in Item, Tell(i) PROVE TellingInv'
    <2>1. /\ i \notin seen /\ ~first
          /\ told' = [told EXCEPT ![i] = @ + 1] /\ seen' = seen \cup {i}
          /\ first' = first /\ baseline' = baseline
      BY <1>2 DEF Tell, Key
    <2>2. told[i] = 0 /\ told'[i] = 1 /\ \A j \in Item : j # i => told'[j] = told[j]
      BY <2>1
    <2> QED BY <2>1, <2>2
  <1>3. CASE EndPass
    BY <1>3 DEF EndPass
  <1>4. CASE ItemNext \/ ListTorrents \/ ListDownloads \/ Answered \/ UNCHANGED notifierVars
    <2>1. UNCHANGED <<seen, baseline, told, first>>
      BY <1>4 DEF ItemNext, Add, Checked, Finish, Remove, Reselect, Becomes, ListTorrents,
                  ListDownloads, Answered, notifierVars, looping
    <2> QED BY <2>1
  <1> HIDE DEF NotifierTypeOK, TellingInv
  <1> QED BY <1>1, <1>2, <1>3, <1>4 DEF NotifierNext, LoopNext

(* No item is told twice, whatever is added, finishes again or goes while  *)
(* the loop runs and waits for the webhook, and none that the first pass   *)
(* saw finished is told at all (notifier_loop).                            *)
THEOREM ItemsAreToldOnce == NotifierSpec => []ToldOnce
  <1>1. NotifierInit => TellingInv
    BY DEF NotifierInit, TellingInv
  <1>2. TellingInv => ToldOnce
    BY DEF TellingInv, ToldOnce, NotifierTypeOK
  <1> QED BY <1>1, <1>2, NotifierTypeInit, NotifierTypeStep, TellingStep, PTL DEF NotifierSpec

(* Nothing is swallowed: what the loop remembers was told, or the first    *)
(* pass saw it finished; a key that is there for another item's sake would *)
(* silence this one (notifier_loop).                                       *)
THEOREM SeenWereTold == NotifierSpec => [](\A i \in seen : told[i] = 1 \/ i \in baseline)
  <1>1. NotifierInit => TellingInv
    BY DEF NotifierInit, TellingInv
  <1>2. TellingInv /\ NotifierTypeOK => \A i \in seen : told[i] = 1 \/ i \in baseline
    BY DEF TellingInv, NotifierTypeOK
  <1> QED BY <1>1, <1>2, NotifierTypeInit, NotifierTypeStep, TellingStep, PTL DEF NotifierSpec

(* The loop's variables keep their types; what it has listed are items.    *)
THEOREM NotifierTypeCorrect == NotifierSpec => []NotifierTypeOK
  BY NotifierTypeInit, NotifierTypeStep, PTL DEF NotifierSpec

=============================================================================
