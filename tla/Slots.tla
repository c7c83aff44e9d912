-------------------------------- MODULE Slots --------------------------------
(***************************************************************************)
(* What a per-user limiter promises: each user holds at most Cap slots,    *)
(* and a request gets a slot exactly while its user has one left.          *)
(***************************************************************************)
EXTENDS Integers, FiniteSets

CONSTANTS User, Request, Cap

VARIABLE holders   \* the requests that hold a slot of each user

Init == holders = [u \in User |-> {}]

Acquire(r, u) ==
    /\ \A v \in User : r \notin holders[v]
    /\ Cardinality(holders[u]) < Cap
    /\ holders' = [holders EXCEPT ![u] = @ \cup {r}]

Release(r, u) ==
    /\ r \in holders[u]
    /\ holders' = [holders EXCEPT ![u] = @ \ {r}]

Next == \E r \in Request, u \in User : Acquire(r, u) \/ Release(r, u)

Spec == Init /\ [][Next]_holders

=============================================================================
