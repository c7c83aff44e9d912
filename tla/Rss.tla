--------------------------------- MODULE Rss ---------------------------------
(***************************************************************************)
(* RSS auto-download: the subscriptions and the seen links of rss.rs, the  *)
(* file feeds.json and the polling loop of main.rs.                        *)
(*                                                                         *)
(* Concurrent actors: the loop, and requests that subscribe and            *)
(* unsubscribe.  Only the loop changes `seen`.  save() collects both       *)
(* structures while it holds both locks (the guards are temporaries of one *)
(* `let`), releases them, and writes the file with fs::write, which        *)
(* truncates it first.  The program may die between any two steps.         *)
(*                                                                         *)
(* Abstracted: the order of the feeds and of the items on a page; titles   *)
(* and filters (Wanted are the links that every filter accepts).  A page   *)
(* only gains items.                                                       *)
(***************************************************************************)
EXTENDS Integers, FiniteSets

CONSTANTS
    Link, Url,
    Wanted,       \* the links that pass the filter
    Handler,      \* concurrent requests
    Loop,         \* the polling loop
    MaxSeen,      \* how many links are remembered (5000)
    ErrorPages,   \* whether a server may answer with a page that has no items
    NoFeed, NoSnap, Empty, Torn,
    MaxFeeds, MaxRestarts    \* bounds of the state space

ASSUME LinksAssumption  == Wanted \subseteq Link
ASSUME BoundsAssumption == {MaxSeen, MaxFeeds, MaxRestarts} \subseteq Nat
ASSUME ActorsAssumption == Loop \notin Handler
ASSUME ModesAssumption  == ErrorPages \in BOOLEAN

Id    == 0 .. MaxFeeds - 1
Actor == Handler \cup {Loop}
Feed  == [url : Url, seeded : BOOLEAN]
Saved == [feeds : [Id -> Feed \cup {NoFeed}], seen : SUBSET Link]

ASSUME SentinelAssumption ==
    NoFeed \notin Feed /\ {NoSnap, Empty, Torn} \cap Saved = {} /\ Empty # Torn

Steps == {"idle", "round", "scan", "seed", "save", "truncate", "write", "grab"}

VARIABLES
    feeds, seen,   \* the subscriptions and the links seen, in memory
    nextId,
    file,          \* feeds.json
    pc, snap,      \* the next step of each actor, what its save has collected
    todo,          \* the loop's copy of the list, less the feeds it is done with
    cur,           \* the feed it works on, and that feed as it was copied
    items,         \* the items of the answer it has yet to look at
    again,         \* whether it saves a second time
    fresh,         \* the links it will add
    page,          \* the items on each page
    backlog,       \* history: what a feed's page had when it was subscribed
    grabbed,       \* history: the links added and, as far as is known, remembered
    written, lost, \* history: the links saved so far, and those of them, or due
                   \* to be, that an older or a failed save left out
    restarts

memory  == <<feeds, seen, nextId>>
round   == <<todo, cur, items, again, fresh>>
history == <<backlog, grabbed, written, lost>>
vars    == <<memory, file, pc, snap, round, page, history, restarts>>

Job     == [id : Id, feed : Feed]
NoFeeds == [id \in Id |-> NoFeed]

-----------------------------------------------------------------------------
(* load: a file that is missing, blank or cut short counts as an empty one *)

Stored == IF file \in {Empty, Torn} THEN [feeds |-> NoFeeds, seen |-> {}] ELSE file

Load(stored) ==
    /\ feeds' = stored.feeds
    /\ seen' = stored.seen
    /\ \E n \in 0 .. MaxFeeds :
          /\ nextId' = n
          /\ \A id \in Id : stored.feeds[id] # NoFeed => id < n
          /\ n > 0 => stored.feeds[n - 1] # NoFeed

Init ==
    /\ feeds = NoFeeds /\ seen = {} /\ nextId = 0
    /\ file = Empty
    /\ pc = [a \in Actor |-> "idle"]
    /\ snap = [a \in Actor |-> NoSnap]
    /\ todo = {} /\ cur = {} /\ items = {} /\ again = FALSE /\ fresh = {}
    /\ page = [u \in Url |-> {}]
    /\ backlog = [id \in Id |-> {}]
    /\ grabbed = {} /\ written = {} /\ lost = {}
    /\ restarts = 0

-----------------------------------------------------------------------------
(* Requests: rss_add and rss_delete *)

Add(h, u) ==
    /\ pc[h] = "idle" /\ nextId < MaxFeeds
    /\ feeds' = [feeds EXCEPT ![nextId] = [url |-> u, seeded |-> FALSE]]
    /\ backlog' = [backlog EXCEPT ![nextId] = page[u]]
    /\ nextId' = nextId + 1
    /\ pc' = [pc EXCEPT ![h] = "save"]
    /\ UNCHANGED <<seen, file, snap, round, page, grabbed, written, lost, restarts>>

Remove(h, id) ==
    /\ pc[h] = "idle"
    /\ feeds' = [feeds EXCEPT ![id] = NoFeed]
    /\ pc' = [pc EXCEPT ![h] = "save"]
    /\ UNCHANGED <<seen, nextId, file, snap, round, page, history, restarts>>

-----------------------------------------------------------------------------
(* rss_loop: a copy of the list, then each feed of it in turn, whether it  *)
(* is still subscribed or not.                                             *)

Wake ==
    /\ pc[Loop] = "idle"
    /\ todo' = {j \in Job : feeds[j.id] = j.feed}
    /\ pc' = [pc EXCEPT ![Loop] = "round"]
    /\ UNCHANGED <<memory, file, snap, cur, items, again, fresh, page, history, restarts>>

(* The text of any answer is taken for the page, whatever its status. *)
Answers(u) == {page[u]} \cup IF ErrorPages THEN {{}} ELSE {}

Fetch(j) ==
    /\ pc[Loop] = "round" /\ j \in todo
    /\ items' \in Answers(j.feed.url)
    /\ todo' = todo \ {j}
    /\ cur' = {j}
    /\ pc' = [pc EXCEPT ![Loop] = "scan"]
    /\ UNCHANGED <<memory, file, snap, again, fresh, page, history, restarts>>

(* No answer: `continue`. *)
FetchFails(j) ==
    /\ pc[Loop] = "round" /\ j \in todo
    /\ todo' = todo \ {j}
    /\ UNCHANGED <<memory, file, pc, snap, cur, items, again, fresh, page, history, restarts>>

Sleep ==
    /\ pc[Loop] = "round" /\ todo = {}
    /\ pc' = [pc EXCEPT ![Loop] = "idle"]
    /\ UNCHANGED <<memory, file, snap, round, page, history, restarts>>

-----------------------------------------------------------------------------
(* new_links.  The first fetch of a feed marks every item, then the feed;  *)
(* a later one marks and returns the wanted items it has not seen.         *)

First_Never == FALSE

First == \E j \in cur : ~j.feed.seeded

(* mark_seen: at the limit, links fall out in the set's order, any order. *)
MarkSeen(l) ==
    \E gone \in SUBSET (seen \cup {l}) :
        /\ Cardinality(gone) = IF Cardinality(seen \cup {l}) > MaxSeen
                               THEN Cardinality(seen \cup {l}) - MaxSeen ELSE 0
        /\ seen' = (seen \cup {l}) \ gone
        /\ grabbed' = grabbed \ gone
        /\ backlog' = [id \in Id |-> backlog[id] \ gone]

ScanFirst(l) ==
    /\ pc[Loop] = "scan" /\ First /\ l \in items
    /\ MarkSeen(l)
    /\ items' = items \ {l}
    /\ UNCHANGED <<feeds, nextId, file, pc, snap, todo, cur, again, fresh, page, written,
                   lost, restarts>>

ScanNew_MarksFirst(l) ==
    /\ pc[Loop] = "scan" /\ ~First /\ l \in items
    /\ MarkSeen(l)
    /\ items' = items \ {l}
    /\ UNCHANGED <<feeds, nextId, file, pc, snap, todo, cur, again, fresh, page, written,
                   lost, restarts>>

ScanNew(l) ==
    /\ pc[Loop] = "scan" /\ ~First /\ l \in items
    /\ IF l \in Wanted \ seen
       THEN fresh' = fresh \cup {l} /\ MarkSeen(l)
       ELSE UNCHANGED <<fresh, seen, grabbed, backlog>>
    /\ items' = items \ {l}
    /\ UNCHANGED <<feeds, nextId, file, pc, snap, todo, cur, again, page, written, lost,
                   restarts>>

(* All items are looked at: a first fetch goes on to mark_seeded, another  *)
(* to save what it marked, if it found something.                          *)
Scanned_Early ==
    /\ pc[Loop] = "scan" /\ (First \/ items = {})
    /\ pc' = [pc EXCEPT ![Loop] = CASE First -> "seed"
                                    [] ~First /\ fresh # {} -> "save"
                                    [] OTHER -> "round"]
    /\ UNCHANGED <<memory, file, snap, round, page, history, restarts>>

Scanned_Unsaved ==
    /\ pc[Loop] = "scan" /\ items = {}
    /\ pc' = [pc EXCEPT ![Loop] = CASE First -> "seed"
                                    [] ~First /\ fresh # {} -> "grab"
                                    [] OTHER -> "round"]
    /\ UNCHANGED <<memory, file, snap, round, page, history, restarts>>

Scanned ==
    /\ pc[Loop] = "scan" /\ items = {}
    /\ pc' = [pc EXCEPT ![Loop] = CASE First -> "seed"
                                    [] ~First /\ fresh # {} -> "save"
                                    [] OTHER -> "round"]
    /\ UNCHANGED <<memory, file, snap, round, page, history, restarts>>

(* mark_seeded, if the feed is still subscribed; ids are not used twice    *)
(* while the program runs.  mark_seeded saves, and new_links once more.    *)
Seed ==
    /\ pc[Loop] = "seed"
    /\ feeds' = [id \in Id |-> IF feeds[id] # NoFeed /\ \E j \in cur : j.id = id
                               THEN [feeds[id] EXCEPT !.seeded = TRUE] ELSE feeds[id]]
    /\ again' = TRUE
    /\ pc' = [pc EXCEPT ![Loop] = "save"]
    /\ UNCHANGED <<seen, nextId, file, snap, todo, cur, items, fresh, page, history,
                   restarts>>

(* spawn_add, which returns at once; its task is modelled in Engine *)
Grab(l) ==
    /\ pc[Loop] = "grab" /\ l \in fresh
    /\ fresh' = fresh \ {l}
    /\ grabbed' = grabbed \cup ({l} \cap seen)
    /\ pc' = [pc EXCEPT ![Loop] = IF fresh' = {} THEN "round" ELSE "grab"]
    /\ UNCHANGED <<memory, file, snap, todo, cur, items, again, page, backlog, written,
                   lost, restarts>>

-----------------------------------------------------------------------------
(* save, by a request or by the loop; errors are discarded *)

After(a) == CASE a # Loop -> "idle"
              [] a = Loop /\ again -> "save"
              [] a = Loop /\ ~again /\ fresh # {} -> "grab"
              [] OTHER -> "round"

Snapshot(a) ==
    /\ pc[a] = "save"
    /\ snap' = [snap EXCEPT ![a] = [feeds |-> feeds, seen |-> seen]]
    /\ pc' = [pc EXCEPT ![a] = "truncate"]
    /\ UNCHANGED <<memory, file, round, page, history, restarts>>

Truncate(a) ==
    /\ pc[a] = "truncate"
    /\ file' = Empty
    /\ pc' = [pc EXCEPT ![a] = "write"]
    /\ UNCHANGED <<memory, snap, round, page, history, restarts>>

Finish(a) ==
    /\ snap' = [snap EXCEPT ![a] = NoSnap]
    /\ pc' = [pc EXCEPT ![a] = After(a)]
    /\ again' = IF a = Loop THEN FALSE ELSE again

(* A write starts at offset 0: over what another writer put there since    *)
(* the truncation it may leave that writer's tail.                         *)
Write(a) ==
    /\ pc[a] = "write"
    /\ file' \in {snap[a]} \cup IF file \in {Empty, snap[a]} THEN {} ELSE {Torn}
    /\ written' = written \cup snap[a].seen
    /\ lost' = (lost \cup written) \ snap[a].seen
    /\ Finish(a)
    /\ UNCHANGED <<memory, todo, cur, items, fresh, page, backlog, grabbed, restarts>>

SaveFails(a) ==
    /\ pc[a] \in {"truncate", "write"}
    /\ file' = IF pc[a] = "write" THEN Torn ELSE file
    /\ lost' = lost \cup (snap[a].seen \ written)
    /\ Finish(a)
    /\ UNCHANGED <<memory, todo, cur, items, fresh, page, backlog, grabbed, written,
                   restarts>>

-----------------------------------------------------------------------------
(* The world *)

Publish(u, l) ==
    /\ l \notin page[u]
    /\ page' = [page EXCEPT ![u] = @ \cup {l}]
    /\ UNCHANGED <<memory, file, pc, snap, round, history, restarts>>

Restart ==
    /\ restarts < MaxRestarts
    /\ restarts' = restarts + 1
    /\ Load(Stored)
    /\ grabbed' = IF file \in Saved THEN grabbed \ lost ELSE {}
    /\ written' = Stored.seen
    /\ lost' = {}
    /\ pc' = [a \in Actor |-> "idle"]
    /\ snap' = [a \in Actor |-> NoSnap]
    /\ todo' = {} /\ cur' = {} /\ items' = {} /\ again' = FALSE /\ fresh' = {}
    /\ UNCHANGED <<file, page, backlog>>

Next ==
    \/ \E h \in Handler, u \in Url : Add(h, u)
    \/ \E h \in Handler, id \in Id : Remove(h, id)
    \/ Wake
    \/ \E j \in todo : Fetch(j) \/ FetchFails(j)
    \/ Sleep
    \/ \E l \in Link : ScanFirst(l) \/ ScanNew(l) \/ Grab(l)
    \/ Scanned
    \/ Seed
    \/ \E a \in Actor : Snapshot(a) \/ Truncate(a) \/ Write(a) \/ SaveFails(a)
    \/ \E u \in Url, l \in Link : Publish(u, l)
    \/ Restart

Spec == Init /\ [][Next]_vars

(* The loop's task is run, and a server that is asked again and again      *)
(* answers now and then.                                                   *)
Step(l) == ScanFirst(l) \/ ScanNew(l) \/ Grab(l)

Fairness ==
    /\ WF_vars(Wake) /\ WF_vars(Sleep) /\ WF_vars(Scanned) /\ WF_vars(Seed)
    /\ WF_vars(\E l \in Link : Step(l))
    /\ WF_vars(Snapshot(Loop)) /\ WF_vars(Truncate(Loop) \/ SaveFails(Loop))
    /\ WF_vars(Write(Loop) \/ SaveFails(Loop))
    /\ WF_vars(\E j \in todo : Fetch(j) \/ FetchFails(j))
    /\ \A j \in Job : SF_vars(Fetch(j))

FairSpec == Spec /\ Fairness

-----------------------------------------------------------------------------
(* Properties *)

(* Every variable keeps its type; at most MaxSeen links are remembered, so *)
(* feeds.json cannot grow without bound; the copies the loop works on are  *)
(* of ids that were given out.                                             *)
TypeOK ==
    /\ feeds \in [Id -> Feed \cup {NoFeed}] /\ seen \in SUBSET Link
    /\ Cardinality(seen) <= MaxSeen
    /\ nextId \in 0 .. MaxFeeds
    /\ \A id \in Id : feeds[id] # NoFeed => id < nextId
    /\ file \in Saved \cup {Empty, Torn}
    /\ pc \in [Actor -> Steps] /\ snap \in [Actor -> Saved \cup {NoSnap}]
    /\ todo \in SUBSET Job /\ cur \in SUBSET Job /\ items \in SUBSET Link
    /\ fresh \in SUBSET Link /\ again \in BOOLEAN
    /\ \A j \in todo \cup cur : j.id < nextId
    /\ page \in [Url -> SUBSET Link] /\ backlog \in [Id -> SUBSET Link]
    /\ {grabbed, written, lost} \subseteq SUBSET Link
    /\ restarts \in 0 .. MaxRestarts

(* A feed that counts as seeded has its backlog among the seen links, in   *)
(* memory, in whatever a save has collected and in feeds.json, so that a   *)
(* crash at any step leaves no seeded feed whose backlog is still to come  *)
(* (save collects both structures at once, new_links marks the links       *)
(* before the feed).                                                       *)
Covers(m) == \A id \in Id : m.feeds[id] # NoFeed /\ m.feeds[id].seeded
                               => backlog[id] \subseteq m.seen

SeededSeen ==
    /\ Covers([feeds |-> feeds, seen |-> seen])
    /\ file \in Saved => Covers(file)
    /\ \A a \in Actor : snap[a] # NoSnap => Covers(snap[a])

(* The loop never adds what was on the page when the feed was subscribed,  *)
(* unless the link has fallen out of a full set since: "subscribing never  *)
(* floods the box with the whole backlog" (new_links).                     *)
NoBacklog == \A j \in cur : fresh \cap backlog[j.id] = {}

(* A link is added a second time only if it fell out of the full set, or   *)
(* its mark was lost in an older or failed save and a restart: two feeds   *)
(* that list it, later rounds and restarts between any two steps do not    *)
(* suffice (new_links marks a link and saves before it returns it).        *)
GrabbedOnce == fresh \cap grabbed = {}

(* Once the program runs on, a wanted link that is new on the page of the  *)
(* only, seeded feed is added, unless that feed is removed or another one  *)
(* is subscribed, whose first fetch may mark it (rss_loop, new_links).     *)
Follows(id, l) ==
    /\ feeds[id] # NoFeed /\ feeds[id].seeded
    /\ \A other \in Id \ {id} : feeds[other] = NoFeed
    /\ l \in page[feeds[id].url]
    /\ restarts = MaxRestarts

NewLinksGrabbed ==
    \A id \in Id, l \in Wanted :
        Follows(id, l) /\ l \notin seen /\ (\A j \in todo \cup cur : j.feed.seeded)
            ~> (l \in grabbed \/ ~Follows(id, l))
=============================================================================
