------------------------------ MODULE RssProofs ------------------------------
(* RSS auto-download, for any number of links, pages, feeds and requests,   *)
(* and any limit on the links that are remembered.                          *)
EXTENDS Rss, FiniteSetTheorems, TLAPS

(* The type invariant without the count of seen links; a save that is being *)
(* written has been collected; ids above the counter are used nowhere.      *)
Typed ==
    /\ feeds \in [Id -> Feed \cup {NoFeed}] /\ seen \in SUBSET Link
    /\ nextId \in 0 .. MaxFeeds
    /\ file \in Saved \cup {Empty, Torn}
    /\ pc \in [Actor -> Steps] /\ snap \in [Actor -> Saved \cup {NoSnap}]
    /\ todo \in SUBSET Job /\ cur \in SUBSET Job /\ items \in SUBSET Link
    /\ fresh \in SUBSET Link
    /\ page \in [Url -> SUBSET Link] /\ backlog \in [Id -> SUBSET Link]
    /\ \A a \in Actor : pc[a] \in {"truncate", "write"} => snap[a] \in Saved

LEMMA Sentinels == NoFeed \notin Feed /\ NoSnap \notin Saved /\ Empty \notin Saved /\ Torn \notin Saved
  BY SentinelAssumption

LEMMA StoredType == ASSUME Typed PROVE Stored \in Saved
  BY DEF Typed, Stored, Saved, NoFeeds

LEMMA TypedInit == Init => Typed
  BY BoundsAssumption DEF Init, Typed, Steps, NoFeeds

LEMMA MarkSeenType ==
    ASSUME Typed, NEW l \in Link, MarkSeen(l)
    PROVE  /\ seen' \in SUBSET Link /\ backlog' \in [Id -> SUBSET Link]
           /\ \E gone : /\ seen' = (seen \cup {l}) \ gone
                        /\ grabbed' = grabbed \ gone
                        /\ backlog' = [id \in Id |-> backlog[id] \ gone]
  BY DEF Typed, MarkSeen

LEMMA TypedStep == Typed /\ [Next]_vars => Typed'
  <1> SUFFICES ASSUME Typed, [Next]_vars PROVE Typed'
    OBVIOUS
  <1>0. Loop \in Actor /\ Handler \subseteq Actor
    BY DEF Actor
  <1>1. ASSUME NEW h \in Handler, NEW u \in Url, Add(h, u) PROVE Typed'
    <2>1. nextId \in Id /\ nextId + 1 \in 0 .. MaxFeeds
      BY <1>1, BoundsAssumption DEF Add, Typed, Id
    <2>2. [url |-> u, seeded |-> FALSE] \in Feed
      BY DEF Feed
    <2>3. page[u] \in SUBSET Link
      BY DEF Typed
    <2> QED BY <1>0, <1>1, <2>1, <2>2, <2>3 DEF Add, Typed, round, Steps
  <1>2. ASSUME NEW h \in Handler, NEW id \in Id, Remove(h, id) PROVE Typed'
    BY <1>0, <1>2 DEF Remove, Typed, round, history, Steps
  <1>3. CASE Wake
    BY <1>0, <1>3 DEF Wake, Typed, memory, history, Steps
  <1>4. ASSUME NEW j \in todo, Fetch(j) PROVE Typed'
    <2>1. j \in Job /\ j.feed.url \in Url
      BY DEF Typed, Job, Feed
    <2>2. items' \in SUBSET Link
      BY <1>4, <2>1 DEF Fetch, Answers, Typed
    <2> QED BY <1>0, <1>4, <2>1, <2>2 DEF Fetch, Typed, memory, history, Steps
  <1>5. ASSUME NEW j \in todo, FetchFails(j) PROVE Typed'
    BY <1>5 DEF FetchFails, Typed, memory, history
  <1>6. CASE Sleep
    BY <1>0, <1>6 DEF Sleep, Typed, memory, round, history, Steps
  <1>7. ASSUME NEW l \in Link, ScanFirst(l) PROVE Typed'
    BY <1>7, MarkSeenType DEF ScanFirst, Typed
  <1>8. ASSUME NEW l \in Link, ScanNew(l) PROVE Typed'
    <2>1. /\ seen' \in SUBSET Link /\ backlog' \in [Id -> SUBSET Link]
          /\ fresh' \in SUBSET Link
      BY <1>8, MarkSeenType DEF ScanNew, Typed
    <2> QED BY <1>8, <2>1 DEF ScanNew, Typed
  <1>9. ASSUME NEW l \in Link, Grab(l) PROVE Typed'
    BY <1>0, <1>9 DEF Grab, Typed, memory, Steps
  <1>10. CASE Scanned
    BY <1>0, <1>10 DEF Scanned, Typed, memory, round, history, Steps
  <1>11. CASE Seed
    <2>1. feeds' \in [Id -> Feed \cup {NoFeed}]
      BY <1>11 DEF Seed, Typed, Feed
    <2> QED BY <1>0, <1>11, <2>1 DEF Seed, Typed, history, Steps
  <1>12. ASSUME NEW a \in Actor, Snapshot(a) PROVE Typed'
    <2>1. [feeds |-> feeds, seen |-> seen] \in Saved
      BY DEF Typed, Saved
    <2> QED BY <1>12, <2>1 DEF Snapshot, Typed, memory, round, history, Steps
  <1>13. ASSUME NEW a \in Actor, Truncate(a) PROVE Typed'
    BY <1>13 DEF Truncate, Typed, memory, round, history, Steps
  <1>14. ASSUME NEW a \in Actor, Write(a) \/ SaveFails(a) PROVE Typed'
    <2>1. After(a) \in Steps \ {"truncate", "write"}
      BY DEF After, Steps
    <2>2. file' \in Saved \cup {Empty, Torn}
      BY <1>14 DEF Write, SaveFails, Typed
    <2>3. /\ pc' \in [Actor -> Steps] /\ snap' \in [Actor -> Saved \cup {NoSnap}]
          /\ \A b \in Actor : pc'[b] \in {"truncate", "write"} => snap'[b] \in Saved
      BY <1>14, <2>1 DEF Write, SaveFails, Finish, Typed
    <2> QED BY <1>14, <2>2, <2>3 DEF Write, SaveFails, Typed, memory
  <1>15. ASSUME NEW u \in Url, NEW l \in Link, Publish(u, l) PROVE Typed'
    BY <1>15 DEF Publish, Typed, memory, round, history
  <1>16. CASE Restart
    <2>1. Stored.feeds \in [Id -> Feed \cup {NoFeed}] /\ Stored.seen \in SUBSET Link
      BY StoredType DEF Saved
    <2> QED BY <1>16, <2>1 DEF Restart, Load, Typed, Steps
  <1>17. CASE UNCHANGED vars
    BY <1>17 DEF vars, memory, round, history, Typed
  <1> QED
    BY <1>1, <1>2, <1>3, <1>4, <1>5, <1>6, <1>7, <1>8, <1>9, <1>10, <1>11, <1>12, <1>13,
       <1>14, <1>15, <1>16, <1>17 DEF Next

-----------------------------------------------------------------------------
(* A link is added once.  Whatever was added is remembered; all of it has   *)
(* been saved or is known to be lost; the file has what was saved and not   *)
(* lost.  The links the loop is about to add are in one of these.           *)
Remembered ==
    /\ grabbed \subseteq seen
    /\ grabbed \subseteq written \cup lost
    /\ file \in Saved => written \ lost \subseteq file.seen
    /\ pc[Loop] \in {"truncate", "write"} => snap[Loop].seen = seen
    /\ pc[Loop] = "grab" => fresh \cap seen \subseteq written \cup lost

OnceInv == Remembered /\ GrabbedOnce

LEMMA OnceInit == Init => OnceInv
  BY SentinelAssumption DEF Init, OnceInv, Remembered, GrabbedOnce, Actor

LEMMA OnceStep == Typed /\ OnceInv /\ [Next]_vars => OnceInv'
  <1> SUFFICES ASSUME Typed, OnceInv, [Next]_vars PROVE OnceInv'
    OBVIOUS
  <1>0. Loop \in Actor /\ Loop \notin Handler /\ Handler \subseteq Actor
    BY ActorsAssumption DEF Actor
  <1>1. ASSUME NEW h \in Handler, NEW u \in Url, Add(h, u) PROVE OnceInv'
    BY <1>0, <1>1 DEF Add, Typed, round, OnceInv, Remembered, GrabbedOnce
  <1>2. ASSUME NEW h \in Handler, NEW id \in Id, Remove(h, id) PROVE OnceInv'
    BY <1>0, <1>2 DEF Remove, Typed, round, history, OnceInv, Remembered, GrabbedOnce
  <1>3. CASE Wake \/ Sleep \/ Scanned \/ Seed
    BY <1>0, <1>3 DEF Wake, Sleep, Scanned, Seed, Typed, memory, round, history, OnceInv,
                      Remembered, GrabbedOnce
  <1>4. ASSUME NEW j \in todo, Fetch(j) \/ FetchFails(j) PROVE OnceInv'
    BY <1>0, <1>4 DEF Fetch, FetchFails, Typed, memory, history, OnceInv, Remembered,
                      GrabbedOnce
  <1>7. ASSUME NEW l \in Link, ScanFirst(l) PROVE OnceInv'
    BY <1>7, MarkSeenType DEF ScanFirst, OnceInv, Remembered, GrabbedOnce
  <1>8. ASSUME NEW l \in Link, ScanNew(l) PROVE OnceInv'
    BY <1>8, MarkSeenType DEF ScanNew, OnceInv, Remembered, GrabbedOnce
  <1>9. ASSUME NEW l \in Link, Grab(l) PROVE OnceInv'
    <2>1. pc[Loop] = "grab" /\ pc'[Loop] \in {"grab", "round"}
      BY <1>0, <1>9 DEF Grab, Typed
    <2> QED BY <1>9, <2>1 DEF Grab, memory, OnceInv, Remembered, GrabbedOnce
  <1>12. ASSUME NEW a \in Actor, Snapshot(a) \/ Truncate(a) PROVE OnceInv'
    <2>1. pc'[Loop] # "grab" \/ pc'[Loop] = pc[Loop]
      BY <1>0, <1>12 DEF Snapshot, Truncate, Typed
    <2>2. pc'[Loop] \in {"truncate", "write"} => snap'[Loop].seen = seen
      BY <1>0, <1>12 DEF Snapshot, Truncate, Typed, OnceInv, Remembered
    <2>3. file' = file \/ file' = Empty
      BY <1>12 DEF Snapshot, Truncate
    <2> QED BY <1>12, <2>1, <2>2, <2>3, Sentinels
            DEF Snapshot, Truncate, memory, round, history, OnceInv, Remembered, GrabbedOnce
  <1>13. ASSUME NEW a \in Actor, Write(a) \/ SaveFails(a) PROVE OnceInv'
    <2>1. pc[a] \in {"truncate", "write"} /\ Finish(a)
      BY <1>13 DEF Write, SaveFails
    <2>2. snap[a].seen \subseteq written' \cup lost' /\ written \cup lost \subseteq written' \cup lost'
      BY <1>13 DEF Write, SaveFails
    <2>3. After(a) \notin {"truncate", "write"}
      BY DEF After
    <2>4. pc'[Loop] \in {"truncate", "write"} => snap'[Loop].seen = seen
      BY <1>0, <2>1, <2>3 DEF Finish, Typed, OnceInv, Remembered
    <2>5. pc'[Loop] = "grab" => fresh \cap seen \subseteq written' \cup lost'
      <3>1. CASE a = Loop
        BY <2>1, <2>2, <3>1 DEF OnceInv, Remembered
      <3>2. CASE a # Loop
        BY <1>0, <2>1, <2>2, <3>2 DEF Finish, Typed, OnceInv, Remembered
      <3> QED BY <3>1, <3>2
    <2>6. file' \in Saved => written' \ lost' \subseteq file'.seen
      <3>1. CASE Write(a)
        <4>1. file' = snap[a] \/ file' = Torn
          BY <3>1 DEF Write
        <4>2. written' \ lost' \subseteq snap[a].seen
          BY <3>1 DEF Write
        <4> QED BY <4>1, <4>2, Sentinels
      <3>2. CASE SaveFails(a)
        <4>1. file' = file \/ file' = Torn
          BY <3>2 DEF SaveFails
        <4>2. written' = written /\ lost \subseteq lost'
          BY <3>2 DEF SaveFails
        <4> QED BY <4>1, <4>2, Sentinels DEF OnceInv, Remembered
      <3> QED BY <1>13, <3>1, <3>2
    <2> QED BY <1>13, <2>2, <2>4, <2>5, <2>6
            DEF Write, SaveFails, memory, OnceInv, Remembered, GrabbedOnce
  <1>15. ASSUME NEW u \in Url, NEW l \in Link, Publish(u, l) PROVE OnceInv'
    BY <1>15 DEF Publish, memory, round, history, OnceInv, Remembered, GrabbedOnce
  <1>16. CASE Restart
    <2>1. pc'[Loop] = "idle" /\ fresh' = {} /\ lost' = {} /\ file' = file
      BY <1>0, <1>16 DEF Restart
    <2>2. seen' = Stored.seen /\ written' = Stored.seen
      BY <1>16 DEF Restart, Load
    <2>3. grabbed' \subseteq Stored.seen
      <3>1. CASE file \in Saved
        BY <1>16, <3>1, Sentinels DEF Restart, Stored, OnceInv, Remembered
      <3>2. CASE file \notin Saved
        BY <1>16, <3>2 DEF Restart
      <3> QED BY <3>1, <3>2
    <2>4. file \in Saved => Stored = file
      BY Sentinels DEF Stored
    <2> QED BY <2>1, <2>2, <2>3, <2>4 DEF OnceInv, Remembered, GrabbedOnce
  <1>17. CASE UNCHANGED vars
    BY <1>17 DEF vars, memory, round, history, OnceInv, Remembered, GrabbedOnce
  <1> QED
    BY <1>1, <1>2, <1>3, <1>4, <1>7, <1>8, <1>9, <1>12, <1>13, <1>15, <1>16, <1>17 DEF Next

(* No link is added twice, however many feeds list it and whenever the      *)
(* program dies, unless it fell out of the full set or its mark was lost in *)
(* an older or a failed save (new_links, save).                             *)
THEOREM LinksGrabbedOnce == Spec => []GrabbedOnce
  <1>1. OnceInv => GrabbedOnce
    BY DEF OnceInv
  <1> QED BY <1>1, TypedInit, TypedStep, OnceInit, OnceStep, PTL DEF Spec

-----------------------------------------------------------------------------
(* The backlog of a feed, if no error page is taken for an empty one.       *)
(*                                                                          *)
(* Known says of an image of the subscriptions and the links, in memory, in *)
(* feeds.json or in a save: its feeds have ids that were given out, their   *)
(* pages still list their backlogs, and where a feed counts as seeded the   *)
(* image has its backlog among the links.                                   *)
Known(image, next, logs, pages) ==
    \A id \in Id : image.feeds[id] # NoFeed =>
        /\ id < next
        /\ logs[id] \subseteq pages[image.feeds[id].url]
        /\ image.feeds[id].seeded => logs[id] \subseteq image.seen

Memory == [feeds |-> feeds, seen |-> seen]

MemoryKnown == Known(Memory, nextId, backlog, page)
FileKnown   == file \in Saved => Known(file, nextId, backlog, page)
SavesKnown  == \A a \in Actor : snap[a] \in Saved => Known(snap[a], nextId, backlog, page)

(* The loop's copies of feeds: those of seeded ones have their backlog      *)
(* among the links; a first fetch has what it has not marked among its      *)
(* items, and nothing once it marks the feed.                               *)
CopiesKnown ==
    /\ \A j \in todo \cup cur : /\ j.id < nextId
                                /\ j.feed.seeded => backlog[j.id] \subseteq seen
    /\ \A j \in todo : backlog[j.id] \subseteq page[j.feed.url]

ScanKnown ==
    /\ pc[Loop] = "scan" /\ First => \A j \in cur : backlog[j.id] \subseteq seen \cup items
    /\ pc[Loop] = "seed" => \A j \in cur : backlog[j.id] \subseteq seen
    /\ pc[Loop] \in {"idle", "round"} => fresh = {}

LoopKnown == CopiesKnown /\ ScanKnown

BacklogInv == MemoryKnown /\ FileKnown /\ SavesKnown /\ LoopKnown /\ NoBacklog

(* More ids, shorter backlogs and longer pages.                             *)
LEMMA KnownKept ==
    ASSUME NEW image \in Saved, NEW n \in Nat, NEW k \in Nat, NEW b, NEW c, NEW p, NEW q,
           Known(image, n, b, p), n <= k,
           \A id \in Id : id < n => c[id] \subseteq b[id],
           \A u \in Url : p[u] \subseteq q[u]
    PROVE  Known(image, k, c, q)
  <1> SUFFICES ASSUME NEW id \in Id, image.feeds[id] # NoFeed
               PROVE  /\ id < k
                      /\ c[id] \subseteq q[image.feeds[id].url]
                      /\ image.feeds[id].seeded => c[id] \subseteq image.seen
    BY DEF Known
  <1>1. image.feeds[id].url \in Url
    BY DEF Saved, Feed
  <1>2. id < n /\ b[id] \subseteq p[image.feeds[id].url]
    BY DEF Known
  <1>3. id < k
    BY <1>2, BoundsAssumption DEF Id
  <1> QED BY <1>1, <1>2, <1>3 DEF Known

LEMMA MemoryType == Typed => Memory \in Saved /\ nextId \in Nat
  BY BoundsAssumption DEF Typed, Memory, Saved

(* What a step that changes no image but those of one actor has to show.    *)
LEMMA ImagesKept ==
    ASSUME Typed, Typed', MemoryKnown, FileKnown, SavesKnown,
           nextId <= nextId',
           \A id \in Id : id < nextId => backlog'[id] \subseteq backlog[id],
           \A u \in Url : page[u] \subseteq page'[u]
    PROVE  /\ Known(Memory, nextId', backlog', page')
           /\ file \in Saved => Known(file, nextId', backlog', page')
           /\ \A a \in Actor : snap[a] \in Saved => Known(snap[a], nextId', backlog', page')
  <1>1. nextId \in Nat /\ nextId' \in Nat /\ Memory \in Saved
    BY MemoryType, BoundsAssumption DEF Typed
  <1>2. Known(Memory, nextId', backlog', page')
    BY <1>1, KnownKept DEF MemoryKnown
  <1>3. file \in Saved => Known(file, nextId', backlog', page')
    BY <1>1, KnownKept DEF FileKnown
  <1>4. \A a \in Actor : snap[a] \in Saved => Known(snap[a], nextId', backlog', page')
    BY <1>1, KnownKept DEF SavesKnown
  <1> QED BY <1>2, <1>3, <1>4

LEMMA BacklogInit == Init => BacklogInv
  <1> SUFFICES ASSUME Init PROVE BacklogInv
    OBVIOUS
  <1>1. /\ feeds = [id \in Id |-> NoFeed] /\ file \notin Saved /\ fresh = {}
        /\ todo = {} /\ cur = {} /\ pc[Loop] = "idle"
        /\ \A a \in Actor : snap[a] \notin Saved
    BY SentinelAssumption DEF Init, NoFeeds, Actor
  <1>2. Memory.feeds = feeds
    BY DEF Memory
  <1>3. MemoryKnown
    BY <1>1, <1>2 DEF MemoryKnown, Known
  <1>4. LoopKnown /\ NoBacklog
    BY <1>1 DEF LoopKnown, CopiesKnown, ScanKnown, NoBacklog
  <1> QED BY <1>1, <1>3, <1>4 DEF BacklogInv, FileKnown, SavesKnown

(* A link falls out of the set and of the backlogs at once.                 *)
LEMMA MarkKnown ==
    ASSUME Typed, Typed', BacklogInv, NEW l \in Link, MarkSeen(l),
           UNCHANGED <<feeds, nextId, file, snap, page, todo, cur>>
    PROVE  /\ MemoryKnown' /\ FileKnown' /\ SavesKnown' /\ CopiesKnown'
           /\ \A id \in Id : backlog'[id] \subseteq backlog[id]
           /\ \A id \in Id : backlog[id] \subseteq seen => backlog'[id] \subseteq seen'
           /\ \A id \in Id : \A S : backlog[id] \subseteq seen \cup S =>
                 backlog'[id] \subseteq seen' \cup (S \ {l})
  <1>1. PICK gone : /\ seen' = (seen \cup {l}) \ gone
                    /\ backlog' = [id \in Id |-> backlog[id] \ gone]
    BY MarkSeenType
  <1>2. \A id \in Id : backlog'[id] = backlog[id] \ gone
    BY <1>1
  <1>3. nextId \in Nat /\ Memory \in Saved
    BY MemoryType
  <1>4. /\ Known(Memory, nextId, backlog', page)
        /\ file \in Saved => Known(file, nextId, backlog', page)
        /\ \A a \in Actor : snap[a] \in Saved => Known(snap[a], nextId, backlog', page)
    BY <1>2, <1>3, ImagesKept DEF BacklogInv
  <1>5. MemoryKnown'
    <2> SUFFICES ASSUME NEW id \in Id, feeds[id] # NoFeed
                 PROVE  /\ id < nextId
                        /\ backlog'[id] \subseteq page[feeds[id].url]
                        /\ feeds[id].seeded => backlog'[id] \subseteq seen'
      BY DEF MemoryKnown, Known, Memory
    <2>1. /\ id < nextId /\ backlog'[id] \subseteq page[feeds[id].url]
          /\ feeds[id].seeded => backlog[id] \subseteq seen
      BY <1>4 DEF BacklogInv, MemoryKnown, Known, Memory
    <2> QED BY <1>1, <1>2, <2>1
  <1>6. CopiesKnown'
    <2>1. \A j \in todo \cup cur : j.id \in Id
      BY DEF Typed, Job
    <2>2. CopiesKnown
      BY DEF BacklogInv, LoopKnown
    <2> QED BY <1>1, <1>2, <2>1, <2>2 DEF CopiesKnown
  <1> QED BY <1>1, <1>2, <1>4, <1>5, <1>6 DEF FileKnown, SavesKnown

LEMMA BacklogStep ==
    ASSUME Typed, BacklogInv, ~ErrorPages, [Next]_vars PROVE BacklogInv'
  <1>t. Typed'
    BY TypedStep
  <1>0. Loop \in Actor /\ Loop \notin Handler /\ Handler \subseteq Actor
    BY ActorsAssumption DEF Actor
  <1>a. /\ \A j \in todo \cup cur : j.id \in Id /\ j.feed.url \in Url
        /\ nextId \in Nat /\ pc \in [Actor -> Steps] /\ Memory \in Saved
        /\ snap \in [Actor -> Saved \cup {NoSnap}]
    BY MemoryType DEF Typed, Job, Feed
  <1>1. ASSUME NEW h \in Handler, NEW u \in Url, Add(h, u) PROVE BacklogInv'
    <2>1. /\ nextId' = nextId + 1 /\ nextId \in Id
          /\ \A id \in Id : id < nextId => backlog'[id] = backlog[id]
          /\ backlog'[nextId] = page[u]
          /\ feeds' = [feeds EXCEPT ![nextId] = [url |-> u, seeded |-> FALSE]]
          /\ seen' = seen /\ page' = page /\ file' = file /\ snap' = snap
          /\ UNCHANGED <<todo, cur, items, fresh>> /\ pc'[Loop] = pc[Loop]
      BY <1>0, <1>1, <1>a, BoundsAssumption DEF Add, Typed, Id, round
    <2>2. /\ Known(Memory, nextId', backlog', page')
          /\ file \in Saved => Known(file, nextId', backlog', page')
          /\ \A a \in Actor : snap[a] \in Saved => Known(snap[a], nextId', backlog', page')
      <3>1. nextId <= nextId' /\ \A id \in Id : id < nextId => backlog'[id] \subseteq backlog[id]
        BY <1>a, <2>1
      <3>2. \A v \in Url : page[v] \subseteq page'[v]
        BY <2>1
      <3> QED BY <1>t, <3>1, <3>2, ImagesKept DEF BacklogInv
    <2>3. MemoryKnown'
      <3> SUFFICES ASSUME NEW id \in Id, feeds'[id] # NoFeed
                   PROVE  /\ id < nextId'
                          /\ backlog'[id] \subseteq page'[feeds'[id].url]
                          /\ feeds'[id].seeded => backlog'[id] \subseteq seen'
        BY DEF MemoryKnown, Known, Memory
      <3>1. CASE id = nextId
        <4>1. feeds'[id] = [url |-> u, seeded |-> FALSE]
          BY <2>1, <3>1 DEF Typed
        <4> QED BY <1>a, <2>1, <3>1, <4>1
      <3>2. CASE id # nextId
        <4>1. feeds'[id] = feeds[id]
          BY <2>1, <3>2 DEF Typed
        <4> QED BY <2>1, <2>2, <4>1 DEF Known, Memory
      <3> QED BY <3>1, <3>2
    <2>5. \A j \in todo \cup cur : backlog'[j.id] = backlog[j.id] /\ j.id < nextId'
      <3> SUFFICES ASSUME NEW j \in todo \cup cur
                   PROVE  backlog'[j.id] = backlog[j.id] /\ j.id < nextId'
        OBVIOUS
      <3>1. j.id \in Id /\ j.id \in Int
        BY <1>a, BoundsAssumption DEF Id
      <3>2. j.id < nextId
        BY DEF BacklogInv, LoopKnown, CopiesKnown
      <3> QED BY <1>a, <2>1, <3>1, <3>2
    <2>4. CopiesKnown'
      <3>1. CopiesKnown
        BY DEF BacklogInv, LoopKnown
      <3> QED BY <2>1, <2>5, <3>1 DEF CopiesKnown
    <2>6. ScanKnown' /\ NoBacklog'
      BY <2>1, <2>5 DEF BacklogInv, LoopKnown, ScanKnown, NoBacklog, First
    <2> QED BY <2>1, <2>2, <2>3, <2>4, <2>6 DEF BacklogInv, FileKnown, SavesKnown, LoopKnown
  <1>2. ASSUME NEW h \in Handler, NEW id \in Id, Remove(h, id) PROVE BacklogInv'
    <2>1. /\ feeds' = [feeds EXCEPT ![id] = NoFeed] /\ pc'[Loop] = pc[Loop]
          /\ UNCHANGED <<seen, nextId, file, snap, todo, cur, items, fresh, page, backlog>>
      BY <1>0, <1>2, <1>a DEF Remove, round, history
    <2>2. MemoryKnown'
      <3> SUFFICES ASSUME NEW k \in Id, feeds'[k] # NoFeed
                   PROVE  /\ k < nextId
                          /\ backlog[k] \subseteq page[feeds'[k].url]
                          /\ feeds'[k].seeded => backlog[k] \subseteq seen
        BY <2>1 DEF MemoryKnown, Known, Memory
      <3>1. feeds'[k] = feeds[k]
        BY <2>1 DEF Typed
      <3> QED BY <3>1 DEF BacklogInv, MemoryKnown, Known, Memory
    <2> QED BY <2>1, <2>2 DEF BacklogInv, FileKnown, SavesKnown, LoopKnown, CopiesKnown, ScanKnown,
                              NoBacklog, First
  <1>3. CASE Wake
    <2>1. /\ todo' = {j \in Job : feeds[j.id] = j.feed} /\ pc[Loop] = "idle" /\ pc'[Loop] = "round"
          /\ UNCHANGED <<feeds, seen, nextId, file, snap, cur, items, fresh, page, backlog>>
      BY <1>0, <1>3, <1>a DEF Wake, memory, history
    <2>2. \A j \in todo' : /\ j.id < nextId /\ backlog[j.id] \subseteq page[j.feed.url]
                           /\ j.feed.seeded => backlog[j.id] \subseteq seen
      <3> SUFFICES ASSUME NEW j \in Job, feeds[j.id] = j.feed
                   PROVE  /\ j.id < nextId /\ backlog[j.id] \subseteq page[j.feed.url]
                          /\ j.feed.seeded => backlog[j.id] \subseteq seen
        BY <2>1
      <3>1. j.id \in Id /\ feeds[j.id] # NoFeed
        BY Sentinels DEF Job
      <3> QED BY <3>1 DEF BacklogInv, MemoryKnown, Known, Memory
    <2>3. CopiesKnown'
      BY <2>1, <2>2 DEF BacklogInv, LoopKnown, CopiesKnown
    <2>4. MemoryKnown' /\ FileKnown' /\ SavesKnown' /\ NoBacklog' /\ ScanKnown'
      BY <2>1 DEF BacklogInv, MemoryKnown, Memory, FileKnown, SavesKnown, NoBacklog, LoopKnown, ScanKnown
    <2> QED BY <2>3, <2>4 DEF BacklogInv, LoopKnown
  <1>4. ASSUME NEW j \in todo, Fetch(j) PROVE BacklogInv'
    <2>1. /\ items' = page[j.feed.url] /\ todo' = todo \ {j} /\ cur' = {j}
          /\ pc[Loop] = "round" /\ pc'[Loop] = "scan"
          /\ UNCHANGED <<feeds, seen, nextId, file, snap, fresh, page, backlog>>
      BY <1>0, <1>4, <1>a DEF Fetch, Answers, memory, history
    <2>2. CopiesKnown /\ fresh = {}
      BY <2>1 DEF BacklogInv, LoopKnown, ScanKnown
    <2>3. CopiesKnown' /\ ScanKnown' /\ NoBacklog'
      BY <2>1, <2>2 DEF CopiesKnown, ScanKnown, NoBacklog
    <2> QED BY <2>1, <2>3 DEF BacklogInv, MemoryKnown, Memory, FileKnown, SavesKnown, LoopKnown
  <1>5. ASSUME NEW j \in todo, FetchFails(j) PROVE BacklogInv'
    BY <1>5 DEF FetchFails, memory, history, BacklogInv, MemoryKnown, Memory, FileKnown, SavesKnown,
                LoopKnown, CopiesKnown, ScanKnown, NoBacklog, First
  <1>6. CASE Sleep \/ Scanned
    <2>1. /\ UNCHANGED <<feeds, seen, nextId, file, snap, todo, cur, items, fresh, page, backlog>>
          /\ pc'[Loop] = "seed" => pc[Loop] = "scan" /\ First /\ items = {}
          /\ pc'[Loop] \in {"idle", "round"} => pc[Loop] = "round" \/ (~First /\ fresh = {})
          /\ pc'[Loop] # "scan"
      <3>1. CASE Sleep
        <4>1. pc[Loop] = "round" /\ pc'[Loop] = "idle"
          BY <1>0, <1>a, <3>1 DEF Sleep
        <4>2. UNCHANGED <<feeds, seen, nextId, file, snap, todo, cur, items, fresh, page, backlog>>
          BY <3>1 DEF Sleep, memory, round, history
        <4> QED BY <4>1, <4>2
      <3>2. CASE Scanned
        <4>1. /\ pc'[Loop] \in {"seed", "save", "round"} /\ pc[Loop] = "scan" /\ items = {}
              /\ pc'[Loop] = "seed" => First
              /\ pc'[Loop] = "round" => ~First /\ fresh = {}
          <5>1. CASE First
            BY <1>0, <1>a, <3>2, <5>1 DEF Scanned
          <5>2. CASE ~First /\ fresh # {}
            BY <1>0, <1>a, <3>2, <5>2 DEF Scanned
          <5>3. CASE ~First /\ fresh = {}
            BY <1>0, <1>a, <3>2, <5>3 DEF Scanned
          <5> QED BY <5>1, <5>2, <5>3
        <4> QED BY <3>2, <4>1 DEF Scanned, memory, round, history
      <3> QED BY <1>6, <3>1, <3>2
    <2>2. ScanKnown'
      BY <2>1 DEF BacklogInv, LoopKnown, ScanKnown
    <2> QED BY <2>1, <2>2 DEF BacklogInv, MemoryKnown, Memory, FileKnown, SavesKnown, LoopKnown,
                              CopiesKnown, NoBacklog
  <1>7. ASSUME NEW l \in Link, ScanFirst(l) PROVE BacklogInv'
    <2>1. /\ MarkSeen(l) /\ items' = items \ {l} /\ pc' = pc /\ fresh' = fresh
          /\ pc[Loop] = "scan" /\ First
          /\ UNCHANGED <<feeds, nextId, file, snap, page, todo, cur>>
      BY <1>7 DEF ScanFirst
    <2>2. /\ MemoryKnown' /\ FileKnown' /\ SavesKnown' /\ CopiesKnown'
          /\ \A id \in Id : backlog'[id] \subseteq backlog[id]
          /\ \A id \in Id : backlog[id] \subseteq seen \cup items =>
                backlog'[id] \subseteq seen' \cup (items \ {l})
      BY <1>t, <2>1, MarkKnown
    <2>3. NoBacklog' /\ ScanKnown'
      BY <1>a, <2>1, <2>2 DEF BacklogInv, LoopKnown, NoBacklog, ScanKnown
    <2> QED BY <2>2, <2>3 DEF BacklogInv, LoopKnown
  <1>8. ASSUME NEW l \in Link, ScanNew(l) PROVE BacklogInv'
    <2>1. /\ items' = items \ {l} /\ pc' = pc /\ pc[Loop] = "scan" /\ ~First
          /\ UNCHANGED <<feeds, nextId, file, snap, page, todo, cur>>
      BY <1>8 DEF ScanNew
    <2>2. CASE l \in Wanted \ seen
      <3>1. MarkSeen(l) /\ fresh' = fresh \cup {l} /\ l \notin seen
        BY <1>8, <2>2 DEF ScanNew
      <3>2. /\ MemoryKnown' /\ FileKnown' /\ SavesKnown' /\ CopiesKnown'
            /\ \A id \in Id : backlog'[id] \subseteq backlog[id]
        BY <1>t, <2>1, <3>1, MarkKnown
      <3>3. \A j \in cur : backlog[j.id] \subseteq seen
        <4>1. \A j \in cur : j.feed.seeded
          BY <2>1, Zenon DEF First
        <4>2. \A j \in cur : j.feed.seeded => backlog[j.id] \subseteq seen
          BY DEF BacklogInv, LoopKnown, CopiesKnown
        <4> QED BY <4>1, <4>2, Zenon
      <3>4. NoBacklog'
        BY <1>a, <2>1, <3>1, <3>2, <3>3 DEF BacklogInv, NoBacklog
      <3>5. ScanKnown'
        BY <2>1 DEF ScanKnown, First
      <3> QED BY <3>2, <3>4, <3>5 DEF BacklogInv, LoopKnown
    <2>3. CASE l \notin Wanted \ seen
      <3>1. UNCHANGED <<fresh, seen, backlog>>
        BY <1>8, <2>3 DEF ScanNew
      <3> QED BY <2>1, <3>1 DEF BacklogInv, MemoryKnown, Memory, FileKnown, SavesKnown, LoopKnown,
                                CopiesKnown, ScanKnown, NoBacklog, First
    <2> QED BY <2>2, <2>3
  <1>9. ASSUME NEW l \in Link, Grab(l) PROVE BacklogInv'
    <2>1. /\ fresh' = fresh \ {l} /\ pc'[Loop] = IF fresh' = {} THEN "round" ELSE "grab"
          /\ UNCHANGED <<feeds, seen, nextId, file, snap, todo, cur, items, page, backlog>>
      BY <1>0, <1>9, <1>a DEF Grab, memory
    <2> QED BY <2>1 DEF BacklogInv, MemoryKnown, Memory, FileKnown, SavesKnown, LoopKnown,
                        CopiesKnown, ScanKnown, NoBacklog
  <1>11. CASE Seed
    <2>1. /\ feeds' = [id \in Id |-> IF feeds[id] # NoFeed /\ \E j \in cur : j.id = id
                                     THEN [feeds[id] EXCEPT !.seeded = TRUE] ELSE feeds[id]]
          /\ pc[Loop] = "seed" /\ pc'[Loop] = "save"
          /\ UNCHANGED <<seen, nextId, file, snap, todo, cur, items, fresh, page, backlog>>
      BY <1>0, <1>11, <1>a DEF Seed, history
    <2>2. MemoryKnown'
      <3> SUFFICES ASSUME NEW id \in Id, feeds'[id] # NoFeed
                   PROVE  /\ id < nextId
                          /\ backlog[id] \subseteq page[feeds'[id].url]
                          /\ feeds'[id].seeded => backlog[id] \subseteq seen
        BY <2>1 DEF MemoryKnown, Known, Memory
      <3>1. CASE feeds[id] # NoFeed /\ \E j \in cur : j.id = id
        <4>1. feeds'[id] = [feeds[id] EXCEPT !.seeded = TRUE] /\ feeds[id] \in Feed
          BY <2>1, <3>1 DEF Typed
        <4>2. feeds'[id].url = feeds[id].url
          BY <4>1 DEF Feed
        <4>3. backlog[id] \subseteq seen
          BY <2>1, <3>1 DEF BacklogInv, LoopKnown, ScanKnown
        <4> QED BY <3>1, <4>2, <4>3 DEF BacklogInv, MemoryKnown, Known, Memory
      <3>2. CASE ~(feeds[id] # NoFeed /\ \E j \in cur : j.id = id)
        <4>1. feeds'[id] = feeds[id]
          BY <2>1, <3>2
        <4> QED BY <4>1 DEF BacklogInv, MemoryKnown, Known, Memory
      <3> QED BY <3>1, <3>2
    <2> QED BY <2>1, <2>2 DEF BacklogInv, FileKnown, SavesKnown, LoopKnown, CopiesKnown, ScanKnown,
                              NoBacklog
  <1>12. ASSUME NEW a \in Actor, Snapshot(a) PROVE BacklogInv'
    <2>1. /\ snap' = [snap EXCEPT ![a] = Memory] /\ pc'[Loop] \in {pc[Loop], "truncate"}
          /\ UNCHANGED <<feeds, seen, nextId, file, todo, cur, items, fresh, page, backlog>>
      BY <1>0, <1>12, <1>a DEF Snapshot, Memory, memory, round, history
    <2>2. SavesKnown'
      <3> SUFFICES ASSUME NEW b \in Actor, snap'[b] \in Saved
                   PROVE  Known(snap'[b], nextId, backlog, page)
        BY <2>1 DEF SavesKnown
      <3>1. snap'[b] = Memory \/ snap'[b] = snap[b]
        BY <1>a, <2>1
      <3> QED BY <3>1 DEF BacklogInv, MemoryKnown, SavesKnown
    <2> QED BY <2>1, <2>2 DEF BacklogInv, MemoryKnown, Memory, FileKnown, LoopKnown, CopiesKnown,
                              ScanKnown, NoBacklog, First
  <1>13. ASSUME NEW a \in Actor, Truncate(a) PROVE BacklogInv'
    <2>1. /\ file' = Empty /\ pc'[Loop] \in {pc[Loop], "write"}
          /\ UNCHANGED <<feeds, seen, nextId, snap, todo, cur, items, fresh, page, backlog>>
      BY <1>0, <1>13, <1>a DEF Truncate, memory, round, history
    <2> QED BY <2>1, Sentinels DEF BacklogInv, MemoryKnown, Memory, FileKnown, SavesKnown,
                                   LoopKnown, CopiesKnown, ScanKnown, NoBacklog, First
  <1>14. ASSUME NEW a \in Actor, Write(a) \/ SaveFails(a) PROVE BacklogInv'
    <2>1. /\ snap' = [snap EXCEPT ![a] = NoSnap] /\ file' \in {file, snap[a], Torn}
          /\ UNCHANGED <<feeds, seen, nextId, todo, cur, items, fresh, page, backlog>>
      BY <1>14 DEF Write, SaveFails, Finish, memory
    <2>2. /\ pc'[Loop] \in {pc[Loop], "save", "grab", "round"}
          /\ pc'[Loop] = "round" => fresh = {} \/ pc[Loop] = "round"
      <3>1. pc' = [pc EXCEPT ![a] = After(a)]
        BY <1>14 DEF Write, SaveFails, Finish
      <3>2. CASE a = Loop
        <4>1. After(a) \in {"save", "grab", "round"} /\ (After(a) = "round" => fresh = {})
          BY <3>2 DEF After
        <4> QED BY <1>0, <1>a, <3>1, <3>2, <4>1
      <3>3. CASE a # Loop
        BY <1>0, <1>a, <3>1, <3>3
      <3> QED BY <3>2, <3>3
    <2>3. SavesKnown' /\ FileKnown'
      BY <1>a, <2>1, Sentinels DEF BacklogInv, SavesKnown, FileKnown
    <2>4. ScanKnown'
      BY <2>1, <2>2 DEF BacklogInv, LoopKnown, ScanKnown, First
    <2> QED BY <2>1, <2>3, <2>4 DEF BacklogInv, MemoryKnown, Memory, LoopKnown, CopiesKnown, NoBacklog
  <1>15. ASSUME NEW u \in Url, NEW l \in Link, Publish(u, l) PROVE BacklogInv'
    <2>1. /\ page' = [page EXCEPT ![u] = @ \cup {l}]
          /\ UNCHANGED <<feeds, seen, nextId, file, pc, snap, todo, cur, items, fresh, backlog>>
      BY <1>15 DEF Publish, memory, round, history
    <2>2. \A v \in Url : page[v] \subseteq page'[v]
      BY <2>1 DEF Typed
    <2>3. /\ Known(Memory, nextId', backlog', page')
          /\ file \in Saved => Known(file, nextId', backlog', page')
          /\ \A a \in Actor : snap[a] \in Saved => Known(snap[a], nextId', backlog', page')
      <3>1. nextId <= nextId' /\ \A id \in Id : id < nextId => backlog'[id] \subseteq backlog[id]
        BY <1>a, <2>1
      <3> QED BY <1>t, <2>2, <3>1, ImagesKept DEF BacklogInv
    <2>4. CopiesKnown' /\ ScanKnown' /\ NoBacklog'
      BY <1>a, <2>1, <2>2 DEF BacklogInv, LoopKnown, CopiesKnown, ScanKnown, NoBacklog, First
    <2> QED BY <2>1, <2>3, <2>4 DEF BacklogInv, MemoryKnown, Memory, FileKnown, SavesKnown, LoopKnown
  <1>16. CASE Restart
    <2>1. /\ pc'[Loop] = "idle" /\ fresh' = {} /\ todo' = {} /\ cur' = {} /\ file' = file
          /\ \A a \in Actor : snap'[a] = NoSnap
          /\ feeds' = Stored.feeds /\ seen' = Stored.seen /\ page' = page /\ backlog' = backlog
          /\ \A id \in Id : Stored.feeds[id] # NoFeed => id < nextId'
      BY <1>0, <1>16 DEF Restart, Load
    <2>2. CASE file \in Saved
      <3>1. Stored = file
        BY <2>2, Sentinels DEF Stored
      <3>2. Known(file, nextId', backlog', page')
        BY <2>1, <2>2, <3>1 DEF BacklogInv, FileKnown, Known
      <3>3. MemoryKnown'
        BY <2>1, <3>1, <3>2 DEF MemoryKnown, Memory, Known
      <3> QED BY <2>1, <3>2, <3>3, Sentinels
              DEF BacklogInv, FileKnown, SavesKnown, LoopKnown, CopiesKnown, ScanKnown, NoBacklog
    <2>3. CASE file \notin Saved
      <3>1. \A id \in Id : Stored.feeds[id] = NoFeed
        BY <2>3 DEF Stored, NoFeeds, Typed
      <3>2. MemoryKnown'
        BY <2>1, <3>1 DEF MemoryKnown, Memory, Known
      <3> QED BY <2>1, <2>3, <3>2, Sentinels
              DEF BacklogInv, FileKnown, SavesKnown, LoopKnown, CopiesKnown, ScanKnown, NoBacklog
    <2> QED BY <2>2, <2>3
  <1>17. CASE UNCHANGED vars
    BY <1>17 DEF vars, memory, round, history, BacklogInv, MemoryKnown, Memory, FileKnown, SavesKnown,
                 LoopKnown, CopiesKnown, ScanKnown, NoBacklog, First
  <1> QED
    BY <1>1, <1>2, <1>3, <1>4, <1>5, <1>6, <1>7, <1>8, <1>9, <1>11, <1>12, <1>13, <1>14, <1>15,
       <1>16, <1>17 DEF Next

LEMMA BacklogSeeded == ASSUME Typed, BacklogInv PROVE SeededSeen
  BY DEF BacklogInv, MemoryKnown, FileKnown, SavesKnown, Known, Memory, SeededSeen, Covers, Typed

(* A feed that counts as seeded has its backlog among the links, in memory, *)
(* in every save under way and in feeds.json, so in whatever a crash leaves *)
(* behind, for servers that answer with the page or not at all (new_links,  *)
(* mark_seeded, save).                                                      *)
THEOREM SeededAreSeen == ASSUME ~ErrorPages PROVE Spec => []SeededSeen
  <1> QED BY BacklogSeeded, TypedInit, TypedStep, BacklogInit, BacklogStep, PTL DEF Spec

(* The loop never adds what a page listed when it was subscribed, whatever  *)
(* is subscribed, removed, saved or lost in a crash meanwhile, for servers  *)
(* that answer with the page or not at all (new_links).                     *)
THEOREM BacklogNotGrabbed == ASSUME ~ErrorPages PROVE Spec => []NoBacklog
  <1>1. BacklogInv => NoBacklog
    BY DEF BacklogInv
  <1> QED BY <1>1, TypedInit, TypedStep, BacklogInit, BacklogStep, PTL DEF Spec

-----------------------------------------------------------------------------
(* The limit on the links that are remembered, and the type invariant.      *)
(*                                                                          *)
(* A restart reads the links from the file, and the file is written from    *)
(* what a save collected: the limit is said of all three.  Ids are those    *)
(* given out; a restart forgets the loop's copies before it counts anew.    *)
Fits(S) == IsFiniteSet(S) /\ Cardinality(S) <= MaxSeen

LinksFit ==
    /\ Fits(seen)
    /\ file \in Saved => Fits(file.seen)
    /\ \A a \in Actor : snap[a] \in Saved => Fits(snap[a].seen)

IdsGiven ==
    /\ \A id \in Id : feeds[id] # NoFeed => id < nextId
    /\ \A j \in todo \cup cur : j.id < nextId

HistoryTyped ==
    /\ {grabbed, written, lost} \subseteq SUBSET Link
    /\ again \in BOOLEAN /\ restarts \in 0 .. MaxRestarts

(* mark_seen makes room for what is above the limit, and only for that.     *)
LEMMA MarkSeenFits ==
    ASSUME Fits(seen), NEW l \in Link, MarkSeen(l)
    PROVE  Fits(seen')
  <1> DEFINE all == seen \cup {l}
  <1>1. PICK gone \in SUBSET all :
           /\ Cardinality(gone) = IF Cardinality(all) > MaxSeen
                                  THEN Cardinality(all) - MaxSeen ELSE 0
           /\ seen' = all \ gone
    BY DEF MarkSeen
  <1>2. IsFiniteSet(all) /\ Cardinality(all) \in Nat
    BY FS_AddElement, FS_CardinalityType DEF Fits
  <1>3. all \cap gone = gone
    BY <1>1
  <1>4. IsFiniteSet(all \ gone) /\ Cardinality(all \ gone) = Cardinality(all) - Cardinality(gone)
    BY <1>2, <1>3, FS_Difference
  <1> HIDE DEF all
  <1> QED BY <1>1, <1>2, <1>4, BoundsAssumption DEF Fits

LEMMA LinksFitInit == Init => LinksFit
  BY Sentinels, FS_EmptySet, BoundsAssumption DEF Init, LinksFit, Fits

LEMMA LinksFitStep == Typed /\ LinksFit /\ [Next]_vars => LinksFit'
  <1> SUFFICES ASSUME Typed, LinksFit, [Next]_vars PROVE LinksFit'
    OBVIOUS
  <1>1. ASSUME NEW l \in Link, ScanFirst(l) \/ ScanNew(l) PROVE LinksFit'
    <2>1. UNCHANGED <<file, snap>> /\ (seen' = seen \/ MarkSeen(l))
      BY <1>1 DEF ScanFirst, ScanNew
    <2>2. Fits(seen')
      BY <2>1, MarkSeenFits DEF LinksFit
    <2> QED BY <2>1, <2>2 DEF LinksFit
  <1>2. ASSUME NEW a \in Actor, Snapshot(a) PROVE LinksFit'
    <2>1. /\ UNCHANGED <<seen, file>>
          /\ snap' = [snap EXCEPT ![a] = [feeds |-> feeds, seen |-> seen]]
      BY <1>2 DEF Snapshot, memory
    <2>2. \A b \in Actor : snap'[b] \in Saved => Fits(snap'[b].seen)
      BY <2>1 DEF Typed, LinksFit
    <2> QED BY <2>1, <2>2 DEF LinksFit
  <1>3. ASSUME NEW a \in Actor, Truncate(a) PROVE LinksFit'
    BY <1>3, Sentinels DEF Truncate, memory, LinksFit
  <1>4. ASSUME NEW a \in Actor, Write(a) \/ SaveFails(a) PROVE LinksFit'
    <2>1. seen' = seen /\ snap' = [snap EXCEPT ![a] = NoSnap]
      BY <1>4 DEF Write, SaveFails, Finish, memory
    <2>2. file' \in {file, Torn, snap[a]}
      BY <1>4 DEF Write, SaveFails
    <2>3. file' \in Saved => Fits(file'.seen)
      BY <2>2, Sentinels DEF LinksFit
    <2>4. \A b \in Actor : snap'[b] \in Saved => Fits(snap'[b].seen)
      BY <2>1, Sentinels DEF Typed, LinksFit
    <2> QED BY <2>1, <2>3, <2>4 DEF LinksFit
  <1>5. CASE Restart
    <2>1. /\ file' = file /\ seen' = Stored.seen
          /\ snap' = [a \in Actor |-> NoSnap]
      BY <1>5 DEF Restart, Load
    <2>2. Fits(Stored.seen)
      BY FS_EmptySet, BoundsAssumption DEF Stored, Typed, LinksFit, Fits
    <2> QED BY <2>1, <2>2, Sentinels DEF LinksFit
  <1>6. ASSUME UNCHANGED <<seen, file, snap>> PROVE LinksFit'
    BY <1>6 DEF LinksFit
  <1>7. ASSUME NEW h \in Handler, NEW u \in Url, Add(h, u) PROVE LinksFit'
    BY <1>6, <1>7 DEF Add
  <1>8. ASSUME NEW h \in Handler, NEW id \in Id, Remove(h, id) PROVE LinksFit'
    BY <1>6, <1>8 DEF Remove
  <1>9. ASSUME NEW j \in todo, Fetch(j) \/ FetchFails(j) PROVE LinksFit'
    BY <1>6, <1>9 DEF Fetch, FetchFails, memory
  <1>10. CASE Wake \/ Sleep \/ Scanned \/ Seed
    BY <1>6, <1>10 DEF Wake, Sleep, Scanned, Seed, memory
  <1>11. ASSUME NEW l \in Link, Grab(l) PROVE LinksFit'
    BY <1>6, <1>11 DEF Grab, memory
  <1>12. ASSUME NEW l \in Link, NEW u \in Url, Publish(u, l) PROVE LinksFit'
    BY <1>6, <1>12 DEF Publish, memory
  <1>13. CASE UNCHANGED vars
    BY <1>6, <1>13 DEF vars, memory
  <1> QED BY <1>1, <1>2, <1>3, <1>4, <1>5, <1>7, <1>8, <1>9, <1>10, <1>11, <1>12, <1>13 DEF Next

LEMMA IdsStep == Typed /\ IdsGiven /\ [Next]_vars => IdsGiven'
  <1> SUFFICES ASSUME Typed, IdsGiven, [Next]_vars PROVE IdsGiven'
    OBVIOUS
  <1>0. nextId \in Nat /\ Id \subseteq Int
    BY BoundsAssumption DEF Typed, Id
  <1> USE DEF IdsGiven
  <1>1. ASSUME NEW h \in Handler, NEW u \in Url, Add(h, u) PROVE IdsGiven'
    <2>1. /\ nextId' = nextId + 1 /\ UNCHANGED <<todo, cur>>
          /\ \A id \in Id : id # nextId => feeds'[id] = feeds[id]
      BY <1>1 DEF Add, round, Typed
    <2>2. \A id \in Id : id < nextId => id < nextId + 1
      BY <1>0
    <2>3. \A j \in todo \cup cur : j.id \in Id
      BY DEF Typed, Job
    <2>4. nextId < nextId + 1
      BY <1>0
    <2> QED BY <2>1, <2>2, <2>3, <2>4
  <1>2. ASSUME NEW h \in Handler, NEW id \in Id, Remove(h, id) PROVE IdsGiven'
    BY <1>2 DEF Remove, round, Typed
  <1>3. CASE Wake
    <2>1. todo' = {j \in Job : feeds[j.id] = j.feed} /\ UNCHANGED <<feeds, nextId, cur>>
      BY <1>3 DEF Wake, memory
    <2>2. ASSUME NEW j \in todo' PROVE j.id < nextId
      <3>1. j.id \in Id /\ j.feed \in Feed /\ feeds[j.id] = j.feed
        BY <2>1, <2>2 DEF Job
      <3> QED BY <3>1, Sentinels
    <2> QED BY <2>1, <2>2
  <1>4. ASSUME NEW j \in todo, Fetch(j) \/ FetchFails(j) PROVE IdsGiven'
    BY <1>4 DEF Fetch, FetchFails, memory
  <1>5. CASE Seed
    BY <1>5 DEF Seed
  <1>6. CASE Restart
    BY <1>6 DEF Restart, Load
  <1>7. ASSUME NEW l \in Link, ScanFirst(l) \/ ScanNew(l) \/ Grab(l) PROVE IdsGiven'
    BY <1>7 DEF ScanFirst, ScanNew, Grab, memory
  <1>8. ASSUME NEW a \in Actor, Snapshot(a) \/ Truncate(a) \/ Write(a) \/ SaveFails(a)
        PROVE  IdsGiven'
    BY <1>8 DEF Snapshot, Truncate, Write, SaveFails, memory, round
  <1>9. ASSUME NEW u \in Url, NEW l \in Link, Publish(u, l) PROVE IdsGiven'
    BY <1>9 DEF Publish, memory, round
  <1>10. CASE Sleep \/ Scanned \/ UNCHANGED vars
    BY <1>10 DEF Sleep, Scanned, vars, memory, round
  <1> HIDE DEF IdsGiven
  <1> QED BY <1>1, <1>2, <1>3, <1>4, <1>5, <1>6, <1>7, <1>8, <1>9, <1>10 DEF Next

LEMMA HistoryStep == Typed /\ HistoryTyped /\ [Next]_vars => HistoryTyped'
  <1> SUFFICES ASSUME Typed, HistoryTyped, [Next]_vars PROVE HistoryTyped'
    OBVIOUS
  <1> USE DEF HistoryTyped
  <1>1. ASSUME NEW l \in Link, ScanFirst(l) \/ ScanNew(l) PROVE HistoryTyped'
    <2>1. /\ UNCHANGED <<written, lost, again, restarts>>
          /\ grabbed' = grabbed \/ MarkSeen(l)
      BY <1>1 DEF ScanFirst, ScanNew
    <2>2. grabbed' \in SUBSET Link
      BY <2>1, MarkSeenType
    <2> QED BY <2>1, <2>2
  <1>2. ASSUME NEW a \in Actor, Write(a) \/ SaveFails(a) PROVE HistoryTyped'
    <2>1. pc[a] \in {"truncate", "write"} /\ snap[a] \in Saved
      BY <1>2 DEF Write, SaveFails, Typed
    <2>2. snap[a].seen \in SUBSET Link
      BY <2>1 DEF Saved
    <2>3. again' \in BOOLEAN
      BY <1>2 DEF Write, SaveFails, Finish
    <2>4. grabbed' = grabbed /\ restarts' = restarts
      BY <1>2 DEF Write, SaveFails
    <2>5. written' \in SUBSET Link /\ lost' \in SUBSET Link
      BY <1>2, <2>2 DEF Write, SaveFails
    <2> QED BY <2>3, <2>4, <2>5
  <1>3. CASE Restart
    <2>1. Stored.seen \in SUBSET Link
      BY StoredType DEF Saved
    <2>2. restarts' \in 0 .. MaxRestarts
      BY <1>3, BoundsAssumption DEF Restart
    <2> QED BY <1>3, <2>1, <2>2 DEF Restart
  <1>4. ASSUME NEW h \in Handler, NEW u \in Url, Add(h, u) PROVE HistoryTyped'
    BY <1>4 DEF Add, round
  <1>5. ASSUME NEW h \in Handler, NEW id \in Id, Remove(h, id) PROVE HistoryTyped'
    BY <1>5 DEF Remove, round, history
  <1>6. ASSUME NEW j \in todo, Fetch(j) \/ FetchFails(j) PROVE HistoryTyped'
    BY <1>6 DEF Fetch, FetchFails, history
  <1>7. CASE Wake \/ Sleep \/ Scanned \/ Seed \/ UNCHANGED vars
    BY <1>7 DEF Wake, Sleep, Scanned, Seed, vars, round, history
  <1>8. ASSUME NEW l \in Link, Grab(l) PROVE HistoryTyped'
    BY <1>8 DEF Grab
  <1>9. ASSUME NEW a \in Actor, Snapshot(a) \/ Truncate(a) PROVE HistoryTyped'
    BY <1>9 DEF Snapshot, Truncate, round, history
  <1>10. ASSUME NEW u \in Url, NEW l \in Link, Publish(u, l) PROVE HistoryTyped'
    BY <1>10 DEF Publish, round, history
  <1> HIDE DEF HistoryTyped
  <1> QED BY <1>1, <1>2, <1>3, <1>4, <1>5, <1>6, <1>7, <1>8, <1>9, <1>10 DEF Next

(* Every variable keeps its type, and no more than MaxSeen links are ever   *)
(* remembered: a restart reads no more than it wrote (mark_seen, load).     *)
THEOREM TypeCorrect == Spec => []TypeOK
  <1>1. Init => IdsGiven /\ HistoryTyped
    <2>1. Init => IdsGiven
      BY DEF Init, NoFeeds, IdsGiven
    <2>2. Init => HistoryTyped
      <3>1. 0 \in 0 .. MaxRestarts
        BY BoundsAssumption
      <3> QED BY <3>1 DEF Init, HistoryTyped
    <2> QED BY <2>1, <2>2
  <1>2. Typed /\ LinksFit /\ IdsGiven /\ HistoryTyped => TypeOK
    BY DEF Typed, LinksFit, Fits, IdsGiven, HistoryTyped, TypeOK
  <1> QED BY <1>1, <1>2, TypedInit, TypedStep, LinksFitInit, LinksFitStep, IdsStep, HistoryStep,
             PTL DEF Spec

=============================================================================
