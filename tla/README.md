# MagnetBox in TLA+

MagnetBox is a self-hosted download box in Rust: one process that runs a torrent
session (librqbit), direct HTTP downloads, conversions through ffmpeg, an RSS
poller and a web API with user accounts.  It keeps its state in memory behind
mutexes and mirrors parts of it in JSON files.  These modules model the parts of
it that several tasks share, check them with TLC on small instances, and prove
the main safety properties for all instances with TLAPS.

Paths below are those of the repository: `src/downloads.rs` and so on.

## 1. Inventory

| Component | Code | State | Operations | What makes it correct | Module |
|---|---|---|---|---|---|
| Direct downloads | `downloads.rs`, `add` and `links_*` in `http.rs` | map of items, id counter, `index.json`, one directory per download | add, the task of a download, delete, clear, retention, persist, load | a listed finished download has its own file; a batch deletes what it was meant to; an erased download stays erased; the cap per user | `Downloads` |
| Conversion slots | `http.rs` 1126-1310 | count of slots per user, RAII guards, ffmpeg children | acquire, refuse, spawn, end, client gone | count = guards alive; never more than the cap; slots come back | `Slots`, `Transcode` |
| Torrent engine | `engine.rs` | registry, add-times, pending count, errors, `torrent_added.json`, the session | background add, status poll, delete, restore | no add disappears from the UI; what runs is tracked; ages saved | `Engine` |
| Retention | loop in `main.rs`, `remove_expired` | none of its own | hourly sweep of both lists | not early, and in the end | `Engine`, `Downloads` |
| Accounts | `auth.rs`, `api_setup` and `users_*` in `http.rs` | users, setup code, invites, `users.json`, `invites.json` | setup, create, register, ban, delete, edit, invites, load | an administrator remains; setup stays reachable; invites are counted, and stay deleted while the program runs; roles stay | `Accounts` |
| RSS | `rss.rs`, `rss_loop` in `main.rs` | feeds, seen links, `feeds.json` | subscribe, unsubscribe, poll, save, load | the backlog is never added, a link is added once, new links are added | `Rss` |
| Login and sessions | `auth.rs` 776-1030, `require_auth` | sessions, throttle, challenges, second factors | login, second step, enrolment, ban, logout, the gate of each request | failures stay near the limit, a lockout ends in time, a recovery code opens one session, a ban takes effect | `Login` |
| Configuration | `auth.rs` 86-112, 209-212, 244-249, 436-455 | four settings, `auth_config.json` | set, save, load | the file follows memory | `Settings`, `Mirror` |
| Rate limits | `engine.rs` 182-223 | two live limits, `settings.json` | set, load | file = live limits | `Settings` |
| File responses, usage | `http.rs` 797-935, 1060-1092; `auth.rs` 579-593, 1330-1356 | responses in flight, bytes per user, `usage.json` | answer, hang up, save every 30 s, load | the bytes asked for are served and charged; a crash costs what was not saved | `Ranges`, `Serving` |
| Notifier | `main.rs` 212-242, `notify.rs` | keys it has seen | list, tell, wait for the webhook | at most one message per item, and one in the end | `Notifier` |
| Pause and resume | `engine.rs` 296-352 | none | librqbit calls | - | not modelled |
| Router, metrics, pages, packaging | `http.rs`, `metrics.rs`, `web/`, `install.sh` | none that others read | - | - | not modelled: dispatch, formatting, browser code |

How they interact: request handlers (axum tasks) call the managers directly and
share them by `Arc`; the retention loop calls the engine and the download
manager; the RSS loop calls the engine's `spawn_add`; the notifier polls both
lists.  Locks are held briefly and never across an await.  Where two are nested
the order is fixed (usage before users, users before sessions, added before
registry, feeds before seen), so the process cannot lock up on them; what can go
wrong happens between two lock regions.

The hard behaviours are therefore:
- check in one lock region, act in a later one (download cap, invites, setup);
- an id or handle kept across an await (background adds, deletes, batches);
- `fs::write` after the lock is released, so an older image may land last or two
  writes may overlap, and a crash after its truncation leaves an empty file;
- ids that start again after a restart;
- several steps for one change (two live limits and their file);
- boundaries of unsigned numbers (byte ranges);
- a future that is dropped when its client disconnects;
- environments that never answer: a swarm, a feed, a client.

`PROJECT.json` lists each at its line under "hazards".

## 2. Modules

Every module has one action per lock region, await or file-system call; an
actor's `pc` (or phase) names its next step.  `MCx` holds what only TLC needs.
A definition `X_Y` placed before `X` is `X` with a plausible bug; each run is
repeated with it in the place of `X` to see that the property notices.

**Downloads** (`Admit`, `Reject`, `AddItem`; `Resolve`, `Request`, `Body`, `Finish`, `Fail`;
`StartDelete`, `ClearCompleted`, `RemoveExpired`, then `BatchRemove`, `Unlink`,
`Rmdir`; `Snapshot`, `Truncate`, `Write`, `PersistFails`; `Restart`).  `items` in
the code maps ids to shared `Item`s and a task keeps its `Item` after deletion; so
`item` holds every item of this process and `listed` the keys of the map.  A torn
or empty `index.json` restores nothing, a record whose file exists restores its
item as finished.  A restart gives ids out again, so ids do not tell downloads
apart.  As history, downloads are therefore numbered over all runs: items and
records hold the `serial` of their download, `given` is the last download that
got each id, and `erased` the finished downloads whose files a deletion removed,
for good.

**Slots** is the abstract limiter: the set of holders per user.  **Transcode** is the
counter with its guards and the life of each ffmpeg child; it implements Slots
with `holders` mapped to the requests that own a guard.

**Engine** (`Spawn`, `Answer`, `GiveUp`, `Register`, `Stamp`, `SaveStamp`, `Finish`;
`Begin`, `Sweep`, `SweepNext`, `SessionDelete`, `Forget`, `Unstamp`,
`SaveRemoval`, `Cancel`; `LoadPending`, `DrainErrors`, `List`, `Reply`;
`Restart`).  `save_added` keeps its lock while it writes (the guard is a
temporary of an `if let`), so change-and-save is two steps and not four.
`Begin` takes any id, as the handler passes any to the session.  The error of a
write of `torrent_added.json` is dropped (`SaveAdded` may leave the file as it was
or cut short); a delete may fail for a torrent the session does manage, and may or
may not have dropped it then (`DeleteFails`).  An add of an earlier run is "lost",
so that an add belongs to one run.  History: `told` and `poll.owed`; `unsaved`,
whether the last save failed; `stray`, the ids whose torrent left the session
without a remover going on to drop the entry (`CutOff`), or before the task that
added it had registered it (`Forget`).

**Accounts** (`Setup`, `Create`, `Register`, `Refuse`, `Insert`; `SetDisabled`,
`DeleteUser`, `Edit`; `CreateInvite`, `DeleteInvite`, `Consume`; the two savers
step by step; `WriteFails`; `CloseSetup`; `Restart`).  `registered` counts, as
history, the accounts made with each invite.

**Rss** (`Add`, `Remove`; `Wake`, `Fetch`, `FetchFails`, `Sleep`; `ScanFirst`,
`ScanNew`, `Scanned`, `Seed`, `Grab`; `Snapshot`, `Truncate`, `Write`,
`SaveFails`; `Publish`, `Restart`).  A page is a set of links.  The loop works on
a copy of the list, so it fetches feeds that were removed meanwhile.  History:
`backlog` (the page at subscription), `grabbed` (links added and still
remembered), `written` and `lost` (marks saved, and marks an older or failed
save left out).

**Login** (`Login`, `Password`, `ClearThrottle`, `SecondFactor`, `Ask`,
`RecordFailure`, `NewSession`; `Verify`, `FindAccount`, `CheckThrottle`,
`CheckCode`, `ConsumeRecovery`, `DropChallenge`; `StartEnroll`, `Offer`,
`Confirm`, `Enable`, `NotConfirmed`, `DisableFactor`, `ClearFactor`, `Unpend`;
`SetDisabled`, `Evict`, `CreateUser`, `DeleteUser`; `SignOut`, `Identify`,
`UserByToken`, `Gate`, `Served`; `Tick`).  One run of the program: what it models
is in memory only, but for the accounts, whose files `Accounts` models.  `job`
holds what a request has learned: its user, its challenge and the recovery code
it has used up.  An entry of the throttle, a challenge, an enrolment and a
session have an age, in ticks, which stops growing when the code tells ages
apart no more.  Administrators cannot be disabled and are left out.  `Identify`
and `UserByToken` are the two ways into `require_auth`, `Gate` its look at the
account and `Served` the end of the handler it calls.  A new challenge token is
one that no request still holds (the code draws 32 random bytes).  History:
`issued` (recovery codes handed out) and `opened` (sessions each has opened).

**Ranges** holds `ParseRange` and what `ranged` sends, as operators over the two
numbers around the dash of a Range header, and next to them the reference
`AskedPart`: the bytes a header asks for, one by one, or the whole file when it
asks for none.  **Serving** (`Answer`, `Close`; `StartSave`, `FinishSave`,
`SaveFails`; `Restart`) adds the requests, which charge the Content-Length to
their user before the body is sent and may hang up anywhere, and the saver of
`usage.json`.  The saver holds the lock of the counters until its write has ended
(the guard is a temporary of an `if let`), so `Answer` waits for it.  History:
`sent`, `saved`, `saveFailed`.

**Mirror** is the abstract store: a value, its file, and whether a change is still
to be saved.  **Settings** (`SetConfig`, `StartConfigSave`, `WriteConfig`,
`ConfigFails`; `SetDownload`, `SetUpload`, `StartLimitsSave`, `WriteLimits`,
`LimitsFail`; `Restart`) holds both stores an administrator writes to.
`save_config` keeps the lock across its write and implements Mirror with
`unsaved` mapped to "a handler is between its change and the end of its save, or
the last save failed".  `set_rate_limits` takes no lock at all.  History: `lost`,
`overlapped`.

**Notifier** (`ListTorrents`, `ListDownloads`, `Skip`, `Tell`, `Answered`,
`EndPass` of the loop; `Add`, `Checked`, `Finish`, `Reselect`, `Remove` of the
items).  An item is "t" or "d" with a number, as its key in the code is; numbers
of both kinds overlap.  It describes one run of the program, for the loop keeps
nothing on disk; a restored torrent is first "checking", when librqbit reports it
as unfinished.  History: `told`, `whole`, `baseline`.  Its `Init`, `Next` and the
like carry the prefix `Notifier`, because one module of proofs extends both it
and Transcode.

What is assumed of the outside is marked external in the map: librqbit numbers
the torrents of a run upwards, gives back the handle it has when a torrent is
added again, drops an add whose future is dropped, and may or may not drop a torrent
whose delete fails or is cut off; axum drops a handler's
future when its client leaves; two overlapping `fs::write` calls leave either
image or a mixture that does not parse; ffmpeg ends when it writes to a closed
pipe.  A JSON file with a missing tail does not parse.

## 3. Runs

Passing runs (4 seconds to 2 minutes each):

| Run | Instance | Shows |
|---|---|---|
| `Downloads` | 2 handlers, 2 ids, 2 downloads, cap 1, 1 link, 2 of ticks (at most 1) and restarts | `BatchStillValid`, `DoneServesOwn`, `ErasedStaysErased`, `OverrunBounded`: neither batches nor deletions nor persists that overlap or fail, nor crashes at any step, touch what they should not |
| `Transcode` | 2 users, 3 requests, cap 2 | `SlotsExact`, `ImplementsSlots` (refinement), `FileSlotFreed` (liveness) |
| `Engine` | 2 adds of one torrent, a client's deletes, the loop, a poller, disconnects, 1 failed write or delete, 1 restart | `AddsAccountedFor`, `ErrorsToldOnce`, `AddedSaved`, `ManagedTracked`, `RemovedUnlisted`, `AgeKept` |
| `EngineRetention` | 2 adds of 2 torrents, a client's deletes, the loop, disconnects, 1 failed write or delete; no re-adds, no restart | `ExpiryNotEarly`, `ExpiredRemoved`, `AddsSettle` |
| `Accounts` | 2 names, 2 handlers, 1 single-use invite, 1 failed write, 1 restart | `AdminRemains`, `SetupReachable`, `UsesCounted`, `OveruseBounded`, `RoleKept`, `DeletedInviteGone` |
| `Rss` | 2 links, 1 page, 2 feeds, room for 1 seen link, 1 restart | `SeededSeen`, `NoBacklog`, `GrabbedOnce` |
| `RssFollow` | 1 link, 2 feeds, 1 restart | `NewLinksGrabbed` (liveness) |
| `Login` | 1 name, 2 requests, 2 sessions, 1 challenge, 1 recovery code, limits and windows of 1 or 2 | `FailuresBounded`, `CodeOnce`, `BanEvicts`, `LockoutNotExtended` |
| `Serving` | 2 users, 2 requests, files of 0, 1 and 3 bytes, every header of the numbers 0, 1, 2, 4, none and unreadable, 2 answers, 2 failed saves, 2 restarts | `PartAsAsked`, `SentIsCharged`, `CrashLosesUnsaved`, `SavedInTheEnd` (liveness) |
| `Settings` | 3 requests, 2 configurations, limits with 1 rate, 1 failed write, 1 restart | `LimitsAgree`, `ImplementsMirror` (refinement) |
| `Notifier` | 2 torrents, 1 download, numbers shared | `ToldOnce`, `FinishedTold` (liveness) |

One run ends in a violation, a disagreement between the code and a line of
the repository quoted in `PROJECT.json`:

| Run | Property | What happens |
|---|---|---|
| `AccountsReopened` | `SetupOnce` | a crash between truncation and write of `users.json`: the next start finds an empty store and opens setup |

Further configurations are run by hand (`tlc -config X.cfg MCy`, `Rss` for those of `Rss`).
`DownloadsRestart` passes: one handler, three downloads of two links saved under
one name, and two restarts, with the first two properties about files of
`Downloads`.  The others end in a violation:

| Configuration | Property | What happens |
|---|---|---|
| `DownloadsStaleIndex` | `FinishedIndexed` | two persists overlap, the older image lands last, and a finished download has no record; `downloads.rs` 38: "so the list survives restarts" |
| `DownloadsOverLimit` | `WithinLimit` | two requests pass the cap check together |
| `DownloadsRestored` | `RestoredComplete` | a stale record over a reused id restores a partial file |
| `DownloadsOrphan` | `NoOrphans` | a delete leaves the directory that the task creates meanwhile |
| `DownloadsShortFile` | `DoneServesOwn` | a failed last flush is dropped |
| `EngineZombie` | `NoDeadEntries` | a delete between the session's answer and the registration: the entry is registered for a torrent that is gone, and every later delete of it fails |
| `EngineCancelled` | `NoDeadEntries` | a client that disconnects during its delete leaves a dead entry |
| `EngineReadded`, `EngineStaleAge` | `ExpiryNotEarly` | retention judges a torrent that was added again, or a new one under an id given out again, by an old add-time |
| `TranscodeStalled` | `StreamSlotFreed` | a stalled torrent keeps ffmpeg and the slot after its client left |
| `AccountsRecovery` | `AdminEnabled` | the recovery password leaves it disabled |
| `AccountsOverused` | `UsesKept` | two registrations share the last one |
| `AccountsStaleInvites` | `InvitesSurvive` | a deletion and the creation of an invite save in the wrong order: a later restart brings the deleted invite back |
| `RssFlood` | `NoBacklog` | the first answer is an error page: the feed counts as seeded, the next fetch adds the backlog; `rss.rs` 124: "subscribing never floods the box" |
| `ServingHangup` | `ChargedIsSent` | a client that hangs up, as a player that seeks does, is charged for the rest of the file, and a HEAD request for all of it; `auth.rs` 578: "cumulative bytes-served counter" |
| `SettingsOverlap` | `FileIsTruth` | two setters leave the download limit of one in force and that of the other in `settings.json`; `engine.rs` 182: "the source of truth we write on every change" |
| `NotifierStartup` | `NoStartupSpam` | a restored torrent that is still being checked on the first pass is announced again; `main.rs` 211: "so it never spams on startup" |

**Bounds.**  `MaxIds`, `MaxId`, `MaxFeeds`: ids given out; two suffice for one
object to interfere with another, and for an id to be given out again after a
restart.  `MaxAdds`: downloads added over all runs.  `MaxNow`: ticks of the clock; one tick passes an age of 0.
`MaxRestarts`: crashes, at any step; two in `Serving`, so that a crash
meets the file an earlier one tore, and two in `Downloads`, where a record of an
erased download has to outlive one crash, so that its id is given out again, and
a second one, which finds the new file: the run reaches that case, and both
properties about files fail in it if their exception is left out.  `MaxEvents`
bounds ticks and restarts together, so either two restarts or a tick and one.
`MaxFaults`: failed writes, and in `Engine` failed deletes of a managed torrent.  `MaxServed`:
answers, which bounds the counters.  `Cap`, `Limit`, `MaxSeen`, `MaxUses` stand for 3, an admin's
setting, 5000 and an invite's setting, and are small so that they are reached.
In `Settings` the flag `overlapped` is cleared when a setter begins alone; three
requests let two overlap while a third changes the configuration.
The numbers of `Serving` lie inside, at the last byte of and past files of 0, 1 and 3
bytes, as a start, as an end and as a suffix; the proof covers all others.
In `Login`, two requests are what it takes for one to act on what the other has
changed, and no step relates two names but the administrator's sign-out of all
others; two sessions and one challenge bound how many exist at a time, one
recovery code how many are ever issued; `MaxFails`, `Window` and the lifetimes
stand for 5 failures, 15 minutes, 5 and 10 minutes and 7 days; `MaxRecorded`
bounds the count of failures, which can grow past every limit only in the tick
that ends a window.  Deadlock is checked except in the engine, whose bounded adds
and clock may all be used up, and in `Login`, where each handler may wait for a
session, a challenge or a failure that the bounds no longer allow.  Runs with liveness use no symmetry.

**Fairness.**  Only what the code or its runtime does by itself: spawned tasks run
on; timers fire (the 120 s limit of an add, the hourly loop, the poll of feeds);
a started handler returns.  ffmpeg's write to a closed pipe is strongly fair
because bytes once delivered stay in its input.  A feed that is asked again and
again answers now and then (strong fairness of `Fetch`): `NewLinksGrabbed` is
about feeds that work.  The saver of `usage.json` is a loop whose write ends
or fails; failures are bounded, so one succeeds in the end.  The notifier's loop
runs on and its webhook answers: `notify::send` has no timeout, so a webhook that
never does stops the loop, and `FinishedTold` is about those that do.  No swarm
must answer, no client must poll, leave or stay.

**Conditions inside the properties.**  `DoneServesOwn` and `ErasedStaysErased`
except a download whose id was given to another one: its stale record may then
bring it back over the other's file (`DownloadsRestored`).  `AddedSaved` and
`AgeKept` except what a failed write left unsaved, and `AgeKept` a crash within a
save.  `RemovedUnlisted` says that a dead entry has one of three causes: its delete
failed or was cut off after the session had dropped the torrent, or came before
the registration (`EngineCancelled`, `EngineZombie`); `ExpiredRemoved` excepts
those entries, whose deletes fail for ever.  `ExpiryNotEarly` is
checked without re-adds and restarts since `EngineReadded` and `EngineStaleAge`
show that it fails with them.  `ErrorsToldOnce` counts an error as told once a poll
has drained it: a client that leaves before its answer does not see it.  `NoBacklog` passes for
servers whose first answer is the page; `GrabbedOnce` excepts links that fell out
of the full set or whose mark was lost.  `LimitsAgree` excepts overlapping
setters, `CrashLosesUnsaved` a crash that hits a save or follows a failed one (all
counters are then lost, though `main.rs` 49 says that bandwidth survives restarts).
`ToldOnce` also says that a torrent that finishes again after its selection changed
is not announced.  `NewLinksGrabbed` is about a sole
subscription: the first fetch of a second feed marks what both pages list, so
the first feed may miss it.

## 4. Proofs

All proofs are for any sets of users, handlers, links and ids, any bounds, and
under the named ASSUMEs of the modules (sentinels differ from data, bounds are
natural numbers).  What a theorem assumes besides stands in its ASSUME, and is
either needed, as a configuration of section 3 shows, or part of what it says.

| Module | Theorem | Argument |
|---|---|---|
| `DownloadsProofs` | `TypeCorrect`, `BatchesStayValid`, `FinishedServed`, `ErasureLasts`, `CapOverrun`, `AloneWithinLimit` | The batch property is not inductive. `Inv` adds that ids at or above the counter are neither listed nor running (`FreshOK`), that a deletion in progress works on an id that is out of the list (`JobOK`), that a task past its start finds its item downloading (`PhaseOK`), that the file of a listed, running download is its own (`FilesOK`), and that an erased download whose id was not given out again has no file and no task that could make one (`ErasedOK`). Across restarts it follows the records: nothing under an id is newer than the last download given it (`SerialOK`), so what is stale stays stale, and a record that is not, in `index.json` or in a save under way, belongs to a download that has ended and finds its own file or none (`RecordsOK`). `CapOverrun` counts: downloads in progress and requests past the check never exceed the cap by the handlers (finite sets). `FinishedServed` assumes that no buffered last write fails. |
| `TaskProofs` | `SlotsAreExact`, `CounterIsLimiter`; `ItemsAreToldOnce`, `SeenWereTold`, `NotifierTypeCorrect` | Conversions: the count equals the cardinality of the owners, which are finite in number at any time although requests need not be; each step then maps to a step of Slots or a stutter. Notifier: `TellingInv` says that what is seen is what was told once or what the first pass saw, and nothing besides, so an item is neither told twice nor silenced by another. |
| `EngineProofs` | `AgesAreSaved`, `ManagedAreTracked`, `ErrorsAreToldOnce`, `AgesAreKept` | `IInv`: a removal that still drops entries works on an id the session never manages again (`RemovedForGood`, from the upward numbering that `AddsNumbered` states for the adds in flight), an add past Register finds its id registered while it is managed, the file equals memory outside `Saving` unless the last save failed (`unsaved`). |
| | `TypeCorrect`, `PendingIsExact`, `AddsAreAccountedFor` | Counting. `Counted`: `pending` is the cardinality of the adds between their start and their end, and those ever started are finite in number. What a poll may still fail to show, `Remaining`, is among the adds that were in progress when it read `pending`, and it only shrinks (`RemainingShrinks`): an add leaves it when it is registered or its error is given to a client, and no step brings one back. So it never exceeds the number the poll reports (`FewRemain`). |
| | `RemovedAreUnlisted` | Assumes nothing. `RemovedUnlisted` is not inductive, for a registration may add an entry without a torrent: `AnsweredKnown` says of the ids about to be registered what it says of the registry. An id is known while it is managed, a removal is about to drop its entry, or it is in `stray`; every step keeps an id known (`KnownStays`) but the drop of its entry, after which it is known only if it is about to be registered. |
| | `ExpiryIsNotEarly` | Assumes that no torrent in the session is added again, within one run (`EngineReadded`, `EngineStaleAge`). `AddedOnce`: the adds in flight differ in torrent and id, and the session numbers each answer anew. `Aging`: so a stamped torrent is not stamped again, and what the loop holds is past its age or out of the session; what others delete meanwhile loses its add-time only after it has left the session (`RemovedForGood`). |
| `AccountsProofs` | `TypeCorrect`, `SetupStaysReachable`, `RolesAreKept`, `AdministratorRemains`, `SetupClosesForGood`, `UsesAreCounted`, `OverusesAreBounded`, `DeletedInvitesStay`, `AloneUsesAreKept`, `AloneInvitesSurvive` | Only administrators create or delete, so a store without accounts has no work in flight but setups. An administrator in memory alone is not inductive: a restart reads the file and the file is written from what a save collected, so the invariant says it of memory, file and every collected save (`FileHasAdmin`, `SavesHaveAdmin`, `OnlySetups`). It assumes that no crash leaves `users.json` blank, which `AccountsReopened` shows to be needed; under the same assumption the setup code never comes back (`SetupClosesForGood`), so a blank file is the only way to the finding of that run. The invites are counted: `Effect` says what a step of a request is to an invite, one of six things, and a lemma for each moves at most one request between those let in (`Waiting`) and those about to count their use (`Uncounted`). `OveruseBounded` needs two strengthenings: it counts the requests let in (`RoomLeft`), and says the bound of every map of invites that may be written or read back (`ImagesBelow`). Handlers are a finite set. With one handler and no failed write the bound is the limit itself, and outside a save `invites.json` is what memory holds (`InvitesOnDisk`). |
| `RssProofs` | `LinksGrabbedOnce`, `SeededAreSeen`, `BacklogNotGrabbed`, `TypeCorrect` | `Remembered`: what was grabbed is in `seen`, and is either saved or known to be lost (the ghosts `written` and `lost`); the file holds what was saved and not lost; the save the loop has collected equals `seen`, so what it is about to add has been saved or lost before. A fetch keeps only links outside `seen`, and a restart reads `seen` from the file, so it grabs nothing twice. `SeededSeen` alone is not inductive: `BacklogInv` says it of the feeds in memory, in `feeds.json`, in every save under way and of the loop's copies (`MemoryKnown`, `FileKnown`, `SavesKnown`, `CopiesKnown`), that a backlog lies within its page (pages only grow), that what a first fetch has not marked is among its items (`ScanKnown`), and that ids above the counter are in no image. It assumes `~ErrorPages`, which `RssFlood` shows to be needed. `TypeCorrect` holds the limit of remembered links: what falls out is counted (`MarkSeenFits`), and since a restart reads the links from the file and the file is written from what a save collected, the limit is said of all three (`LinksFit`). |
| `LoginProofs` | `TypeCorrect`, `LockoutsEnd`, `CodesOpenOnce`, `FailuresAreBounded`, `BansEvict` | `CodesOK`: a code that was issued is held by one account, carried by one request that has taken it from there, or spent. `FailInv`: the failures of a window and the requests that have passed the check and may still fail never exceed the limit by the handlers, so a request that records its failure moves one unit from one to the other. `BanEvicts` is inductive by itself: a disabled account gains a session only by a request that acts already and stops with it, and nobody passes a check for it. `LockoutsEnd` holds step by step; three actions touch the throttle. Handlers and tokens are finite sets. |
| `ServingProofs` | `PartIsAsked`, `PartsAreAsked`, `SentAreCharged`, `CrashesLoseUnsaved`, `DiskNeverAhead`, `TypeCorrect` | `PartIsAsked` is arithmetic: by cases on which of the two numbers is there, the clamped bounds select exactly the bytes `Wants` describes, for every size and header. `CrashesLoseUnsaved` rests on `FileSaved`: outside a save, and unless one failed, `usage.json` is the last complete save, or torn when there was none. `SentIsCharged` is not inductive: the end of a response adds to what was sent, so the counter has to cover what is in flight too. A sum over a set is a recursion; the proof counts a set instead: the bytes in flight to a user, each as a pair of its request and its number (`InFlight`), and `Covered` says that sent and in flight together never exceed the counter. `DiskNeverAhead` rests on the lock that the saver keeps while it writes. |
| `SettingsProofs` | `ConfigIsStore`, `ConfigMirrored`, `LimitsFollowFile`, `AloneFileIsTruth`, `TypeCorrect` | `OneSaver`: at most one handler is inside the write, what it writes is the configuration in memory, and otherwise the file is what memory holds unless a save is due or failed. Every step then maps to one of Mirror or a stutter. `OneSetter`: without overlap one setter is under way, and what it has set and written so far is what its request asked for. |

The theorems named `Alone...` are about one request at a time.  Each is the other
side of a configuration in which the property fails (`DownloadsOverLimit`,
`AccountsOverused`, `AccountsStaleInvites`, `SettingsOverlap`): together they say
that overlap, or a failed write, is what breaks it.

What makes the engine's tracking and counting inductive (`Tracking`, `Polling`) was
checked with TLC, as an invariant of runs of the engine, before it was proved.

Every invariant and every action property of a passing run is now a theorem.
Only model-checked: the liveness properties `FileSlotFreed`, `ExpiredRemoved`,
`AddsSettle`, `NewLinksGrabbed`, `SavedInTheEnd` and `FinishedTold`, since
fairness and ENABLED are outside the proof system.

## 5. Plan

In this order:
1. Recovery codes across restarts, in `Accounts`, which abstracts the codes of an
   account so far.
2. The composition of `Rss` with `Engine` through `spawn_add`, and the proof that
   each of the two keeps its properties in it.
3. Safety halves of the liveness properties: which step each waiting task still
   has enabled, stated as guards, since ENABLED cannot be proved about.

## 6. Not modelled

Pause and resume: each is a call of librqbit, on one handle or on a copy of the
registry in turn, that changes no state of this program; `pause_all` promises
nothing about an add that arrives meanwhile, which keeps running.

Text and formatting (XML, HTML, JSON layout, subtitles, file names), HTTP headers
and routing, host metrics, the web pages, deployment scripts, the BitTorrent
protocol, bytes of files and streams, progress figures, and cryptography: a
password, token or code is right or wrong.
