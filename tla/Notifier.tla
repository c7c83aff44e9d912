------------------------------ MODULE Notifier ------------------------------
(***************************************************************************)
(* Completion notifications: notifier_loop of main.rs, which every 15      *)
(* seconds lists the torrents and the direct downloads and posts a message *)
(* to a webhook for each one it sees finished for the first time.  What is *)
(* finished on its first pass it only remembers.                           *)
(*                                                                         *)
(* Concurrent actors: the loop, and the items, which are added, finish and *)
(* are removed at any time, while the loop waits for the webhook too.  A   *)
(* module describes one run of the program: `seen` is not kept on disk.    *)
(*                                                                         *)
(* Abstracted: the order of the messages of one pass, and whether the      *)
(* webhook took one, which notify::send only logs.                         *)
(*                                                                         *)
(* The usual names carry a prefix: TaskProofs extends Transcode too.       *)
(***************************************************************************)
EXTENDS Integers, FiniteSets

CONSTANTS Torrent, Download   \* their numbers, each counted from 0

Item      == ({"t"} \X Torrent) \cup ({"d"} \X Download)
Condition == {"absent", "checking", "running", "finished", "removed"}

VARIABLES
    item,        \* the condition of each torrent and download
    seen,        \* the keys the loop remembers
    first,       \* whether this is its first pass
    pc, done,    \* its step, and the items it still has to go through
    told,        \* history: the messages posted for each item
    whole,       \* history: the items that were finished when the run began
    baseline     \* history: the items seen on the first pass

items        == <<item, whole>>
looping      == <<seen, first, done, told, baseline>>
notifierVars == <<items, looping, pc>>

Key_Bare(i) == i[2]

Key(i) == i

(* A torrent the session restores is checked first and counts as           *)
(* unfinished meanwhile; downloads are restored as done.                   *)
NotifierInit ==
    /\ item \in [Item -> {"absent", "checking", "running", "finished"}]
    /\ \A d \in Download : item[<<"d", d>>] \in {"absent", "finished"}
    /\ whole \in SUBSET Item
    /\ \A i \in Item : /\ item[i] = "finished" => i \in whole
                       /\ i \in whole => item[i] \in {"checking", "finished"}
    /\ seen = {} /\ baseline = {}
    /\ first = TRUE
    /\ pc = "torrents" /\ done = {}
    /\ told = [i \in Item |-> 0]

-----------------------------------------------------------------------------
(* The items.  A number is not used again within a run. *)

Becomes(i, from, to) ==
    /\ item[i] \in from
    /\ item' = [item EXCEPT ![i] = to]
    /\ UNCHANGED <<whole, looping, pc>>

Add(i)     == Becomes(i, {"absent"}, "running")
Checked(i) == Becomes(i, {"checking"}, IF i \in whole THEN "finished" ELSE "running")
Finish(i)  == Becomes(i, {"running"}, "finished")
Remove(i)  == Becomes(i, {"checking", "running", "finished"}, "removed")

(* set_files: a finished torrent has files to fetch again. *)
Reselect(i) == i[1] = "t" /\ Becomes(i, {"finished"}, "running")

-----------------------------------------------------------------------------
Finished(kind) == {i \in Item : i[1] = kind /\ item[i] = "finished"}

ListTorrents_Forgets ==
    /\ pc = "torrents"
    /\ done' = Finished("t")
    /\ seen' = {k \in seen : k[1] = "t" => k \in done'}
    /\ pc' = "downloads"
    /\ UNCHANGED <<items, first, told, baseline>>

ListTorrents ==
    /\ pc = "torrents"
    /\ done' = Finished("t")
    /\ pc' = "downloads"
    /\ UNCHANGED <<items, seen, first, told, baseline>>

ListDownloads ==
    /\ pc = "downloads"
    /\ done' = done \cup Finished("d")
    /\ pc' = "tell"
    /\ UNCHANGED <<items, seen, first, told, baseline>>

Skip(i) ==
    /\ pc = "tell" /\ i \in done
    /\ Key(i) \in seen \/ first
    /\ done' = done \ {i}
    /\ seen' = seen \cup {Key(i)}
    /\ baseline' = IF first THEN baseline \cup {i} ELSE baseline
    /\ UNCHANGED <<items, first, told, pc>>

Tell(i) ==
    /\ pc = "tell" /\ i \in done
    /\ Key(i) \notin seen /\ ~first
    /\ done' = done \ {i}
    /\ seen' = seen \cup {Key(i)}
    /\ told' = [told EXCEPT ![i] = @ + 1]
    /\ pc' = "sending"
    /\ UNCHANGED <<items, first, baseline>>

(* The webhook answers, or the request fails: `send` has no timeout.       *)
Answered ==
    /\ pc = "sending"
    /\ pc' = "tell"
    /\ UNCHANGED <<items, looping>>

EndPass ==
    /\ pc = "tell" /\ done = {}
    /\ first' = FALSE
    /\ pc' = "torrents"
    /\ UNCHANGED <<items, seen, done, told, baseline>>

ItemNext == \E i \in Item : Add(i) \/ Checked(i) \/ Finish(i) \/ Remove(i) \/ Reselect(i)
LoopNext == ListTorrents \/ ListDownloads \/ EndPass \/ \E i \in Item : Skip(i) \/ Tell(i)

NotifierNext == ItemNext \/ LoopNext \/ Answered

NotifierSpec == NotifierInit /\ [][NotifierNext]_notifierVars

(* The loop has a task of its own, and the webhook answers.                *)
NotifierFairSpec == NotifierSpec /\ WF_notifierVars(LoopNext) /\ WF_notifierVars(Answered)

-----------------------------------------------------------------------------
NotifierTypeOK ==
    /\ item \in [Item -> Condition] /\ whole \subseteq Item
    /\ seen \subseteq Item /\ first \in BOOLEAN
    /\ pc \in {"torrents", "downloads", "tell", "sending"}
    /\ done \subseteq Item /\ baseline \subseteq Item
    /\ told \in [Item -> Nat]

(* No item is told twice, not even a torrent that finishes again after its *)
(* selection changed, and what the first pass saw finished is not told.    *)
ToldOnce == \A i \in Item : told[i] <= 1 /\ (i \in baseline => told[i] = 0)

(* What finishes and stays is told, whatever comes and goes meanwhile, if  *)
(* the first pass did not see it (notifier_loop).                          *)
FinishedTold ==
    \A i \in Item : item[i] = "finished" ~> told[i] = 1 \/ i \in baseline \/ item[i] # "finished"

(* "It never spams on startup": it does when a torrent is still checked    *)
(* while the first pass lists it (notifier_loop).                          *)
NoStartupSpam == \A i \in whole : told[i] = 0
=============================================================================
