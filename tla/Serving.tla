------------------------------ MODULE Serving -------------------------------
(***************************************************************************)
(* File responses and the bandwidth counters they feed: the handlers       *)
(* download, stream and direct_file of http.rs behind require_auth of      *)
(* auth.rs, usage.json, and the task of main.rs that saves it.             *)
(*                                                                         *)
(* Concurrent actors: requests, and the saver, which holds the lock of the *)
(* counters until its write has ended (the guard lives as long as the      *)
(* `if let`).  The program may die between any two steps.                  *)
(*                                                                         *)
(* Abstracted: last_seen and last_ip; requests the gate turns away; error  *)
(* answers, whose few bytes are charged too; an fs::write that cannot open *)
(* the file, which changes nothing.                                        *)
(***************************************************************************)
EXTENDS Ranges

CONSTANTS
    User, Request,
    Size,       \* sizes of files
    Asked,      \* the Range headers requests carry
    NoAnswer, NoSnap,
    Torn,       \* a usage.json that does not parse, or none
    MaxServed, MaxFaults, MaxRestarts   \* bounds: answers, failed writes, crashes

ASSUME InputsAssumption == Size \subseteq Nat /\ Asked \subseteq Header \cup {NoHeader}
ASSUME LimitsAssumption == {MaxServed, MaxFaults, MaxRestarts} \subseteq Nat

Counters == [User -> Nat]
Response == [user : User, length : Nat, part : SUBSET Nat, asked : SUBSET Nat]

ASSUME OutsideAssumption == {NoSnap, Torn} \cap Counters = {} /\ NoAnswer \notin Response

VARIABLES
    usage,       \* the bytes counted for each user
    usageFile,   \* usage.json
    saver, snap, \* the step of the saver, and what it has serialised
    answer,      \* the response each request is sending
    sent,        \* history: what the counters were if they counted bytes sent
    saved,       \* history: the counters as the last complete save wrote them
    saveFailed,  \* history: whether a save has failed since
    served, faults, restarts   \* counters of the bounds

saving  == <<usageFile, saver, snap, saved, saveFailed, faults>>
serving == <<usage, answer, sent, served>>
vars    == <<saving, serving, restarts>>

None == [u \in User |-> 0]

Init ==
    /\ usage = None /\ usageFile = Torn
    /\ saver = "asleep" /\ snap = NoSnap
    /\ answer = [r \in Request |-> NoAnswer]
    /\ sent = None /\ saved = None /\ saveFailed = FALSE
    /\ served = 0 /\ faults = 0 /\ restarts = 0

-----------------------------------------------------------------------------
(* Requests.  The middleware adds the Content-Length of the response to    *)
(* the counter of the user, then the body is sent until the client has it  *)
(* or hangs up; a HEAD request gets none of it.                            *)

Unlocked == saver # "writing"

Charge_WholeOnly(u, range, total) ==
    IF range = Whole THEN [usage EXCEPT ![u] = @ + total] ELSE usage

Charge(u, range, total) == [usage EXCEPT ![u] = @ + ContentLength(range, total)]

Answer(r, u, total, h) ==
    /\ answer[r] = NoAnswer /\ Unlocked
    /\ served < MaxServed
    /\ served' = served + 1
    /\ LET range == ParseRange(h, total) IN
          /\ usage' = Charge(u, range, total)
          /\ answer' = [answer EXCEPT ![r] =
                [user |-> u, length |-> ContentLength(range, total),
                 part |-> Part(range, total), asked |-> AskedPart(h, total)]]
    /\ UNCHANGED <<saving, sent, restarts>>

Close(r) ==
    /\ answer[r] # NoAnswer
    /\ \E n \in 0 .. answer[r].length : sent' = [sent EXCEPT ![answer[r].user] = @ + n]
    /\ answer' = [answer EXCEPT ![r] = NoAnswer]
    /\ UNCHANGED <<saving, usage, served, restarts>>

-----------------------------------------------------------------------------
(* save_usage, every 30 seconds.  An error of the write is dropped. *)

StartSave ==
    /\ saver = "asleep"
    /\ saver' = "writing"
    /\ snap' = usage
    /\ usageFile' = Torn
    /\ UNCHANGED <<serving, saved, saveFailed, faults, restarts>>

FinishSave ==
    /\ saver = "writing"
    /\ saver' = "asleep"
    /\ usageFile' = snap
    /\ snap' = NoSnap
    /\ saved' = snap /\ saveFailed' = FALSE
    /\ UNCHANGED <<serving, faults, restarts>>

SaveFails_EndsLoop ==
    /\ saver = "writing" /\ faults < MaxFaults
    /\ saver' = "ended"
    /\ snap' = NoSnap
    /\ saveFailed' = TRUE /\ faults' = faults + 1
    /\ UNCHANGED <<serving, usageFile, saved, restarts>>

SaveFails ==
    /\ saver = "writing" /\ faults < MaxFaults
    /\ saver' = "asleep"
    /\ snap' = NoSnap
    /\ saveFailed' = TRUE /\ faults' = faults + 1
    /\ UNCHANGED <<serving, usageFile, saved, restarts>>

-----------------------------------------------------------------------------
(* The program dies and starts again: a file that does not parse counts as *)
(* none.                                                                   *)
LoadUsage_Ignored == None

LoadUsage == IF usageFile = Torn THEN None ELSE usageFile

Restart ==
    /\ restarts < MaxRestarts
    /\ restarts' = restarts + 1
    /\ usage' = LoadUsage /\ sent' = LoadUsage /\ saved' = LoadUsage
    /\ saver' = "asleep" /\ snap' = NoSnap
    /\ answer' = [r \in Request |-> NoAnswer]
    /\ UNCHANGED <<usageFile, saveFailed, served, faults>>

Next ==
    \/ \E r \in Request : \/ \E u \in User, total \in Size, h \in Asked : Answer(r, u, total, h)
                          \/ Close(r)
    \/ StartSave \/ FinishSave \/ SaveFails
    \/ Restart

(* The saver is a loop of its own; a write that does not fail ends. *)
Fairness == WF_vars(StartSave) /\ WF_vars(FinishSave)

Spec     == Init /\ [][Next]_vars
FairSpec == Spec /\ Fairness

-----------------------------------------------------------------------------
TypeOK ==
    /\ usage \in Counters /\ usageFile \in Counters \cup {Torn}
    /\ saver \in {"asleep", "writing"}
    /\ snap \in IF saver = "writing" THEN Counters ELSE {NoSnap}
    /\ answer \in [Request -> Response \cup {NoAnswer}]
    /\ sent \in Counters /\ saved \in Counters /\ saveFailed \in BOOLEAN
    /\ {served, faults, restarts} \subseteq Nat

(* A response carries the bytes of the file its Range header asks for, no  *)
(* more and no fewer, and its Content-Length counts them, for suffixes     *)
(* longer than the file and ends past it too (parse_range, ranged).        *)
PartAsAsked ==
    \A r \in Request : answer[r] # NoAnswer => answer[r].part = answer[r].asked

(* The counter of a user is never behind the bytes sent to them: they are  *)
(* charged before the body is sent, whatever the saver does meanwhile      *)
(* (require_auth).                                                         *)
SentIsCharged == \A u \in User : sent[u] <= usage[u]

(* A crash takes the counters back to the last complete save, unless it    *)
(* hits a save or the last one failed (save_usage, load): "cumulative      *)
(* bandwidth survives restarts".                                           *)
CrashLosesUnsaved ==
    [][restarts' # restarts => \/ usage' = saved
                               \/ usage' = None /\ (saver = "writing" \/ saveFailed)]_vars

(* After the last crash, whatever was counted is on disk in the end,       *)
(* although saves fail now and then (main, save_usage).                    *)
SavedInTheEnd ==
    \A u \in User, n \in 1 .. MaxServed :
        restarts = MaxRestarts /\ usage[u] >= n ~> usageFile # Torn /\ usageFile[u] >= n

(* The counters count what was served once no response is in flight.  It   *)
(* does not hold: a client that hangs up, as a player that seeks does, is  *)
(* charged for the rest of the file (require_auth).                        *)
ChargedIsSent == (\A r \in Request : answer[r] = NoAnswer) => usage = sent
=============================================================================
