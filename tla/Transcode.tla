------------------------------ MODULE Transcode ------------------------------
(***************************************************************************)
(* The conversion endpoints of http.rs: the per-user count of slots, the   *)
(* RAII guard that gives a slot back, the ffmpeg child and the task that   *)
(* waits for it.  ffmpeg, the torrent's piece stream and the client are    *)
(* the environment.                                                        *)
(*                                                                         *)
(* A request without an encoder is NoEncoder.  Otherwise it is "held" from *)
(* acquire_transcode until ffmpeg is spawned, "running" while ffmpeg runs, *)
(* and "exited" until the waiting task drops the guard.                    *)
(***************************************************************************)
EXTENDS Integers, FiniteSets

CONSTANTS User, Request,
          Cap,         \* MAX_TRANSCODES_PER_USER
          NoEncoder

ASSUME CapAssumption == Cap \in Nat \ {0}

Encoder == [state : {"held", "running", "exited"}, user : User,
            source : {"stream", "file"},
            flowing : BOOLEAN,   \* the input has bytes, or has ended
            gone : BOOLEAN]      \* the client has disconnected

ASSUME NoEncoderAssumption == NoEncoder \notin Encoder

VARIABLES transcodes,   \* the map of slot counts, an absent user counts 0
          enc           \* the encoder of each request
vars == <<transcodes, enc>>

Holders(u) == {r \in Request : enc[r] # NoEncoder /\ enc[r].user = u}

In(r, state) == enc[r] # NoEncoder /\ enc[r].state = state

Init == /\ transcodes = [u \in User |-> 0]
        /\ enc = [r \in Request |-> NoEncoder]

(* acquire_transcode: at the cap the request is refused and nothing changes *)
Available_OffByOne(u) == transcodes[u] <= Cap

Available(u) == transcodes[u] < Cap

Acquire(r, u, source) ==
    /\ enc[r] = NoEncoder
    /\ Available(u)
    /\ transcodes' = [transcodes EXCEPT ![u] = @ + 1]
    /\ enc' = [enc EXCEPT ![r] = [state |-> "held", user |-> u, source |-> source,
                                  flowing |-> source = "file", gone |-> FALSE]]

(* Dropping the guard: saturating_sub, and the entry goes at 0. *)
DropGuard_Zeroes(r) ==
    /\ transcodes' = [transcodes EXCEPT ![enc[r].user] = 0]
    /\ enc' = [enc EXCEPT ![r] = NoEncoder]

DropGuard(r) ==
    /\ transcodes' = [transcodes EXCEPT ![enc[r].user] = IF @ = 0 THEN 0 ELSE @ - 1]
    /\ enc' = [enc EXCEPT ![r] = NoEncoder]

(* Every early return after the slot is taken: no such torrent, file or    *)
(* download, the stream does not open, ffmpeg does not start.              *)
Refuse(r) == In(r, "held") /\ DropGuard(r)

(* ffmpeg runs; the guard moves into the task that waits for it. *)
Spawn(r) ==
    /\ In(r, "held")
    /\ enc' = [enc EXCEPT ![r].state = "running"]
    /\ UNCHANGED transcodes

(* The piece stream of a torrent delivers bytes when pieces arrive; a file *)
(* on disk can always be read.                                             *)
StreamFlows(r) ==
    /\ In(r, "running") /\ enc[r].source = "stream"
    /\ enc' = [enc EXCEPT ![r].flowing = ~@]
    /\ UNCHANGED transcodes

ClientGone(r) ==
    /\ In(r, "running") /\ ~enc[r].gone
    /\ enc' = [enc EXCEPT ![r].gone = TRUE]
    /\ UNCHANGED transcodes

(* ffmpeg has converted its whole input, or gives up on it. *)
Complete(r) ==
    /\ In(r, "running") /\ enc[r].flowing /\ ~enc[r].gone
    /\ enc' = [enc EXCEPT ![r].state = "exited"]
    /\ UNCHANGED transcodes

(* The response body is dropped with the client and closes ffmpeg's        *)
(* standard output.  ffmpeg notices when it writes, which takes input: the *)
(* Child itself belongs to the waiting task, so it is not dropped, and     *)
(* kill_on_drop has no part in this.                                       *)
BrokenPipe(r) ==
    /\ In(r, "running") /\ enc[r].flowing /\ enc[r].gone
    /\ enc' = [enc EXCEPT ![r].state = "exited"]
    /\ UNCHANGED transcodes

(* child.wait() returns in the waiting task, which drops the guard. *)
Reap_IfConnected(r) == In(r, "exited") /\ ~enc[r].gone /\ DropGuard(r)

Reap(r) == In(r, "exited") /\ DropGuard(r)

Next == \E r \in Request :
           \/ \E u \in User, source \in {"stream", "file"} : Acquire(r, u, source)
           \/ Refuse(r) \/ Spawn(r) \/ StreamFlows(r) \/ ClientGone(r)
           \/ Complete(r) \/ BrokenPipe(r) \/ Reap(r)

Spec == Init /\ [][Next]_vars

(* A handler runs on to its return and the runtime wakes the waiting task. *)
(* ffmpeg ends once it writes to a closed pipe: strongly fair, for bytes   *)
(* that arrived stay in its input when the stream stalls again.  Nothing   *)
(* makes a swarm deliver, a client read or leave.                          *)
Fairness == \A r \in Request : /\ WF_vars(Spawn(r) \/ Refuse(r))
                               /\ SF_vars(BrokenPipe(r))
                               /\ WF_vars(Reap(r))
FairSpec == Spec /\ Fairness

-----------------------------------------------------------------------------
(* Every variable keeps its type. *)
TypeOK == /\ transcodes \in [User -> Nat]
          /\ enc \in [Request -> Encoder \cup {NoEncoder}]

(* The counter tells exactly how many guards are alive, on every path out  *)
(* of a conversion: the saturating subtraction never hides a slot that was *)
(* given back twice, and none leaks.                                       *)
SlotsExact == \A u \in User : transcodes[u] = Cardinality(Holders(u))

(* The counter implements the limiter, so that no user ever holds more     *)
(* than Cap slots and so runs more than Cap encoders.                      *)
Limiter == INSTANCE Slots WITH holders <- [u \in User |-> Holders(u)]
ImplementsSlots == Limiter!Spec

Abandoned(r, source) == enc[r] # NoEncoder /\ enc[r].gone /\ enc[r].source = source

(* A conversion of a file on disk gives its slot back after its client     *)
(* left.                                                                   *)
FileSlotFreed ==
    \A r \in Request : Abandoned(r, "file") ~> ~Abandoned(r, "file")

(* http.rs says of every conversion that the child never lingers after its *)
(* client disconnects; a stalled torrent keeps it, and the slot.           *)
StreamSlotFreed ==
    \A r \in Request : Abandoned(r, "stream") ~> ~Abandoned(r, "stream")

=============================================================================
