--------------------------- MODULE ServingProofs ----------------------------
(***************************************************************************)
(* Proofs about Ranges and Serving.                                        *)
(***************************************************************************)
EXTENDS Serving, FiniteSetTheorems, TLAPS

-----------------------------------------------------------------------------
(* Ranges *)

Served(h, total) == /\ total > 0 /\ h # NoHeader /\ Readable(h)
                    /\ First(h, total) <= Last(h, total) /\ First(h, total) < total

(* The bytes between First and Last are in the file, and are those a       *)
(* readable header asks for, whichever of its three forms it has           *)
(* (parse_range).                                                          *)
LEMMA BoundsOfRange ==
    ASSUME NEW h \in Header \cup {NoHeader}, NEW total \in Nat,
           total > 0, h # NoHeader, Readable(h)
    PROVE  /\ First(h, total) \in Nat /\ Last(h, total) \in Nat /\ Last(h, total) < total
           /\ \A byte \in 0 .. (total - 1) :
                 Wants(h, byte, total) <=> First(h, total) <= byte /\ byte <= Last(h, total)
<1> USE RangesAssumption
<1>1. h \in Header
  OBVIOUS
<1>2. CASE h.from = Blank
  BY <1>1, <1>2 DEF Header, Readable, First, Last, Smaller, Wants
<1>3. CASE h.from # Blank
  <2>1. h.from \in Nat /\ h.to \in Nat \cup {Blank}
    BY <1>3 DEF Readable
  <2>2. CASE h.to = Blank
    BY <1>3, <2>1, <2>2 DEF First, Last, Wants
  <2>3. CASE h.to # Blank
    BY <1>3, <2>1, <2>3 DEF First, Last, Smaller, Wants
  <2> QED BY <2>2, <2>3
<1> QED BY <1>2, <1>3

(* parse_range returns a first and a last byte of the file, in this order, *)
(* or nothing.                                                             *)
LEMMA ParsedInFile ==
    ASSUME NEW h \in Header \cup {NoHeader}, NEW total \in Nat
    PROVE  LET range == ParseRange(h, total) IN
           /\ range \in [first : Nat, last : Nat] \cup {Whole}
           /\ range # Whole => range.first <= range.last /\ range.last < total
<1>1. CASE Served(h, total)
  <2>1. ParseRange(h, total) = [first |-> First(h, total), last |-> Last(h, total)]
    BY <1>1 DEF ParseRange, Served
  <2>2. First(h, total) \in Nat /\ Last(h, total) \in Nat /\ Last(h, total) < total
    BY <1>1, BoundsOfRange DEF Served
  <2> QED BY <1>1, <2>1, <2>2 DEF Served
<1>2. CASE ~Served(h, total)
  BY <1>2 DEF ParseRange, Served
<1> QED BY <1>1, <1>2

(* For every header and every size, the part of the file that is served is *)
(* the part asked for (parse_range, ranged).                               *)
THEOREM PartIsAsked ==
    ASSUME NEW h \in Header \cup {NoHeader}, NEW total \in Nat
    PROVE  Part(ParseRange(h, total), total) = AskedPart(h, total)
<1> DEFINE wanted == {byte \in 0 .. (total - 1) : Wants(h, byte, total)}
<1>1. AskedPart(h, total) = IF wanted = {} THEN 0 .. (total - 1) ELSE wanted
  BY DEF AskedPart
<1>2. CASE Served(h, total)
  <2>1. /\ First(h, total) \in Nat /\ Last(h, total) \in Nat /\ Last(h, total) < total
        /\ wanted = First(h, total) .. Last(h, total)
    BY <1>2, BoundsOfRange DEF Served
  <2>2. wanted # {}
    BY <1>2, <2>1 DEF Served
  <2>3. ParseRange(h, total) = [first |-> First(h, total), last |-> Last(h, total)]
    BY <1>2 DEF ParseRange, Served
  <2>4. [first |-> First(h, total), last |-> Last(h, total)] # Whole
    BY <2>1, RangesAssumption
  <2>5. Part(ParseRange(h, total), total) = First(h, total) .. Last(h, total)
    BY <2>1, <2>3, <2>4 DEF Part, Start, ContentLength
  <2> QED BY <1>1, <2>1, <2>2, <2>5
<1>3. CASE ~Served(h, total)
  <2>1. Part(ParseRange(h, total), total) = 0 .. (total - 1)
    BY <1>3 DEF ParseRange, Served, Part, Start, ContentLength
  <2>2. wanted = {}
    <3>1. SUFFICES ASSUME NEW byte \in 0 .. (total - 1), Wants(h, byte, total)
                   PROVE  FALSE
      OBVIOUS
    <3>2. /\ total > 0 /\ h # NoHeader /\ Readable(h)
          /\ byte \in Nat /\ byte < total
      BY <3>1 DEF Wants
    <3>3. /\ First(h, total) \in Nat /\ Last(h, total) \in Nat
          /\ First(h, total) <= byte /\ byte <= Last(h, total)
      BY <3>1, <3>2, BoundsOfRange
    <3> QED BY <1>3, <3>2, <3>3 DEF Served
  <2> QED BY <1>1, <2>1, <2>2
<1> QED BY <1>2, <1>3

(* The Content-Length of a response is a number, and its part a set of     *)
(* bytes.                                                                  *)
LEMMA ResponseTyped ==
    ASSUME NEW h \in Header \cup {NoHeader}, NEW total \in Nat
    PROVE  /\ ContentLength(ParseRange(h, total), total) \in Nat
           /\ Part(ParseRange(h, total), total) \in SUBSET Nat
<1> DEFINE range == ParseRange(h, total)
<1>1. /\ range \in [first : Nat, last : Nat] \cup {Whole}
      /\ range # Whole => range.first <= range.last /\ range.last < total
  BY ParsedInFile
<1> HIDE DEF range
<1>2. ContentLength(range, total) \in Nat /\ Start(range) \in Nat
  BY <1>1 DEF ContentLength, Start
<1>3. Part(range, total) \in SUBSET Nat
  BY <1>2 DEF Part
<1> QED BY <1>2, <1>3 DEF range

-----------------------------------------------------------------------------
(* Serving: types and the parts of responses *)

LEMMA TypeInit == Init => TypeOK
<1> SUFFICES ASSUME Init PROVE TypeOK
  OBVIOUS
<1>1. None \in Counters
  BY DEF None, Counters
<1>2. answer \in [Request -> Response \cup {NoAnswer}]
  BY DEF Init
<1>3. /\ saver \in {"asleep", "writing"}
      /\ snap \in IF saver = "writing" THEN Counters ELSE {NoSnap}
      /\ {served, faults, restarts} \subseteq Nat
  BY DEF Init
<1> QED BY <1>1, <1>2, <1>3 DEF Init, TypeOK

LEMMA TypeStep == TypeOK /\ [Next]_vars => TypeOK'
<1> SUFFICES ASSUME TypeOK, [Next]_vars PROVE TypeOK'
  OBVIOUS
<1> USE DEF TypeOK
<1>1. ASSUME NEW r \in Request, NEW u \in User, NEW total \in Size, NEW h \in Asked,
             Answer(r, u, total, h)
      PROVE  TypeOK'
  <2> DEFINE length == ContentLength(ParseRange(h, total), total)
             part   == Part(ParseRange(h, total), total)
  <2>0. h \in Header \cup {NoHeader} /\ total \in Nat
    BY InputsAssumption
  <2>1. length \in Nat /\ part \in SUBSET Nat /\ AskedPart(h, total) = part
    BY <2>0, ResponseTyped, PartIsAsked
  <2>2. /\ usage' = [usage EXCEPT ![u] = @ + length]
        /\ answer' = [answer EXCEPT ![r] = [user |-> u, length |-> length,
                         part |-> part, asked |-> AskedPart(h, total)]]
        /\ served' = served + 1
    BY <1>1 DEF Answer, Charge
  <2> HIDE DEF length, part
  <2>3. usage' \in Counters
    BY <2>1, <2>2 DEF Counters
  <2>4. [user |-> u, length |-> length, part |-> part, asked |-> AskedPart(h, total)] \in Response
    BY <2>1 DEF Response
  <2>5. answer' \in [Request -> Response \cup {NoAnswer}]
    BY <2>2, <2>4
  <2> QED BY <1>1, <2>2, <2>3, <2>5 DEF Answer, Charge, saving
<1>2. ASSUME NEW r \in Request, Close(r) PROVE TypeOK'
  <2>1. answer[r] \in Response
    BY <1>2 DEF Close
  <2>2. answer[r].user \in User /\ answer[r].length \in Nat
    BY <2>1 DEF Response
  <2>3. sent' \in Counters
    BY <1>2, <2>2 DEF Close, Counters
  <2> QED BY <1>2, <2>3 DEF Close, saving
<1>3. ASSUME StartSave PROVE TypeOK'
  BY <1>3 DEF StartSave, serving
<1>4. ASSUME FinishSave PROVE TypeOK'
  BY <1>4, OutsideAssumption DEF FinishSave, serving
<1>5. ASSUME SaveFails PROVE TypeOK'
  BY <1>5 DEF SaveFails, serving
<1>6. ASSUME Restart PROVE TypeOK'
  BY <1>6 DEF Restart, LoadUsage, None, Counters
<1>7. ASSUME UNCHANGED vars PROVE TypeOK'
  BY <1>7 DEF vars, saving, serving
<1> HIDE DEF TypeOK
<1> QED BY <1>1, <1>2, <1>3, <1>4, <1>5, <1>6, <1>7 DEF Next

(* Every variable keeps its type; a save in progress has serialised a map  *)
(* of counters (save_usage).                                               *)
THEOREM TypeCorrect == Spec => []TypeOK
<1> QED BY TypeInit, TypeStep, PTL DEF Spec

LEMMA PartsStep == TypeOK /\ PartAsAsked /\ [Next]_vars => PartAsAsked'
<1> SUFFICES ASSUME TypeOK, PartAsAsked, [Next]_vars PROVE PartAsAsked'
  OBVIOUS
<1> USE DEF PartAsAsked
<1>0. answer \in [Request -> Response \cup {NoAnswer}]
  BY DEF TypeOK
<1>1. ASSUME NEW r \in Request, NEW u \in User, NEW total \in Size, NEW h \in Asked,
             Answer(r, u, total, h)
      PROVE  PartAsAsked'
  <2>1. Part(ParseRange(h, total), total) = AskedPart(h, total)
    BY InputsAssumption, PartIsAsked
  <2>2. answer'[r].part = answer'[r].asked
    BY <1>0, <1>1, <2>1 DEF Answer, Charge
  <2>3. \A q \in Request \ {r} : answer'[q] = answer[q]
    BY <1>0, <1>1 DEF Answer
  <2> QED BY <2>2, <2>3
<1>2. ASSUME NEW r \in Request, Close(r) PROVE PartAsAsked'
  BY <1>0, <1>2 DEF Close
<1>3. ASSUME StartSave \/ FinishSave \/ SaveFails \/ UNCHANGED vars PROVE PartAsAsked'
  BY <1>3 DEF StartSave, FinishSave, SaveFails, vars, serving
<1>4. ASSUME Restart PROVE PartAsAsked'
  BY <1>4 DEF Restart
<1> HIDE DEF PartAsAsked
<1> QED BY <1>1, <1>2, <1>3, <1>4 DEF Next

(* Every response in flight carries what its Range header asked for, for   *)
(* all files, headers and requests (parse_range, ranged).                  *)
THEOREM PartsAreAsked == Spec => []PartAsAsked
<1>1. Init => PartAsAsked
  BY DEF Init, PartAsAsked
<1> QED BY <1>1, PartsStep, TypeCorrect, PTL DEF Spec

-----------------------------------------------------------------------------
(* Serving: what a crash loses *)

(* usage.json is what the last complete save wrote; it is torn only while  *)
(* a save is under way, after one that failed, or when nothing was saved.  *)
FileSaved ==
    \/ usageFile = saved
    \/ usageFile = Torn /\ (saver = "writing" \/ saveFailed \/ saved = None)

LEMMA FileSavedStep == TypeOK /\ FileSaved /\ [Next]_vars => FileSaved'
<1> SUFFICES ASSUME TypeOK, FileSaved, [Next]_vars PROVE FileSaved'
  OBVIOUS
<1> USE DEF FileSaved
<1>1. ASSUME NEW r \in Request, NEW u \in User, NEW total \in Size, NEW h \in Asked,
             Answer(r, u, total, h)
      PROVE  FileSaved'
  BY <1>1 DEF Answer, saving, None
<1>2. ASSUME NEW r \in Request, Close(r) PROVE FileSaved'
  BY <1>2 DEF Close, saving, None
<1>3. ASSUME StartSave \/ FinishSave \/ SaveFails \/ UNCHANGED vars PROVE FileSaved'
  BY <1>3 DEF StartSave, FinishSave, SaveFails, vars, saving, None
<1>4. ASSUME Restart PROVE FileSaved'
  BY <1>4 DEF Restart, LoadUsage, None
<1> HIDE DEF FileSaved
<1> QED BY <1>1, <1>2, <1>3, <1>4 DEF Next

(* A crash takes the counters back to the last complete save, unless it    *)
(* hits a save or the last one failed; then they are all zero (save_usage, *)
(* load).                                                                  *)
THEOREM CrashesLoseUnsaved == Spec => CrashLosesUnsaved
<1>1. Init => FileSaved
  BY DEF Init, FileSaved
<1>2. TypeOK /\ FileSaved /\ [Next]_vars =>
        [restarts' # restarts =>
            usage' = saved \/ (usage' = None /\ (saver = "writing" \/ saveFailed))]_vars
  <2> SUFFICES ASSUME TypeOK, FileSaved, Next, restarts' # restarts
               PROVE  \/ usage' = saved
                      \/ usage' = None /\ (saver = "writing" \/ saveFailed)
    OBVIOUS
  <2>1. Restart
    BY DEF Next, TypeOK, Answer, Close, StartSave, FinishSave, SaveFails
  <2>2. saved # Torn
    BY OutsideAssumption DEF TypeOK
  <2> QED BY <2>1, <2>2 DEF Restart, LoadUsage, FileSaved
<1> QED BY <1>1, <1>2, FileSavedStep, TypeCorrect, PTL DEF Spec, CrashLosesUnsaved

-----------------------------------------------------------------------------
(* Serving: what is on disk                                                *)

(* The lock is held until the write has ended, so a save writes the        *)
(* counters as they still are; and the file shows no more than memory.     *)
DiskBehind ==
    /\ saver = "writing" => snap = usage
    /\ usageFile # Torn => \A u \in User : usageFile[u] <= usage[u]

LEMMA DiskStep == TypeOK /\ DiskBehind /\ [Next]_vars => DiskBehind'
<1> SUFFICES ASSUME TypeOK, DiskBehind, [Next]_vars PROVE DiskBehind'
  OBVIOUS
<1>0. /\ usage \in [User -> Nat]
      /\ usageFile # Torn => usageFile \in [User -> Nat]
  BY DEF TypeOK, Counters
<1>1. ASSUME NEW r \in Request, NEW u \in User, NEW total \in Size, NEW h \in Asked,
             Answer(r, u, total, h)
      PROVE  DiskBehind'
  <2> DEFINE length == ContentLength(ParseRange(h, total), total)
  <2>1. length \in Nat
    BY InputsAssumption, ResponseTyped
  <2>2. /\ usage' = [usage EXCEPT ![u] = @ + length] /\ saver' # "writing"
        /\ usageFile' = usageFile
    BY <1>1 DEF Answer, Charge, Unlocked, saving
  <2> HIDE DEF length
  <2>3. ASSUME NEW v \in User, usageFile # Torn PROVE usageFile[v] <= usage'[v]
    <3>1. usageFile[v] \in Nat /\ usage[v] \in Nat /\ usageFile[v] <= usage[v]
      BY <1>0, <2>3 DEF DiskBehind
    <3>2. usage'[v] = usage[v] \/ usage'[v] = usage[v] + length
      BY <1>0, <2>2
    <3> QED BY <2>1, <3>1, <3>2
  <2> QED BY <2>2, <2>3 DEF DiskBehind
<1>2. ASSUME NEW r \in Request, Close(r) PROVE DiskBehind'
  BY <1>2 DEF Close, saving, DiskBehind
<1>3. CASE StartSave
  BY <1>3 DEF StartSave, serving, DiskBehind
<1>4. CASE FinishSave
  <2>1. usageFile' = usage /\ usage' = usage /\ saver' = "asleep"
    BY <1>4 DEF FinishSave, serving, DiskBehind
  <2> QED BY <1>0, <2>1 DEF DiskBehind
<1>5. CASE SaveFails
  BY <1>5 DEF SaveFails, serving, DiskBehind
<1>6. CASE Restart
  <2>1. usage' = LoadUsage /\ usageFile' = usageFile /\ saver' = "asleep"
    BY <1>6 DEF Restart
  <2> QED BY <1>0, <2>1 DEF LoadUsage, DiskBehind
<1>7. CASE UNCHANGED vars
  BY <1>7 DEF vars, saving, serving, DiskBehind
<1> QED BY <1>1, <1>2, <1>3, <1>4, <1>5, <1>6, <1>7 DEF Next

(* usage.json never shows more bytes than were charged, and no request     *)
(* changes the counters while a save writes them (save_usage).             *)
THEOREM DiskNeverAhead == Spec => []DiskBehind
<1>1. Init => DiskBehind
  BY DEF Init, DiskBehind
<1> QED BY <1>1, DiskStep, TypeCorrect, PTL DEF Spec

-----------------------------------------------------------------------------
(* Serving: what the counters owe                                          *)

(* The bytes in flight to a user, each counted once: those of a response   *)
(* are numbered from 1 to its length.                                      *)
Bytes(r, n) == {r} \X (1 .. n)
Sending(u)  == {r \in Request : answer[r] # NoAnswer /\ answer[r].user = u}
InFlight(u) == UNION {Bytes(r, answer[r].length) : r \in Sending(u)}

(* A counter covers what was sent and all that may yet be: the stronger    *)
(* fact that survives the end of a response.                               *)
Covered(u) == IsFiniteSet(InFlight(u)) /\ sent[u] + Cardinality(InFlight(u)) <= usage[u]
AllCovered == \A u \in User : Covered(u)

LEMMA BytesCounted ==
    ASSUME NEW r, NEW n \in Nat
    PROVE  IsFiniteSet(Bytes(r, n)) /\ Cardinality(Bytes(r, n)) = n
<1>1. IsFiniteSet(1 .. n) /\ Cardinality(1 .. n) = n
  BY FS_Interval
<1>2. IsFiniteSet({r}) /\ Cardinality({r}) = 1
  BY FS_Singleton
<1>3. IsFiniteSet({r} \X (1 .. n)) /\ Cardinality({r} \X (1 .. n)) = 1 * n
  BY <1>1, <1>2, FS_Product
<1> QED BY <1>3 DEF Bytes

LEMMA InFlightOf ==
    ASSUME NEW u, NEW x
    PROVE  x \in InFlight(u) <=> \E r \in Sending(u) : x \in Bytes(r, answer[r].length)
BY DEF InFlight

LEMMA CoveredStep == TypeOK /\ AllCovered /\ [Next]_vars => AllCovered'
<1> SUFFICES ASSUME TypeOK, AllCovered, [Next]_vars, NEW v \in User PROVE Covered(v)'
  BY DEF AllCovered
<1>0. /\ answer \in [Request -> Response \cup {NoAnswer}]
      /\ sent \in [User -> Nat] /\ usage \in [User -> Nat]
      /\ IsFiniteSet(InFlight(v)) /\ Cardinality(InFlight(v)) \in Nat
      /\ sent[v] + Cardinality(InFlight(v)) <= usage[v]
  BY FS_CardinalityType DEF TypeOK, Counters, AllCovered, Covered
<1>1. ASSUME NEW r \in Request, NEW u \in User, NEW total \in Size, NEW h \in Asked,
             Answer(r, u, total, h)
      PROVE  Covered(v)'
  <2> DEFINE length == ContentLength(ParseRange(h, total), total)
             sendsNow == [user |-> u, length |-> length, part |-> Part(ParseRange(h, total), total),
                          asked |-> AskedPart(h, total)]
  <2>1. length \in Nat
    BY InputsAssumption, ResponseTyped
  <2>2. sendsNow \in Response
    BY <2>1, InputsAssumption, ResponseTyped, PartIsAsked DEF Response
  <2>3. /\ answer[r] = NoAnswer /\ sent' = sent
        /\ usage' = [usage EXCEPT ![u] = @ + length]
        /\ answer' = [answer EXCEPT ![r] = sendsNow]
    BY <1>1 DEF Answer, Charge
  <2>4. sendsNow.user = u /\ sendsNow.length = length
    OBVIOUS
  <2> HIDE DEF length, sendsNow
  <2>5. /\ answer'[r] = sendsNow /\ sendsNow # NoAnswer
        /\ \A q \in Request : q # r => answer'[q] = answer[q]
    BY <1>0, <2>2, <2>3, OutsideAssumption
  <2>6. CASE v = u
    <3>1. Sending(v)' = Sending(v) \cup {r} /\ r \notin Sending(v)
      BY <2>3, <2>4, <2>5, <2>6 DEF Sending
    <3>2. InFlight(v)' = InFlight(v) \cup Bytes(r, length)
      <4>1. \A q \in Sending(v) : answer'[q].length = answer[q].length
        BY <2>5, <3>1 DEF Sending
      <4>2. answer'[r].length = length
        BY <2>4, <2>5
      <4> QED BY <3>1, <4>1, <4>2 DEF InFlight
    <3>3. InFlight(v) \cap Bytes(r, length) = {}
      <4>1. ASSUME NEW x \in InFlight(v), x \in Bytes(r, length) PROVE FALSE
        <5>1. PICK q \in Sending(v) : x \in Bytes(q, answer[q].length)
          BY <4>1, InFlightOf
        <5> QED BY <3>1, <4>1, <5>1 DEF Bytes
      <4> QED BY <4>1
    <3>4. IsFiniteSet(Bytes(r, length)) /\ Cardinality(Bytes(r, length)) = length
      BY <2>1, BytesCounted
    <3>5. IsFiniteSet(InFlight(v)') /\ Cardinality(InFlight(v)') = Cardinality(InFlight(v)) + length
      <4>1. /\ IsFiniteSet(InFlight(v) \cup Bytes(r, length))
            /\ Cardinality(InFlight(v) \cup Bytes(r, length)) =
                 Cardinality(InFlight(v)) + Cardinality(Bytes(r, length))
                   - Cardinality(InFlight(v) \cap Bytes(r, length))
        BY <1>0, <3>4, FS_Union
      <4>2. Cardinality(InFlight(v) \cap Bytes(r, length)) = 0
        BY <3>3, FS_EmptySet
      <4> QED BY <1>0, <2>1, <3>2, <3>4, <4>1, <4>2
    <3>6. usage'[v] = usage[v] + length /\ sent'[v] = sent[v]
      BY <1>0, <2>3, <2>6
    <3>7. sent[v] \in Nat /\ usage[v] \in Nat
      BY <1>0
    <3> QED BY <1>0, <2>1, <3>5, <3>6, <3>7 DEF Covered
  <2>7. CASE v # u
    <3>1. Sending(v)' = Sending(v) /\ r \notin Sending(v)
      BY <2>3, <2>4, <2>5, <2>7 DEF Sending
    <3>2. InFlight(v)' = InFlight(v)
      BY <2>5, <3>1 DEF InFlight, Sending
    <3>3. usage'[v] = usage[v] /\ sent'[v] = sent[v]
      BY <1>0, <2>3, <2>7
    <3> QED BY <1>0, <3>2, <3>3 DEF Covered
  <2> QED BY <2>6, <2>7
<1>2. ASSUME NEW r \in Request, Close(r) PROVE Covered(v)'
  <2>1. answer[r] \in Response
    BY <1>0, <1>2 DEF Close
  <2>2. answer[r].user \in User /\ answer[r].length \in Nat
    BY <2>1 DEF Response
  <2> DEFINE length == answer[r].length
  <2>3. PICK n \in 0 .. length : sent' = [sent EXCEPT ![answer[r].user] = @ + n]
    BY <1>2 DEF Close
  <2>4. /\ usage' = usage /\ answer[r] # NoAnswer /\ answer'[r] = NoAnswer
        /\ \A q \in Request : q # r => answer'[q] = answer[q]
    BY <1>0, <1>2 DEF Close
  <2> HIDE DEF length
  <2>5. CASE answer[r].user = v
    <3>1. r \in Sending(v) /\ Sending(v)' = Sending(v) \ {r}
      BY <2>4, <2>5 DEF Sending
    <3>2. Bytes(r, length) \subseteq InFlight(v)
      BY <3>1 DEF InFlight, length
    <3>3. InFlight(v)' = InFlight(v) \ Bytes(r, length)
      <4>1. ASSUME NEW x \in InFlight(v)' PROVE x \in InFlight(v) /\ x \notin Bytes(r, length)
        <5>1. PICK q \in Sending(v)' : x \in Bytes(q, answer'[q].length)
          BY <4>1 DEF InFlight
        <5>2. q \in Sending(v) /\ q # r /\ answer'[q] = answer[q]
          BY <2>4, <3>1 DEF Sending
        <5>3. x \in InFlight(v)
          BY <5>1, <5>2, InFlightOf
        <5> QED BY <5>1, <5>2, <5>3 DEF Bytes
      <4>2. ASSUME NEW x \in InFlight(v), x \notin Bytes(r, length) PROVE x \in InFlight(v)'
        <5>1. PICK q \in Sending(v) : x \in Bytes(q, answer[q].length)
          BY <4>2, InFlightOf
        <5>2. q # r
          BY <4>2, <5>1 DEF length
        <5>3. q \in Sending(v)' /\ answer'[q] = answer[q]
          BY <2>4, <3>1, <5>2 DEF Sending
        <5> QED BY <5>1, <5>3 DEF InFlight
      <4> QED BY <4>1, <4>2
    <3>4. IsFiniteSet(Bytes(r, length)) /\ Cardinality(Bytes(r, length)) = length
      BY <2>2, BytesCounted DEF length
    <3>5. IsFiniteSet(InFlight(v)') /\ Cardinality(InFlight(v)') = Cardinality(InFlight(v)) - length
      <4>1. InFlight(v) \cap Bytes(r, length) = Bytes(r, length)
        BY <3>2
      <4> QED BY <1>0, <3>3, <3>4, <4>1, FS_Difference
    <3>6. sent'[v] = sent[v] + n
      BY <1>0, <2>3, <2>5
    <3>7. /\ sent[v] \in Nat /\ usage[v] \in Nat /\ length \in Nat /\ n \in Nat /\ n <= length
          /\ usage'[v] = usage[v]
      BY <1>0, <2>2, <2>4 DEF length
    <3> QED BY <1>0, <3>5, <3>6, <3>7 DEF Covered
  <2>6. CASE answer[r].user # v
    <3>1. Sending(v)' = Sending(v) /\ r \notin Sending(v)
      BY <2>4, <2>6 DEF Sending
    <3>2. InFlight(v)' = InFlight(v)
      BY <2>4, <3>1 DEF InFlight, Sending
    <3>3. usage'[v] = usage[v] /\ sent'[v] = sent[v]
      BY <1>0, <2>3, <2>4, <2>6
    <3> QED BY <1>0, <3>2, <3>3 DEF Covered
  <2> QED BY <2>5, <2>6
<1>3. CASE StartSave \/ FinishSave \/ SaveFails \/ UNCHANGED vars
  <2>1. UNCHANGED <<usage, sent, answer>>
    BY <1>3 DEF StartSave, FinishSave, SaveFails, vars, serving
  <2>2. InFlight(v)' = InFlight(v)
    BY <2>1 DEF InFlight, Sending
  <2> QED BY <1>0, <2>1, <2>2 DEF Covered
<1>4. CASE Restart
  <2>1. /\ answer' = [r \in Request |-> NoAnswer]
        /\ sent' = LoadUsage /\ usage' = LoadUsage
    BY <1>4 DEF Restart
  <2>2. LoadUsage[v] \in Nat
    BY DEF LoadUsage, None, TypeOK, Counters
  <2>3. Sending(v)' = {}
    BY <2>1 DEF Sending
  <2>4. InFlight(v)' = {}
    BY <2>3 DEF InFlight
  <2>5. IsFiniteSet(InFlight(v)') /\ Cardinality(InFlight(v)') = 0
    BY <2>4, FS_EmptySet
  <2> QED BY <2>1, <2>2, <2>5 DEF Covered
<1> QED BY <1>1, <1>2, <1>3, <1>4 DEF Next

LEMMA CoveredInit == Init => AllCovered
<1> SUFFICES ASSUME Init, NEW u \in User PROVE Covered(u)
  BY DEF AllCovered
<1>1. Sending(u) = {}
  BY DEF Init, Sending
<1>2. InFlight(u) = {}
  BY <1>1 DEF InFlight
<1>3. IsFiniteSet(InFlight(u)) /\ Cardinality(InFlight(u)) = 0
  BY <1>2, FS_EmptySet
<1> QED BY <1>3 DEF Init, None, Covered

(* No user is ever sent more bytes than their counter shows, whatever the  *)
(* saver, hang-ups and crashes do, for any number of responses at once     *)
(* (require_auth).                                                         *)
THEOREM SentAreCharged == Spec => []SentIsCharged
<1>1. TypeOK /\ AllCovered => SentIsCharged
  <2> SUFFICES ASSUME TypeOK, AllCovered, NEW u \in User PROVE sent[u] <= usage[u]
    BY DEF SentIsCharged
  <2>1. Cardinality(InFlight(u)) \in Nat /\ sent[u] + Cardinality(InFlight(u)) <= usage[u]
    BY FS_CardinalityType DEF AllCovered, Covered
  <2>2. sent[u] \in Nat /\ usage[u] \in Nat
    BY DEF TypeOK, Counters
  <2> QED BY <2>1, <2>2
<1> QED BY <1>1, CoveredInit, CoveredStep, TypeCorrect, PTL DEF Spec

=============================================================================
