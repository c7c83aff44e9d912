--------------------------- MODULE SettingsProofs ---------------------------
(***************************************************************************)
(* Proofs about Settings and Mirror, for any number of requests, any       *)
(* values, and any number of failed writes and crashes.                    *)
(***************************************************************************)
EXTENDS Settings, TLAPS

(* The type invariant, with what a handler holds at each of its steps. *)
Typed ==
    /\ TypeOK
    /\ \A h \in Handler : /\ pc[h] = "writeConfig" => text[h] \in Config
                          /\ pc[h] \in LimitSteps => text[h] \in Limits

LEMMA Stored ==
    ASSUME TypeOK
    PROVE  LoadConfig \in Config /\ LoadLimits \in Limits
BY DefaultAssumption DEF TypeOK, LoadConfig, LoadLimits, NoLimits, Limits

LEMMA TypedInit == Init => Typed
<1> SUFFICES ASSUME Init PROVE Typed
  OBVIOUS
<1>1. pc = [h \in Handler |-> "idle"] /\ text = [h \in Handler |-> Nothing]
  BY DEF Init
<1>2. config \in Config /\ limits \in Limits
  BY DefaultAssumption DEF Init, NoLimits, Limits
<1>3. faults = 0 /\ restarts = 0 /\ lost = {} /\ overlapped = FALSE
  BY DEF Init
<1>4. configFile = Torn /\ limitsFile = Torn
  BY DEF Init
<1>5. /\ pc \in [Handler -> {"idle"} \cup ConfigSteps \cup LimitSteps]
      /\ text \in [Handler -> Config \cup Limits \cup {Nothing}]
      /\ \A h \in Handler : pc[h] = "idle"
  BY <1>1
<1>6. overlapped \in BOOLEAN
  BY <1>3
<1>7. {faults, restarts} \subseteq Nat /\ lost \subseteq {"config", "limits"}
  BY <1>3
<1>8. TypeOK
  BY <1>2, <1>4, <1>5, <1>6, <1>7 DEF TypeOK
<1> QED BY <1>5, <1>8 DEF Typed, LimitSteps

LEMMA TypedStep == Typed /\ [Next]_vars => Typed'
<1> SUFFICES ASSUME Typed, [Next]_vars PROVE Typed'
  OBVIOUS
<1> USE DEF Typed, TypeOK, ConfigSteps, LimitSteps, Go
<1>1. ASSUME NEW h \in Handler, NEW c \in Config, SetConfig(h, c) PROVE Typed'
  BY <1>1 DEF SetConfig, speed
<1>2. ASSUME NEW h \in Handler, StartConfigSave(h) PROVE Typed'
  BY <1>2 DEF StartConfigSave, speed
<1>3. ASSUME NEW h \in Handler, WriteConfig(h) PROVE Typed'
  BY <1>3 DEF WriteConfig, speed
<1>4. ASSUME NEW h \in Handler, ConfigFails(h) PROVE Typed'
  <2>1. /\ faults' = faults + 1 /\ restarts' = restarts
        /\ lost' = lost \cup {"config"} /\ overlapped' = overlapped
        /\ pc' = [pc EXCEPT ![h] = "idle"] /\ text' = [text EXCEPT ![h] = Nothing]
    BY <1>4 DEF ConfigFails, Fail, speed
  <2>2. /\ config' = config /\ configFile' \in {configFile, Torn}
        /\ limits' = limits /\ limitsFile' = limitsFile
    BY <1>4 DEF ConfigFails, speed
  <2> QED BY <2>1, <2>2
<1>5. ASSUME NEW h \in Handler, NEW l \in Limits, SetDownload(h, l) PROVE Typed'
  <2>1. limits' \in Limits
    BY <1>5 DEF SetDownload, Limits
  <2>2. overlapped' \in BOOLEAN
    BY <1>5 DEF SetDownload
  <2> QED BY <1>5, <2>1, <2>2 DEF SetDownload, configuration
<1>6. ASSUME NEW h \in Handler, SetUpload(h) PROVE Typed'
  <2>1. text[h] \in Limits
    BY <1>6 DEF SetUpload
  <2>2. limits' \in Limits
    BY <1>6, <2>1 DEF SetUpload, Limits
  <2> QED BY <1>6, <2>2 DEF SetUpload, configuration
<1>7. ASSUME NEW h \in Handler, StartLimitsSave(h) PROVE Typed'
  BY <1>7 DEF StartLimitsSave, configuration
<1>8. ASSUME NEW h \in Handler, WriteLimits(h) PROVE Typed'
  <2>1. text[h] \in Limits
    BY <1>8 DEF WriteLimits
  <2>2. limitsFile' \in {text[h], Torn}
    BY <1>8 DEF WriteLimits, Overlay
  <2>3. /\ limits' = limits /\ faults' = faults /\ restarts' = restarts
        /\ lost' = lost \ {"limits"} /\ overlapped' = overlapped
        /\ pc' = [pc EXCEPT ![h] = "idle"] /\ text' = [text EXCEPT ![h] = Nothing]
        /\ config' = config /\ configFile' = configFile
    BY <1>8 DEF WriteLimits, configuration
  <2> QED BY <2>1, <2>2, <2>3
<1>9. ASSUME NEW h \in Handler, LimitsFail(h) PROVE Typed'
  <2>1. /\ faults' = faults + 1 /\ restarts' = restarts
        /\ lost' = lost \cup {"limits"} /\ overlapped' = overlapped
        /\ pc' = [pc EXCEPT ![h] = "idle"] /\ text' = [text EXCEPT ![h] = Nothing]
    BY <1>9 DEF LimitsFail, Fail
  <2>2. /\ config' = config /\ configFile' = configFile
        /\ limits' = limits /\ limitsFile' \in {limitsFile, Torn}
    BY <1>9 DEF LimitsFail, configuration
  <2> QED BY <2>1, <2>2
<1>10. ASSUME Restart PROVE Typed'
  <2>1. config' \in Config /\ limits' \in Limits
    BY <1>10, Stored DEF Restart
  <2>2. overlapped' \in BOOLEAN
    BY <1>10 DEF Restart
  <2>3. /\ pc' = [h \in Handler |-> "idle"] /\ text' = [h \in Handler |-> Nothing]
        /\ lost' = {} /\ restarts' = restarts + 1 /\ faults' = faults
        /\ configFile' = configFile /\ limitsFile' = limitsFile
    BY <1>10 DEF Restart
  <2> QED BY <2>1, <2>2, <2>3
<1>11. ASSUME UNCHANGED vars PROVE Typed'
  BY <1>11 DEF vars, configuration, speed
<1> HIDE DEF Typed, TypeOK
<1> QED
  BY <1>1, <1>2, <1>3, <1>4, <1>5, <1>6, <1>7, <1>8, <1>9, <1>10, <1>11
     DEF Next, ConfigNext, LimitsNext

(* Every variable keeps its type, and each handler holds what it is to     *)
(* write (set_config, set_rate_limits).                                    *)
THEOREM TypeCorrect == Spec => []TypeOK
<1>1. Typed => TypeOK
  BY DEF Typed
<1> QED BY <1>1, TypedInit, TypedStep, PTL DEF Spec

-----------------------------------------------------------------------------
(* The access configuration *)

(* One save of the configuration is under way at a time, and what it       *)
(* writes is the configuration in memory.                                  *)
OneSaver ==
    \A h \in Handler : pc[h] = "writeConfig" =>
        text[h] = config /\ \A g \in Handler : pc[g] = "writeConfig" => g = h

LEMMA OneSaverStep == Typed /\ OneSaver /\ [Next]_vars => OneSaver'
<1> SUFFICES ASSUME Typed, OneSaver, [Next]_vars PROVE OneSaver'
  OBVIOUS
<1> USE DEF OneSaver, Go
<1>0. pc \in [Handler -> {"idle"} \cup ConfigSteps \cup LimitSteps] /\ DOMAIN text = Handler
  BY DEF Typed, TypeOK
<1>1. ASSUME NEW h \in Handler, NEW c \in Config, SetConfig(h, c) PROVE OneSaver'
  BY <1>0, <1>1 DEF SetConfig, Unlocked, At
<1>2. ASSUME NEW h \in Handler, StartConfigSave(h) PROVE OneSaver'
  BY <1>0, <1>2 DEF StartConfigSave, Unlocked, At
<1>3. ASSUME NEW h \in Handler, WriteConfig(h) PROVE OneSaver'
  BY <1>0, <1>3 DEF WriteConfig
<1>4. ASSUME NEW h \in Handler, ConfigFails(h) PROVE OneSaver'
  BY <1>0, <1>4 DEF ConfigFails, Fail
<1>5. ASSUME NEW h \in Handler, NEW l \in Limits, SetDownload(h, l) PROVE OneSaver'
  BY <1>0, <1>5 DEF SetDownload, configuration
<1>6. ASSUME NEW h \in Handler, SetUpload(h) \/ StartLimitsSave(h) PROVE OneSaver'
  BY <1>0, <1>6 DEF SetUpload, StartLimitsSave, configuration
<1>7. ASSUME NEW h \in Handler, WriteLimits(h) \/ LimitsFail(h) PROVE OneSaver'
  BY <1>0, <1>7 DEF WriteLimits, LimitsFail, Fail, configuration
<1>8. ASSUME Restart \/ UNCHANGED vars PROVE OneSaver'
  BY <1>8 DEF Restart, vars, configuration
<1> HIDE DEF OneSaver
<1> QED BY <1>1, <1>2, <1>3, <1>4, <1>5, <1>6, <1>7, <1>8 DEF Next, ConfigNext, LimitsNext

(* Every step of the program is a step of the abstract store, or leaves it *)
(* alone.                                                                  *)
LEMMA StoreStep == Typed /\ OneSaver /\ [Next]_vars => [Store!Next]_<<config, configFile, ConfigUnsaved>>
<1> SUFFICES ASSUME Typed, OneSaver, [Next]_vars
             PROVE  [Store!Next]_<<config, configFile, ConfigUnsaved>>
  OBVIOUS
<1> DEFINE Same == UNCHANGED <<config, configFile, ConfigUnsaved>>
<1> USE DEF ConfigUnsaved, ConfigSteps, LimitSteps, At, Go
<1>0. pc \in [Handler -> {"idle", "saveConfig", "writeConfig", "setUpload", "saveLimits", "writeLimits"}]
  BY DEF Typed, TypeOK
<1>1. ASSUME NEW h \in Handler, NEW c \in Config, SetConfig(h, c) PROVE Store!Change
  BY <1>0, <1>1 DEF SetConfig, Store!Change
<1>2. ASSUME NEW h \in Handler, StartConfigSave(h) PROVE Store!Tear
  BY <1>0, <1>2 DEF StartConfigSave, Store!Tear
<1>3. ASSUME NEW h \in Handler, WriteConfig(h) PROVE Store!Save
  <2>1. text[h] = config
    BY <1>3 DEF WriteConfig, OneSaver
  <2> QED BY <1>0, <1>3, <2>1 DEF WriteConfig, Store!Save
<1>4. ASSUME NEW h \in Handler, ConfigFails(h) PROVE Store!Tear \/ Same
  BY <1>0, <1>4 DEF ConfigFails, Fail, Store!Tear
<1>5. ASSUME NEW h \in Handler, NEW l \in Limits, SetDownload(h, l) PROVE Same
  BY <1>0, <1>5 DEF SetDownload, configuration
<1>6. ASSUME NEW h \in Handler, SetUpload(h) \/ StartLimitsSave(h) PROVE Same
  BY <1>0, <1>6 DEF SetUpload, StartLimitsSave, configuration
<1>7. ASSUME NEW h \in Handler, WriteLimits(h) \/ LimitsFail(h) PROVE Same
  BY <1>0, <1>7 DEF WriteLimits, LimitsFail, Fail, configuration
<1>8. ASSUME Restart PROVE Store!Restart
  BY <1>8 DEF Restart, Store!Restart, LoadConfig, Store!Loaded
<1>9. ASSUME UNCHANGED vars PROVE Same
  BY <1>9 DEF vars, configuration
<1> QED
  BY <1>1, <1>2, <1>3, <1>4, <1>5, <1>6, <1>7, <1>8, <1>9
     DEF Next, ConfigNext, LimitsNext, Store!Next

(* The access configuration and its file implement the abstract store:     *)
(* overlapping requests never put an older configuration over a newer one  *)
(* (set_config, save_config).                                              *)
THEOREM ConfigIsStore == Spec => ImplementsMirror
<1>1. Init => Store!Init
  BY DEF Init, Store!Init, ConfigUnsaved, At, ConfigSteps
<1>2. Init => OneSaver
  BY DEF Init, OneSaver
<1> QED
  BY <1>1, <1>2, TypedInit, TypedStep, OneSaverStep, StoreStep, PTL
  DEF Spec, ImplementsMirror, Store!Spec

(* What the abstract store promises: a restart changes the configuration   *)
(* only if a change was being saved or its save had failed (load).         *)
THEOREM ConfigMirrored == Spec => []Store!Mirrored
<1>1. Store!Init => Store!Mirrored
  BY DEF Store!Init, Store!Mirrored, Store!Loaded
<1>2. TypeOK /\ Store!Mirrored /\ [Store!Next]_<<config, configFile, ConfigUnsaved>>
        => Store!Mirrored'
  <2>1. TypeOK => config # Torn
    BY SettingsSentinels DEF TypeOK
  <2> QED
    BY <2>1 DEF Store!Mirrored, Store!Next, Store!Change, Store!Tear, Store!Save,
                Store!Restart, Store!Loaded
<1> QED BY <1>1, <1>2, ConfigIsStore, TypeCorrect, PTL DEF ImplementsMirror, Store!Spec

-----------------------------------------------------------------------------
(* The speed limits *)

(* While no setters overlap, there is one at a time, and the limits in     *)
(* force are the part of its request that it has set so far.               *)
Progress(h) ==
    /\ pc[h] = "setUpload" => limits.down = text[h].down
    /\ pc[h] \in {"saveLimits", "writeLimits"} => limits = text[h]
    /\ pc[h] = "writeLimits" => limitsFile = Torn

OneSetter ==
    ~overlapped =>
        /\ \A g, h \in At(LimitSteps) : g = h
        /\ \A h \in Handler : Progress(h)
        /\ Settled => limits = LoadLimits

LEMMA OneSetterInit == Init => OneSetter
BY DEF Init, OneSetter, At, LimitSteps, Progress, LoadLimits

LEMMA SetDownloadOne ==
    ASSUME Typed, NEW h \in Handler, NEW l \in Limits, SetDownload(h, l)
    PROVE  OneSetter'
<1>1. CASE At(LimitSteps) # {}
  BY <1>1 DEF SetDownload, OneSetter
<1>2. CASE At(LimitSteps) = {}
  <2>0. /\ pc' = [pc EXCEPT ![h] = "setUpload"] /\ DOMAIN pc = Handler
        /\ text' = [text EXCEPT ![h] = l] /\ DOMAIN text = Handler
        /\ limits' = [limits EXCEPT !.down = l.down] /\ limits \in Limits
    BY DEF SetDownload, Go, Typed, TypeOK
  <2>1. At(LimitSteps)' = {h} /\ \A g \in Handler \ {h} : pc'[g] \notin LimitSteps
    BY <1>2, <2>0 DEF At, LimitSteps
  <2>2. limits'.down = text'[h].down
    BY <2>0 DEF Limits
  <2>3. \A g \in Handler : Progress(g)'
    BY <2>0, <2>1, <2>2 DEF Progress, LimitSteps
  <2> QED BY <2>1, <2>3 DEF OneSetter, Settled
<1> QED BY <1>1, <1>2

LEMMA SetUploadOne ==
    ASSUME Typed, OneSetter, NEW h \in Handler, SetUpload(h)
    PROVE  OneSetter'
<1>1. CASE overlapped
  BY <1>1 DEF SetUpload, OneSetter
<1>2. CASE ~overlapped
  <2>0. /\ pc' = [pc EXCEPT ![h] = "saveLimits"] /\ DOMAIN pc = Handler /\ pc[h] = "setUpload"
        /\ text' = text /\ limitsFile' = limitsFile
        /\ limits' = [limits EXCEPT !.up = text[h].up]
        /\ limits \in Limits /\ text[h] \in Limits
    BY DEF SetUpload, Go, Typed, TypeOK, LimitSteps
  <2>1. At(LimitSteps)' = {h} /\ \A g \in Handler \ {h} : pc'[g] \notin LimitSteps
    BY <1>2, <2>0 DEF At, LimitSteps, OneSetter
  <2>2. limits' = text'[h]
    BY <1>2, <2>0 DEF OneSetter, Progress, Limits
  <2>3. \A g \in Handler : Progress(g)'
    BY <2>0, <2>1, <2>2 DEF Progress, LimitSteps
  <2> QED BY <2>1, <2>3 DEF OneSetter, Settled
<1> QED BY <1>1, <1>2

LEMMA SaveOne ==
    ASSUME Typed, OneSetter, NEW h \in Handler, StartLimitsSave(h) \/ WriteLimits(h) \/ LimitsFail(h)
    PROVE  OneSetter'
<1>1. CASE overlapped
  BY <1>1 DEF StartLimitsSave, WriteLimits, LimitsFail, OneSetter
<1>2. CASE ~overlapped
  <2>0. /\ pc[h] \in LimitSteps /\ pc \in [Handler -> {"idle"} \cup ConfigSteps \cup LimitSteps]
        /\ text[h] \in Limits /\ DOMAIN text = Handler /\ limits' = limits
    BY DEF StartLimitsSave, WriteLimits, LimitsFail, Fail, Go, Typed, TypeOK, LimitSteps
  <2>1. \A g \in Handler \ {h} : pc[g] \notin LimitSteps
    BY <1>2, <2>0 DEF At, OneSetter
  <2>2. ASSUME StartLimitsSave(h) PROVE OneSetter'
    <3>1. pc' = [pc EXCEPT ![h] = "writeLimits"] /\ limitsFile' = Torn /\ text' = text /\ limits = text[h]
      BY <1>2, <2>2 DEF StartLimitsSave, Go, OneSetter, Progress
    <3>2. At(LimitSteps)' = {h}
      BY <2>0, <2>1, <3>1 DEF At, LimitSteps
    <3>3. \A g \in Handler : Progress(g)'
      BY <2>0, <2>1, <3>1 DEF Progress, LimitSteps
    <3> QED BY <3>2, <3>3 DEF OneSetter, Settled
  <2>3. ASSUME pc' = [pc EXCEPT ![h] = "idle"], text' = [text EXCEPT ![h] = Nothing]
        PROVE  At(LimitSteps)' = {} /\ \A g \in Handler : Progress(g)'
    <3>1. \A g \in Handler : pc'[g] \notin LimitSteps
      BY <2>0, <2>1, <2>3 DEF LimitSteps
    <3> QED BY <3>1 DEF At, Progress, LimitSteps
  <2>4. ASSUME WriteLimits(h) PROVE OneSetter'
    <3>1. limits = text[h] /\ limitsFile' = text[h]
      BY <1>2, <2>4 DEF WriteLimits, Go, Overlay, OneSetter, Progress
    <3>2. limits' = LoadLimits'
      BY <2>0, <3>1, SettingsSentinels DEF LoadLimits
    <3> QED BY <2>3, <2>4, <3>2 DEF OneSetter, WriteLimits, Go
  <2>5. ASSUME LimitsFail(h) PROVE OneSetter'
    <3>1. "limits" \in lost'
      BY <2>5 DEF LimitsFail, Fail
    <3> QED BY <2>3, <2>5, <3>1 DEF OneSetter, Settled, LimitsFail, Fail, Go
  <2> QED BY <2>2, <2>4, <2>5
<1> QED BY <1>1, <1>2

(* The configuration leaves the limits alone. *)
LEMMA ConfigApart ==
    ASSUME Typed, OneSetter, NEW h \in Handler, ConfigNext(h)
    PROVE  OneSetter'
<1>1. /\ pc[h] \notin LimitSteps /\ pc'[h] \notin LimitSteps
      /\ \A g \in Handler \ {h} : pc'[g] = pc[g] /\ text'[g] = text[g]
      /\ UNCHANGED <<limits, limitsFile, overlapped>>
      /\ "limits" \in lost' <=> "limits" \in lost
  BY DEF ConfigNext, SetConfig, StartConfigSave, WriteConfig, ConfigFails, Fail, Go, speed,
         LimitSteps, Typed, TypeOK
<1>2. At(LimitSteps)' = At(LimitSteps)
  BY <1>1 DEF At, LimitSteps
<1>3. \A g \in Handler : Progress(g) => Progress(g)'
  BY <1>1 DEF Progress, LimitSteps
<1> QED BY <1>1, <1>2, <1>3 DEF OneSetter, Settled, LoadLimits

LEMMA OneSetterStep == Typed /\ OneSetter /\ [Next]_vars => OneSetter'
<1> SUFFICES ASSUME Typed, OneSetter, [Next]_vars PROVE OneSetter'
  OBVIOUS
<1>1. ASSUME NEW h \in Handler, LimitsNext(h) PROVE OneSetter'
  BY <1>1, SetDownloadOne, SetUploadOne, SaveOne DEF LimitsNext
<1>2. ASSUME Restart PROVE OneSetter'
  BY <1>2 DEF Restart, OneSetter, At, LimitSteps, Progress, LoadLimits
<1>3. ASSUME UNCHANGED vars PROVE OneSetter'
  BY <1>3 DEF vars, speed, configuration, OneSetter, At, Progress, Settled, LoadLimits
<1> QED BY <1>1, <1>2, <1>3, ConfigApart DEF Next

(* Once no setter is in flight the limits in force are those in the file,  *)
(* unless setters overlapped or the write failed (set_rate_limits).        *)
THEOREM LimitsFollowFile == Spec => []LimitsAgree
<1>1. OneSetter => LimitsAgree
  BY DEF OneSetter, LimitsAgree
<1> QED BY <1>1, OneSetterInit, OneSetterStep, TypedInit, TypedStep, PTL DEF Spec

(* With one request at a time the file is the truth: once it has returned, *)
(* and its write has not failed, a restart finds the limits in force.      *)
THEOREM AloneFileIsTruth == ASSUME NEW h, Handler = {h} PROVE Spec => []FileIsTruth
<1>1. Init => ~overlapped
  BY DEF Init
<1>2. Typed /\ ~overlapped /\ [Next]_vars => ~overlapped'
  <2> SUFFICES ASSUME Typed, ~overlapped, [Next]_vars PROVE ~overlapped'
    OBVIOUS
  <2>1. ASSUME NEW g \in Handler, NEW l \in Limits, SetDownload(g, l) PROVE ~overlapped'
    BY <2>1 DEF SetDownload, Go, At, LimitSteps
  <2>2. ASSUME NEW g \in Handler, \/ SetUpload(g) \/ StartLimitsSave(g) \/ WriteLimits(g)
                                  \/ LimitsFail(g) \/ ConfigNext(g)
        PROVE  ~overlapped'
    BY <2>2 DEF SetUpload, StartLimitsSave, WriteLimits, LimitsFail, ConfigNext, SetConfig,
                StartConfigSave, WriteConfig, ConfigFails, Fail, speed
  <2>3. CASE Restart \/ UNCHANGED vars
    BY <2>3 DEF Restart, vars, speed
  <2> QED BY <2>1, <2>2, <2>3 DEF Next, LimitsNext
<1>3. LimitsAgree /\ ~overlapped => FileIsTruth
  BY DEF LimitsAgree, FileIsTruth
<1> QED BY <1>1, <1>2, <1>3, LimitsFollowFile, TypedInit, TypedStep, PTL DEF Spec
=============================================================================
