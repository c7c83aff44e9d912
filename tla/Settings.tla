------------------------------ MODULE Settings ------------------------------
(***************************************************************************)
(* The two settings an administrator changes: the access configuration of  *)
(* auth.rs with auth_config.json, and the speed limits of engine.rs with   *)
(* settings.json.                                                          *)
(*                                                                         *)
(* Concurrent actors: request handlers.  save_config keeps the lock of the *)
(* configuration until its write has ended (the guard lives as long as the *)
(* `if let`); set_rate_limits takes no lock, and sets the two live limits  *)
(* and the file one after the other.  Both files are written with          *)
(* fs::write, which truncates them first, and its errors are dropped.  The *)
(* program may die between any two steps.                                  *)
(***************************************************************************)
EXTENDS Integers, FiniteSets

CONSTANTS
    Handler,
    Config, DefaultConfig,   \* the four settings as one value
    Rate, Unlimited,         \* speed limits
    Nothing,                 \* no value to write
    Torn,                    \* a file that does not parse, or none
    MaxFaults, MaxRestarts   \* bounds: failed writes, crashes

Limits   == [down : Rate \cup {Unlimited}, up : Rate \cup {Unlimited}]
NoLimits == [down |-> Unlimited, up |-> Unlimited]

ASSUME DefaultAssumption  == DefaultConfig \in Config
ASSUME SettingsBounds     == {MaxFaults, MaxRestarts} \subseteq Nat
ASSUME SettingsSentinels  == Torn \notin Config \cup Limits

VARIABLES
    config, configFile,   \* the configuration in memory, auth_config.json
    limits, limitsFile,   \* the limits in force, settings.json
    pc, text,             \* the next step of each handler, and what it is to write
    lost,                 \* history: the files whose last write failed
    overlapped,           \* history: whether setters of the limits overlapped
                          \* since one last began alone
    faults, restarts

configuration == <<config, configFile>>
speed         == <<limits, limitsFile, overlapped>>
vars          == <<configuration, speed, pc, text, lost, faults, restarts>>

ConfigSteps == {"saveConfig", "writeConfig"}
LimitSteps  == {"setUpload", "saveLimits", "writeLimits"}
At(steps)   == {h \in Handler : pc[h] \in steps}

LoadConfig == IF configFile = Torn THEN DefaultConfig ELSE configFile

LoadLimits == IF limitsFile = Torn THEN NoLimits ELSE limitsFile

Init ==
    /\ config = DefaultConfig /\ configFile = Torn
    /\ limits = NoLimits /\ limitsFile = Torn
    /\ pc = [h \in Handler |-> "idle"]
    /\ text = [h \in Handler |-> Nothing]
    /\ lost = {} /\ overlapped = FALSE
    /\ faults = 0 /\ restarts = 0

Go(h, from, to) == pc[h] = from /\ pc' = [pc EXCEPT ![h] = to]

-----------------------------------------------------------------------------
(* set_config changes the four settings in one lock region and saves them  *)
(* in another one.                                                         *)

Unlocked_AtOnce == TRUE

Unlocked == At({"writeConfig"}) = {}

SetConfig(h, c) ==
    /\ Unlocked
    /\ Go(h, "idle", "saveConfig")
    /\ config' = c
    /\ UNCHANGED <<configFile, speed, text, lost, faults, restarts>>

StartConfigSave(h) ==
    /\ Unlocked
    /\ Go(h, "saveConfig", "writeConfig")
    /\ text' = [text EXCEPT ![h] = config]
    /\ configFile' = Torn
    /\ UNCHANGED <<config, speed, lost, faults, restarts>>

WriteConfig(h) ==
    /\ Go(h, "writeConfig", "idle")
    /\ configFile' = text[h]
    /\ lost' = lost \ {"config"}
    /\ text' = [text EXCEPT ![h] = Nothing]
    /\ UNCHANGED <<config, speed, faults, restarts>>

-----------------------------------------------------------------------------
(* set_rate_limits: apply_limits sets the limits one by one. *)

SetDownload(h, l) ==
    /\ Go(h, "idle", "setUpload")
    /\ limits' = [limits EXCEPT !.down = l.down]
    /\ text' = [text EXCEPT ![h] = l]
    /\ overlapped' = (At(LimitSteps) # {})
    /\ UNCHANGED <<configuration, limitsFile, lost, faults, restarts>>

SetUpload_Skipped(h) ==
    /\ Go(h, "setUpload", "saveLimits")
    /\ UNCHANGED <<configuration, limits, limitsFile, overlapped, text, lost, faults, restarts>>

SetUpload(h) ==
    /\ Go(h, "setUpload", "saveLimits")
    /\ limits' = [limits EXCEPT !.up = text[h].up]
    /\ UNCHANGED <<configuration, limitsFile, overlapped, text, lost, faults, restarts>>

StartLimitsSave(h) ==
    /\ Go(h, "saveLimits", "writeLimits")
    /\ limitsFile' = Torn
    /\ UNCHANGED <<configuration, limits, overlapped, text, lost, faults, restarts>>

(* Over what another writer put there since the truncation a write may     *)
(* leave that writer's tail.                                               *)
Overlay(old, mine) == IF old \in {Torn, mine} THEN {mine} ELSE {mine, Torn}

WriteLimits(h) ==
    /\ Go(h, "writeLimits", "idle")
    /\ limitsFile' \in Overlay(limitsFile, text[h])
    /\ lost' = lost \ {"limits"}
    /\ text' = [text EXCEPT ![h] = Nothing]
    /\ UNCHANGED <<configuration, limits, overlapped, faults, restarts>>

-----------------------------------------------------------------------------
(* An error of either write: the file keeps its contents when it cannot be *)
(* opened, and is torn when the write itself fails.                        *)
Fail(h, file, from) ==
    /\ faults < MaxFaults /\ faults' = faults + 1
    /\ Go(h, from, "idle")
    /\ lost' = lost \cup {file}
    /\ text' = [text EXCEPT ![h] = Nothing]

ConfigFails(h) ==
    /\ \/ Unlocked /\ Fail(h, "config", "saveConfig") /\ UNCHANGED configFile
       \/ Fail(h, "config", "writeConfig") /\ configFile' = Torn
    /\ UNCHANGED <<config, speed, restarts>>

LimitsFail(h) ==
    /\ \/ Fail(h, "limits", "saveLimits") /\ UNCHANGED limitsFile
       \/ Fail(h, "limits", "writeLimits") /\ limitsFile' = Torn
    /\ UNCHANGED <<configuration, limits, overlapped, restarts>>

(* The program dies and starts again. *)
Restart ==
    /\ restarts < MaxRestarts /\ restarts' = restarts + 1
    /\ config' = LoadConfig /\ limits' = LoadLimits
    /\ pc' = [h \in Handler |-> "idle"]
    /\ text' = [h \in Handler |-> Nothing]
    /\ lost' = {} /\ overlapped' = FALSE
    /\ UNCHANGED <<configFile, limitsFile, faults>>

ConfigNext(h) == \/ \E c \in Config : SetConfig(h, c)
                 \/ StartConfigSave(h) \/ WriteConfig(h) \/ ConfigFails(h)

LimitsNext(h) == \/ \E l \in Limits : SetDownload(h, l)
                 \/ SetUpload(h) \/ StartLimitsSave(h) \/ WriteLimits(h) \/ LimitsFail(h)

Next == (\E h \in Handler : ConfigNext(h) \/ LimitsNext(h)) \/ Restart

Spec == Init /\ [][Next]_vars

-----------------------------------------------------------------------------
TypeOK ==
    /\ config \in Config /\ configFile \in Config \cup {Torn}
    /\ limits \in Limits /\ limitsFile \in Limits \cup {Torn}
    /\ pc \in [Handler -> {"idle"} \cup ConfigSteps \cup LimitSteps]
    /\ text \in [Handler -> Config \cup Limits \cup {Nothing}]
    /\ lost \subseteq {"config", "limits"} /\ overlapped \in BOOLEAN
    /\ {faults, restarts} \subseteq Nat

ConfigUnsaved == At(ConfigSteps) # {} \/ "config" \in lost

(* The access configuration keeps the promise of Mirror, whatever requests *)
(* overlap: no save puts an older configuration over a newer one, and a    *)
(* crash loses one only while it is being saved or after its save failed   *)
(* (set_config, save_config, load).                                        *)
Store == INSTANCE Mirror WITH
    Value <- Config, Default <- DefaultConfig,
    value <- config, disk <- configFile, unsaved <- ConfigUnsaved

ImplementsMirror == Store!Spec

(* The limits in force are those in settings.json, "the source of truth we *)
(* write on every change", after crashes too, once no setter is in flight, *)
(* unless setters overlapped or the write failed (set_rate_limits).        *)
Settled == At(LimitSteps) = {} /\ "limits" \notin lost

LimitsAgree == Settled /\ ~overlapped => limits = LoadLimits

(* Without the exception it does not hold: two setters leave the download  *)
(* limit of one in force and that of the other in the file.                *)
FileIsTruth == Settled => limits = LoadLimits
=============================================================================
