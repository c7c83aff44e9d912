------------------------------- MODULE Mirror --------------------------------
(***************************************************************************)
(* What a store with a file promises: the file holds the value in memory   *)
(* unless a change or a save is under way, and a restart loads the file.   *)
(***************************************************************************)
EXTENDS Integers

CONSTANTS
    Value,
    Default,   \* what a file that is missing or torn stands for
    Torn       \* a file that does not parse, or none

VARIABLES
    value,     \* the value in memory
    disk,      \* the file
    unsaved    \* whether a change is still to be saved

Loaded == IF disk = Torn THEN Default ELSE disk

Init == value = Default /\ disk = Torn /\ unsaved = FALSE

Change == value' \in Value /\ unsaved' = TRUE /\ UNCHANGED disk

(* A save in progress, or one that failed, leaves the file torn. *)
Tear == unsaved /\ disk' = Torn /\ UNCHANGED <<value, unsaved>>

(* Another change may be waiting to be saved. *)
Save == unsaved /\ disk' = value /\ unsaved' \in BOOLEAN /\ UNCHANGED value

Restart == value' = Loaded /\ unsaved' = FALSE /\ UNCHANGED disk

Next == Change \/ Tear \/ Save \/ Restart

Spec == Init /\ [][Next]_<<value, disk, unsaved>>

(* Nothing is lost by a restart unless a change is still to be saved. *)
Mirrored == unsaved \/ value = Loaded
=============================================================================
