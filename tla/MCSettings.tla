----------------------------- MODULE MCSettings -----------------------------
(* Overlapping requests of administrators on a small instance. *)
EXTENDS Settings
=============================================================================
