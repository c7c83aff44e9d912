----------------------------- MODULE MCTranscode -----------------------------
(* Transcode on a small instance.  No symmetry: the runs check liveness. *)
EXTENDS Transcode
=============================================================================
