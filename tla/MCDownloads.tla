----------------------------- MODULE MCDownloads -----------------------------
(* Downloads on a small instance: the file names two links are saved under. *)
EXTENDS Downloads, TLC

CONSTANTS u1, u2, n1, n2

OneName  == (u1 :> n1) @@ (u2 :> n1)   \* two links, one file name
TwoNames == (u1 :> n1) @@ (u2 :> n2)
OneUrl   == u1 :> n1

Symmetry == Permutations(Handler)
=============================================================================
