------------------------------- MODULE MCEngine -------------------------------
(* Engine on small instances. *)
EXTENDS Engine, TLC
Symmetry == Permutations(Add) \cup Permutations(Hash) \cup Permutations(Remover \ {Loop})
=============================================================================
