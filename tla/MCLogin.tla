-------------------------------- MODULE MCLogin --------------------------------
(* Login on small instances. *)
EXTENDS Login, TLC
Symmetry == Permutations(Handler) \cup Permutations(Token) \cup Permutations(Challenge)
            \cup Permutations(Code)
=============================================================================
