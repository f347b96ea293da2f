--------------------------- MODULE MCSessionDriver ---------------------------
(* Finite instances of SessionDriver. *)
EXTENDS SessionDriver, TLC

Symmetry == Permutations(Calls) \cup Permutations(Tokens)
=============================================================================
