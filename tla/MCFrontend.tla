----------------------------- MODULE MCFrontend -----------------------------
(* Model-checking instance of Frontend: interchangeable players.             *)
EXTENDS Frontend, TLC

Symmetry == Permutations(PlayerPages)
=============================================================================
