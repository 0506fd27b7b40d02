------------------------------- MODULE MCAuth -------------------------------
(* Model-checking instance of Auth: interchangeable logins and accounts.     *)
EXTENDS Auth, TLC

Symmetry == Permutations(Logins) \cup Permutations(Players)
=============================================================================
