------------------------------ MODULE MCScores ------------------------------
(* Model-checking instance of Scores: interchangeable submissions, players.  *)
EXTENDS Scores, TLC

Symmetry == Permutations(Submissions) \cup Permutations(Players)
=============================================================================
