------------------------------ MODULE MCBoards ------------------------------
(* Tables of a few runs for Boards.  Months are two days long, days two       *)
(* instants: the launch month 1 begins at 4, the current month 4 at 16, and   *)
(* months 2 and 3 have trophies.  A run completes a map more than it scores.  *)
EXTENDS Boards

Row(p, mode, score, t) ==
  [player |-> p, mode |-> mode, score |-> score, maps |-> score + 1, at |-> t]

\* Ties within a month, decided and not decided by the instant; a run in each
\* month; one without a score, and one in a mode that has no board.
RowsToStartFrom ==
  {Row(1, "author", 2, 12), Row(2, "author", 2, 12), Row(3, "author", 2, 13),
   Row(2, "author", 1, 15), Row(1, "author", 1, 8), Row(3, "author", 3, 7),
   Row(2, "gold", 1, 14), Row(1, "custom", 3, 14), Row(3, "author", 0, 15)}

SmallTables == {rows \in SUBSET RowsToStartFrom : Cardinality(rows) <= 3}

RunsMeanwhile == {[player |-> 1, mode |-> "author", score |-> 3, maps |-> 4]}

\* Players 1 and 2 have a gold each, and player 2's best run is a fourth place.
RowsOfRivals ==
  {Row(1, "author", 2, 8), Row(2, "author", 1, 12), Row(2, "author", 3, 16),
   Row(3, "author", 4, 16), Row(4, "author", 5, 17), Row(5, "author", 6, 17)}

RivalTables == SUBSET RowsOfRivals
=============================================================================
