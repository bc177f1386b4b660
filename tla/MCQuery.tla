------------------------------ MODULE MCQuery ------------------------------
(***************************************************************************)
(* Query on a small instance: two links of one statement handle each, two  *)
(* statements, and a binding that refuses a stale handle or overlooks it.  *)
(***************************************************************************)
EXTENDS Query, TLC

\* A handle that is not open: refused, or overlooked.
RefusesOrNot == {-1, 461}
Tolerant     == {-1}
\* Freeing a handle of a lost link works, or the loss shows.
LossShows    == {0, 461}
CannotOpen   == {12104}
\* A statement the server refuses.
SqlErrors    == {400}
\* Any other use of a lost link.
LossErrors   == {461}

Symmetry == Permutations(Queries)
=============================================================================
