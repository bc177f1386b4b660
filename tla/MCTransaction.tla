--------------------------- MODULE MCTransaction ---------------------------
(***************************************************************************)
(* Transaction on a small instance.  The writes are interchangeable.       *)
(***************************************************************************)
EXTENDS Transaction, TLC

Symmetry == Permutations(Writes)
=============================================================================
