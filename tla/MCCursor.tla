------------------------------ MODULE MCCursor ------------------------------
(***************************************************************************)
(* Cursor on result sets of at most three rows, with limits and offsets on *)
(* both sides of every boundary.                                           *)
(***************************************************************************)
EXTENDS Cursor

SomeLimits  == {-1, 0, 1, 2, 4}
SomeOffsets == {-1, 0, 1, 3, 4}
=============================================================================
