----------------------------- MODULE MCHorolog -----------------------------
(***************************************************************************)
(* The calendar to the end of the 400-year cycle, in a zone that stays or  *)
(* moves by an hour.                                                       *)
(***************************************************************************)
EXTENDS Horolog

Hours == {-3600, 0, 3600}
=============================================================================
