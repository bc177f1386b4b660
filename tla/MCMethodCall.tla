---------------------------- MODULE MCMethodCall ----------------------------
(***************************************************************************)
(* Two Method objects with two parameters, and up to three calls, nested   *)
(* in one another's conversions or one after the other.                    *)
(***************************************************************************)
EXTENDS MethodCall

CONSTANTS m1, m2

\* The Method objects are alike.
Alike == Permutations(Methods)
=============================================================================
