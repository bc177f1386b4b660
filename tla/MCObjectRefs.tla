---------------------------- MODULE MCObjectRefs ----------------------------
(***************************************************************************)
(* Four Ruby objects, two numbers for them on the server and one           *)
(* reconnection.                                                           *)
(***************************************************************************)
EXTENDS ObjectRefs, TLC

\* The objects differ in nothing but their name.
ObjectSymmetry == Permutations(Objects)

TwoOrefs == 1..2
=============================================================================
