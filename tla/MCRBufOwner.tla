---------------------------- MODULE MCRBufOwner ----------------------------
(***************************************************************************)
(* One more value than slots, so that a full buffer can still be pushed    *)
(* into while every value is accounted for.                                *)
(***************************************************************************)
EXTENDS RBufOwner, TLC

CONSTANTS v1, v2, v3

MCVals == {v1, v2, v3}
MCCaps == 1 .. 3
Symmetry == Permutations(MCVals)
=============================================================================
