------------------------------- MODULE MCRBuf -------------------------------
(***************************************************************************)
(* Ring buffers of capacity 1 to 3 over two values: three slots are enough *)
(* for an index to wrap while another does not, for a handle to be in the  *)
(* middle, and for a drained push to drift by less than the capacity.      *)
(***************************************************************************)
EXTENDS RBuf, TLC

CONSTANTS v1, v2

MCVals == {v1, v2}
MCCaps == 1 .. 3
Symmetry == Permutations(MCVals)
=============================================================================
