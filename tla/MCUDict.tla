------------------------------- MODULE MCUDict -------------------------------
(***************************************************************************)
(* Tables of two, three and four slots.  The keys 1 and 3 share a home in  *)
(* the table of two (under the mask 1), 3 begins at the last slot of every *)
(* table and wraps around at once, and the table of four has room for      *)
(* duplicates of one key between pairs of the other.  Three is a capacity  *)
(* that is no power of two, like the 5 of the tests.                       *)
(***************************************************************************)
EXTENDS UDict, Bitwise, TLC

CONSTANTS a, b

MCKeys == {1, 3}
MCValues == {a, b}
MCCaps == 2 .. 4

\* uint32_t plk = key & (ud->cap-1)
MCHome(k, c) == k & (c - 1)

Symmetry == Permutations(MCValues)
=============================================================================
