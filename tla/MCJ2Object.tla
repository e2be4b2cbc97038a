----------------------------- MODULE MCJ2Object -----------------------------
(***************************************************************************)
(* Objects that begin with one slot and grow to two and to four; a fifth   *)
(* member would need a capacity that overflows the three-bit word.  Two    *)
(* names have the hash 3, two the hash 6, and one the hash 7, whose home   *)
(* is that of 3 in every table here, so that walks of the duplicates cross *)
(* foreign members and wrap around.                                        *)
(***************************************************************************)
EXTENDS J2Object, Bitwise, TLC

CONSTANTS n1, n2, n3, n4, n5, v1, v2, v3, v4, v5

MCNames == {n1, n2, n3, n4, n5}
MCHash(n) == CASE n \in {n1, n2} -> 3 [] n \in {n3, n5} -> 6 [] n = n4 -> 7
MCKeys == {3, 6, 7}
MCVals == {v1, v2, v3, v4, v5}

MCHome(k, c) == k & (c - 1)

Symmetry == Permutations(MCVals)
=============================================================================
