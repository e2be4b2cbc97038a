----------------------------- MODULE MCPrefixKV -----------------------------
(***************************************************************************)
(* Keys of two words of two bits, every key and mask to search with.  The  *)
(* lists of up to four pairs fill one leaf with four keys, and build trees *)
(* of two levels; all pairs of keys are in the lists of two.               *)
(***************************************************************************)
EXTENDS PrefixKV, TLC

TwoBits == {0, 1}

\* Keys in one order; the sort tries all.
Number(k) == 4 * (IF 1 \in k[1] THEN 2 ELSE 0) + 4 * (IF 0 \in k[1] THEN 1 ELSE 0)
             + (IF 1 \in k[2] THEN 2 ELSE 0) + (IF 0 \in k[2] THEN 1 ELSE 0)
ListsOver(keys, n) ==
    { s \in UNION { [1 .. m -> keys] : m \in 1 .. n } :
        \A i \in 2 .. Len(s) : Number(s[i - 1]) <= Number(s[i]) }

\* Keys with as many bits in the second word: several in a leaf, or one split.
AlikeKeys == { k \in Keys : bkbits16(k[2]) = 1 }

\* Keys with as many bits in both words: always one leaf.
LeafKeys == { k \in AlikeKeys : bkbits16(k[1]) = 1 }

\* Keys that differ in the bit counts of both words: two levels of splits.
SplitKeys == { k \in Keys : \A i \in 1 .. KeyLen : bkbits16(k[i]) # 1 }

MCPairLists == ListsOver(Keys, 2) \union ListsOver(AlikeKeys, 3)
               \union ListsOver(LeafKeys, 4) \union ListsOver(SplitKeys, 4)
=============================================================================
