------------------------------- MODULE PkvLeaf -------------------------------
(***************************************************************************)
(* Keys, masks and leaves of the prefix tree, src/prefixkv: how keys are   *)
(* compared (pkvpair.c), the orders pairs are sorted in, and the search of *)
(* one sorted leaf and the choice of a child (prefixkv16.c).               *)
(*                                                                         *)
(* A word is the set of its bits that are on, so that & is \cap, ~ is      *)
(* Bits \ w, and bkbits16 is Cardinality.  A pair is its key; the value is *)
(* moved along with it and never looked at.                                *)
(***************************************************************************)
EXTENDS Integers, Sequences, FiniteSets, SequencesExt

CONSTANTS Bits,    \* the bits of a word, 0 .. 15 in the code
          KeyLen   \* words in a key

ASSUME BitsAssumption == Bits \subseteq Nat /\ IsFiniteSet(Bits)
ASSUME KeyLenAssumption == KeyLen \in Nat \ {0}

Words == SUBSET Bits
Keys == [1 .. KeyLen -> Words]

bkbits16(word) == Cardinality(word)

\* Faulty variants, named <definition>_<fault>, stand before the definitions
\* they vary: each is a slip the properties must notice.

-----------------------------------------------------------------------------
\* Words and keys as numbers: the highest bit in which they differ decides,
\* the first word that differs decides.
WordBelow(v, w) == \E b \in w \ v : \A c \in v \ w : c < b

KeyBelow(k, l) ==
    \E i \in 1 .. KeyLen : /\ \A j \in 1 .. i - 1 : k[j] = l[j]
                           /\ WordBelow(k[i], l[i])

nullMask == [i \in 1 .. KeyLen |-> Bits]
Masked(key, mask) == [i \in 1 .. KeyLen |-> key[i] \cap mask[i]]

\* The sign of (key & mask) - (pair & mask).
pkvPairMaskKeyCheck(pair, key, mask) ==
    CASE Masked(pair, mask) = Masked(key, mask) -> 0
      [] KeyBelow(Masked(key, mask), Masked(pair, mask)) -> -1
      [] KeyBelow(Masked(pair, mask), Masked(key, mask)) -> 1

Matches(pair, key, mask) == pkvPairMaskKeyCheck(pair, key, mask) = 0

-----------------------------------------------------------------------------
\* qsort leaves pairs that compare equal in any order.
pkvSort(pairs, order) ==
    { s \in { [i \in DOMAIN pairs |-> pairs[p[i]]] : p \in SetToSeqs(DOMAIN pairs) } :
        \A i, j \in DOMAIN s : i < j => <<s[i], s[j]>> \in order }

TwoOf(pairs) == ToSet(pairs) \X ToSet(pairs)

ByBitCount(pairs, word) ==
    pkvSort(pairs, { ab \in TwoOf(pairs) : bkbits16(ab[1][word]) <= bkbits16(ab[2][word]) })

\* pkvComparePairKey subtracts its first argument from its second: the largest
\* key comes first.
ByKey(pairs) == pkvSort(pairs, { ab \in TwoOf(pairs) : ~KeyBelow(ab[1], ab[2]) })

-----------------------------------------------------------------------------
(***************************************************************************)
(* The search of a leaf.  Its pairs are data[1 .. n], at the indices       *)
(* 0 .. n - 1 of the code; indices here are the code's.                    *)
(***************************************************************************)
Nowhere == -2          \* the null pointer

Item(data, i) == data[i + 1]
CheckItem(data, i, bound) == pkvPairMaskKeyCheck(Item(data, i), bound, nullMask)

\* One round of the loop both searches run over <<first, last>>.
Round(data, bound, range) ==
    LET mid == range[1] + (range[2] - range[1]) \div 2
    IN  IF range[1] >= range[2] THEN range
        ELSE IF CheckItem(data, mid, bound) <= 0 THEN <<range[1], mid>>
        ELSE <<mid + 1, range[2]>>

\* Where last ends: each round of a range with pairs makes it smaller.
Bisect(data, bound) ==
    LET after[r \in 0 .. Len(data)] ==
            IF r = 0 THEN <<0, Len(data)>> ELSE Round(data, bound, after[r - 1])
    IN  after[Len(data)][2]

pkvSearchLess(data, bound) ==
    IF CheckItem(data, 0, bound) < 0 THEN 0
    ELSE IF CheckItem(data, Len(data) - 1, bound) > 0 THEN Nowhere
    ELSE Bisect(data, bound) - 1

pkvSearchGreater(data, bound) ==
    IF CheckItem(data, 0, bound) < 0 THEN Nowhere
    ELSE IF CheckItem(data, Len(data) - 1, bound) > 0 THEN Len(data)
    ELSE Bisect(data, bound)

LowerBound(key, mask) == Masked(key, mask)

\* boundKey[i] |= ~key[i]
UpperBound(key, mask) ==
    [i \in 1 .. KeyLen |-> (key[i] \cap mask[i]) \union (Bits \ key[i])]

(***************************************************************************)
(* The pair the leaf's search returns, by its place in the tree's array:   *)
(* 1 is the first pair of the first leaf.  Before the leaf stand the pairs *)
(* in `before`.  The scan can begin one pair before the leaf; in the first *)
(* leaf that is memory before the array, which may look like a match.      *)
(***************************************************************************)
NoPair == -1
Outside == 0

FirstHit(places) == IF places = {} THEN NoPair ELSE CHOOSE p \in places : \A q \in places : p <= q

SearchLeaf(data, before, key, mask) ==
    LET lbnd == pkvSearchLess(data, LowerBound(key, mask))
        rbnd == pkvSearchGreater(data, UpperBound(key, mask))
        all == before \o data
        scanned == { Len(before) + k + 1 : k \in lbnd .. rbnd - 1 }
        hit == FirstHit({ p \in scanned \ {Outside} : Matches(all[p], key, mask) })
    IN  IF Nowhere \in {lbnd, rbnd} THEN {NoPair}
        ELSE {hit} \union (scanned \intersect {Outside})

-----------------------------------------------------------------------------
\* The bit counts a matching word can have.
Low(key, mask) == bkbits16(key \cap mask)

High_Low(key, mask) == Low(key, mask)
High(key, mask) == Low(key, mask) + bkbits16(Bits \ mask)
=============================================================================
