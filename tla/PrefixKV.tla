------------------------------- MODULE PrefixKV -------------------------------
(***************************************************************************)
(* The prefix tree of src/prefixkv/prefixkv16.c and prefixkv.c: a client   *)
(* builds a tree of key-value pairs, while memory lasts, searches it and   *)
(* cleans it up, as often as it likes.                                     *)
(***************************************************************************)
EXTENDS PkvLeaf

CONSTANTS PairLists,   \* what the client builds trees of: sequences of keys
          Memory,      \* how many allocations a build gets, at most
          MaxLost      \* a bound on tree headers lost

ASSUME PairListsAssumption == PairLists \subseteq Seq(Keys) \ {<<>>}
ASSUME MemoryAssumption == Memory \in Nat /\ MaxLost \in Nat

VARIABLES pairs,    \* what the tree was built of
          tree,     \* the root, or NoTree
          live,     \* allocated blocks: branches, array, tree header
          lost,     \* headers a failed build has forgotten
          query,    \* the last search, <<key, mask>>, or <<>>
          found     \* what it returned

vars == <<pairs, tree, live, lost, query, found>>

NoTree == [level |-> -1]
Leaf(data) == [level |-> 0, data |-> data]
Split(k, split, l, r) == [level |-> k, split |-> split, child |-> <<l, r>>]

\* The branches up to a level; a recursion over the tree goes by level.
Trees[k \in 0 .. KeyLen] ==
    IF k = 0 THEN [level : {0}, data : Seq(Keys)]
    ELSE Trees[k - 1] \union [level : {k}, split : Nat, child : Trees[k - 1] \X Trees[k - 1]]

\* The array's part below a branch: its leaves' parts from left to right.
DataTo[k \in 0 .. KeyLen] ==
    [b \in Trees[k] |->
        IF k = 0 THEN b.data
        ELSE IF b.level < k THEN DataTo[k - 1][b]
        ELSE DataTo[k - 1][b.child[1]] \o DataTo[k - 1][b.child[2]]]

Data(b) == DataTo[KeyLen][b]

\* What pkvCleanupBranch frees.
BranchesTo[k \in 0 .. KeyLen] ==
    [b \in Trees[k] |->
        IF k = 0 THEN 1
        ELSE IF b.level < k THEN BranchesTo[k - 1][b]
        ELSE 1 + BranchesTo[k - 1][b.child[1]] + BranchesTo[k - 1][b.child[2]]]

Branches(b) == BranchesTo[KeyLen][b]

-----------------------------------------------------------------------------
(***************************************************************************)
(* pkvBuildBranch16 with m allocations left: the branch, the blocks that   *)
(* stay allocated, and the allocations still left.  A set, because pairs   *)
(* with the same bit count can be sorted in any order.                     *)
(***************************************************************************)
Built(b, blocks, m) == [tree |-> b, live |-> blocks, left |-> m]

LeftPart(s) == SubSeq(s, 1, Len(s) \div 2)
RightPart(s) == SubSeq(s, Len(s) \div 2 + 1, Len(s))

\* The bit count of the first pair of the right part.
SplitValue_First(s, k) == bkbits16(s[1][k])
SplitValue(s, k) == bkbits16(s[Len(s) \div 2 + 1][k])

\* No memory for the right branch: the left one is cleaned up.
RightFails_KeepsLeft(l, r) == Built(NoTree, l.live + r.live, r.left)
RightFails(l, r) == Built(NoTree, l.live + r.live - Branches(l.tree), r.left)

Joined(k, split, l, r) ==
    IF r.tree = NoTree THEN RightFails(l, r)
    ELSE Built(Split(k, split, l.tree, r.tree), 1 + l.live + r.live, r.left)

\* All bit counts of the sorted pairs are equal: the level is dropped.
Dropped(s, k) == bkbits16(s[1][k]) = bkbits16(s[Len(s)][k])

pkvBuildBranch16[k \in 0 .. KeyLen] ==
    [s \in Seq(Keys) |-> [m \in Nat |->
        IF m = 0 THEN {Built(NoTree, 0, 0)}
        ELSE IF k = 0 THEN { Built(Leaf(t), 1, m - 1) : t \in ByKey(s) }
        ELSE UNION {
            IF Dropped(t, k) THEN pkvBuildBranch16[k - 1][t][m - 1]
            ELSE UNION {
                IF l.tree = NoTree THEN {l}
                ELSE { Joined(k, SplitValue(t, k), l, r) :
                         r \in pkvBuildBranch16[k - 1][RightPart(t)][l.left] } :
                l \in pkvBuildBranch16[k - 1][LeftPart(t)][m - 1] } :
            t \in ByBitCount(s, k) }]]

-----------------------------------------------------------------------------
(***************************************************************************)
(* pkvSearchBranch16: the places it can return.                            *)
(***************************************************************************)
\* One level: the children's places are left and right.
Choose(b, key, mask, left, right) ==
    LET k == b.level
    IN  IF High(key[k], mask[k]) < b.split THEN left
        ELSE IF Low(key[k], mask[k]) > b.split THEN right
        ELSE (left \ {NoPair}) \union (IF NoPair \in left THEN right ELSE {})

pkvSearchBranch16[k \in 0 .. KeyLen] ==
    [b \in Trees[k] |-> [before \in Seq(Keys) |-> [key \in Keys |-> [mask \in Keys |->
        IF k = 0 THEN SearchLeaf(b.data, before, key, mask)
        ELSE IF b.level < k THEN pkvSearchBranch16[k - 1][b][before][key][mask]
        ELSE Choose(b, key, mask,
                    pkvSearchBranch16[k - 1][b.child[1]][before][key][mask],
                    pkvSearchBranch16[k - 1][b.child[2]][before \o Data(b.child[1])][key][mask])]]]]

-----------------------------------------------------------------------------
Init ==
    /\ pairs = <<>> /\ tree = NoTree
    /\ live = 0 /\ lost = 0
    /\ query = <<>> /\ found = NoPair

\* The header, the array, then the branches.
pkvBuild16(s, m) ==
    /\ tree = NoTree
    /\ m >= 2
    /\ \E root \in pkvBuildBranch16[KeyLen][s][m - 2] :
         /\ tree' = root.tree
         /\ pairs' = IF root.tree = NoTree THEN <<>> ELSE s
         /\ live' = live + root.live + IF root.tree = NoTree THEN 0 ELSE 2
    /\ UNCHANGED <<lost, query, found>>

\* No memory for the array: the header is not freed.  (Without memory for the
\* header nothing happens.)
BuildLosesHeader ==
    /\ tree = NoTree
    /\ lost < MaxLost
    /\ lost' = lost + 1
    /\ live' = live + 1
    /\ UNCHANGED <<pairs, tree, query, found>>

\* A search changes nothing that a later one sees, so one for each tree is enough.
pkvSearch16(key, mask) ==
    /\ tree # NoTree
    /\ query = <<>>
    /\ query' = <<key, mask>>
    /\ found' \in pkvSearchBranch16[KeyLen][tree][<<>>][key][mask]
    /\ UNCHANGED <<pairs, tree, live, lost>>

pkvCleanup ==
    /\ tree # NoTree
    /\ tree' = NoTree
    /\ pairs' = <<>>
    /\ live' = live - Branches(tree) - 2
    /\ query' = <<>> /\ found' = NoPair
    /\ UNCHANGED lost

Next ==
    \/ \E s \in PairLists, m \in 0 .. Memory : pkvBuild16(s, m)
    \/ BuildLosesHeader
    \/ \E key, mask \in Keys : pkvSearch16(key, mask)
    \/ pkvCleanup

Spec == Init /\ [][Next]_vars

-----------------------------------------------------------------------------
(***************************************************************************)
(* Properties                                                              *)
(***************************************************************************)
SubtreesTo[k \in 0 .. KeyLen] ==
    [b \in Trees[k] |->
        IF k = 0 THEN {b}
        ELSE IF b.level < k THEN SubtreesTo[k - 1][b]
        ELSE {b} \union SubtreesTo[k - 1][b.child[1]] \union SubtreesTo[k - 1][b.child[2]]]

Leaves(b) == { c.data : c \in { d \in SubtreesTo[KeyLen][b] : d.level = 0 } }
Splits(b) == { c \in SubtreesTo[KeyLen][b] : c.level > 0 }

Times(k, s) == Cardinality({ i \in DOMAIN s : s[i] = k })

\* The leaves hold the client's pairs, each as often as it was given, the
\* largest key of a leaf first, and each split has the words with fewer bits on
\* its left and those with more on its right; both halves have pairs.  Dropped
\* levels and ties in the sort change nothing of it.
LeavesHoldPairs ==
    tree # NoTree =>
      /\ \A k \in ToSet(pairs) \union ToSet(Data(tree)) : Times(k, pairs) = Times(k, Data(tree))
      /\ \A s \in Leaves(tree) :
           s # <<>> /\ \A i \in 2 .. Len(s) : ~KeyBelow(s[i - 1], s[i])
      /\ \A b \in Splits(tree) :
           /\ \A p \in ToSet(Data(b.child[1])) : bkbits16(p[b.level]) <= b.split
           /\ \A p \in ToSet(Data(b.child[2])) : bkbits16(p[b.level]) >= b.split

\* Whichever allocation of a build fails, what was allocated before is freed,
\* and a cleanup frees a tree completely.  Lost is only the header of a build
\* that had no memory for its array.
NothingElseLeaks == live = lost + IF tree = NoTree THEN 0 ELSE 2 + Branches(tree)

\* What a leaf's search overlooks.
Overlooks(s, key, mask) ==
    \/ s[1] = LowerBound(key, mask) /\ s[Len(s)] # s[1]
    \/ KeyBelow(UpperBound(key, mask), s[1])
    \/ ~KeyBelow(s[Len(s)], UpperBound(key, mask))

\* The scan stops when it meets the end of its range, so it must not begin
\* behind it.
ScanMeetsItsEnd(s, key, mask) ==
    LET lbnd == pkvSearchLess(s, LowerBound(key, mask))
        rbnd == pkvSearchGreater(s, UpperBound(key, mask))
    IN  Nowhere \in {lbnd, rbnd} \/ lbnd <= rbnd

\* A search returns a pair that matches, and misses one only in a leaf that
\* overlooks it: where it is the largest key and has no bits outside of the
\* mask, or where the computed upper bound is not above the leaf's keys.  The
\* choice of the child never misses a pair, and no scan runs past its end.  The
\* search reads before the array only if the first leaf holds nothing but the
\* lower bound.
SearchAnswers ==
    query # <<>> =>
      LET key == query[1]
          mask == query[2]
      IN  /\ \A s \in Leaves(tree) : ScanMeetsItsEnd(s, key, mask)
          /\ found >= 1 => Matches(Data(tree)[found], key, mask)
          /\ found = NoPair =>
               \A s \in Leaves(tree) :
                 (\E p \in ToSet(s) : Matches(p, key, mask)) => Overlooks(s, key, mask)
          /\ found = Outside =>
               \E s \in Leaves(tree) :
                 SubSeq(Data(tree), 1, Len(s)) = s /\ ToSet(s) = {LowerBound(key, mask)}
=============================================================================
