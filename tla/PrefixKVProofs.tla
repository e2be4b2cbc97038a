--------------------------- MODULE PrefixKVProofs ---------------------------
(***************************************************************************)
(* Proofs about the prefix tree, for every set of bits, length of keys,    *)
(* list of pairs and amount of memory.                                     *)
(***************************************************************************)
EXTENDS PrefixKV, NatLemmas, SequenceTheorems, FiniteSetTheorems

-----------------------------------------------------------------------------
(***************************************************************************)
(* The functions that go by level exist, so each is what its definition    *)
(* says.  The value at level k from that of the level below:               *)
(***************************************************************************)
TreesStep(k, T) ==
    IF k = 0 THEN [level : {0}, data : Seq(Keys)]
    ELSE T \union [level : {k}, split : Nat, child : T \X T]

DataStep(k, f) ==
    [b \in Trees[k] |->
        IF k = 0 THEN b.data
        ELSE IF b.level < k THEN f[b]
        ELSE f[b.child[1]] \o f[b.child[2]]]

BranchesStep(k, f) ==
    [b \in Trees[k] |->
        IF k = 0 THEN 1
        ELSE IF b.level < k THEN f[b]
        ELSE 1 + f[b.child[1]] + f[b.child[2]]]

SubtreesStep(k, f) ==
    [b \in Trees[k] |->
        IF k = 0 THEN {b}
        ELSE IF b.level < k THEN f[b]
        ELSE {b} \union f[b.child[1]] \union f[b.child[2]]]

BuildStep(k, f) ==
    [s \in Seq(Keys) |-> [m \in Nat |->
        IF m = 0 THEN {Built(NoTree, 0, 0)}
        ELSE IF k = 0 THEN { Built(Leaf(t), 1, m - 1) : t \in ByKey(s) }
        ELSE UNION {
            IF Dropped(t, k) THEN f[t][m - 1]
            ELSE UNION {
                IF l.tree = NoTree THEN {l}
                ELSE { Joined(k, SplitValue(t, k), l, r) : r \in f[RightPart(t)][l.left] } :
                l \in f[LeftPart(t)][m - 1] } :
            t \in ByBitCount(s, k) }]]

SearchStep(k, f) ==
    [b \in Trees[k] |-> [before \in Seq(Keys) |-> [key \in Keys |-> [mask \in Keys |->
        IF k = 0 THEN SearchLeaf(b.data, before, key, mask)
        ELSE IF b.level < k THEN f[b][before][key][mask]
        ELSE Choose(b, key, mask,
                    f[b.child[1]][before][key][mask],
                    f[b.child[2]][before \o Data(b.child[1])][key][mask])]]]]

ByTrees == INSTANCE StepRecursion WITH Step <- LAMBDA p, k, f : TreesStep(k, f[k - 1])

\* Each recursive function of the level is what its definition says: the trees,
LEMMA TreesByLevel ==
    Trees = [k \in 0 .. KeyLen |-> TreesStep(k, Trees[k - 1])]
<1>1. \A x, y : TreesStep(0, x) = TreesStep(0, y)
  BY DEF TreesStep
<1>2. PICK g : g = [k \in 0 .. KeyLen |-> TreesStep(k, g[k - 1])]
  BY <1>1, ByTrees!ExistsFromLast, KeyLenAssumption
<1>3. Trees = CHOOSE f : f = [k \in 0 .. KeyLen |-> TreesStep(k, f[k - 1])]
  BY DEF Trees, TreesStep
<1> QED
  BY <1>2, <1>3

ByData == INSTANCE StepRecursion WITH Step <- LAMBDA p, k, f : DataStep(k, f[k - 1])

\* the pairs of a tree,
LEMMA DataByLevel ==
    DataTo = [k \in 0 .. KeyLen |-> DataStep(k, DataTo[k - 1])]
<1>1. \A x, y : DataStep(0, x) = DataStep(0, y)
  BY DEF DataStep
<1>2. PICK g : g = [k \in 0 .. KeyLen |-> DataStep(k, g[k - 1])]
  BY <1>1, ByData!ExistsFromLast, KeyLenAssumption
<1>3. DataTo = CHOOSE f : f = [k \in 0 .. KeyLen |-> DataStep(k, f[k - 1])]
  BY DEF DataTo, DataStep
<1> QED
  BY <1>2, <1>3

ByBranches == INSTANCE StepRecursion WITH Step <- LAMBDA p, k, f : BranchesStep(k, f[k - 1])

\* the number of its branches,
LEMMA BranchesByLevel ==
    BranchesTo = [k \in 0 .. KeyLen |-> BranchesStep(k, BranchesTo[k - 1])]
<1>1. \A x, y : BranchesStep(0, x) = BranchesStep(0, y)
  BY DEF BranchesStep
<1>2. PICK g : g = [k \in 0 .. KeyLen |-> BranchesStep(k, g[k - 1])]
  BY <1>1, ByBranches!ExistsFromLast, KeyLenAssumption
<1>3. BranchesTo = CHOOSE f : f = [k \in 0 .. KeyLen |-> BranchesStep(k, f[k - 1])]
  BY DEF BranchesTo, BranchesStep
<1> QED
  BY <1>2, <1>3

BySubtrees == INSTANCE StepRecursion WITH Step <- LAMBDA p, k, f : SubtreesStep(k, f[k - 1])

\* its subtrees,
LEMMA SubtreesByLevel ==
    SubtreesTo = [k \in 0 .. KeyLen |-> SubtreesStep(k, SubtreesTo[k - 1])]
<1>1. \A x, y : SubtreesStep(0, x) = SubtreesStep(0, y)
  BY DEF SubtreesStep
<1>2. PICK g : g = [k \in 0 .. KeyLen |-> SubtreesStep(k, g[k - 1])]
  BY <1>1, BySubtrees!ExistsFromLast, KeyLenAssumption
<1>3. SubtreesTo = CHOOSE f : f = [k \in 0 .. KeyLen |-> SubtreesStep(k, f[k - 1])]
  BY DEF SubtreesTo, SubtreesStep
<1> QED
  BY <1>2, <1>3

ByBuild == INSTANCE StepRecursion WITH Step <- LAMBDA p, k, f : BuildStep(k, f[k - 1])

\* what pkvBuildBranch16 gives
LEMMA BuildByLevel ==
    pkvBuildBranch16 = [k \in 0 .. KeyLen |-> BuildStep(k, pkvBuildBranch16[k - 1])]
<1>1. \A x, y : BuildStep(0, x) = BuildStep(0, y)
  BY DEF BuildStep
<1>2. PICK g : g = [k \in 0 .. KeyLen |-> BuildStep(k, g[k - 1])]
  BY <1>1, ByBuild!ExistsFromLast, KeyLenAssumption
<1>3. pkvBuildBranch16 = CHOOSE f : f = [k \in 0 .. KeyLen |-> BuildStep(k, f[k - 1])]
  BY DEF pkvBuildBranch16, BuildStep
<1> QED
  BY <1>2, <1>3

BySearch == INSTANCE StepRecursion WITH Step <- LAMBDA p, k, f : SearchStep(k, f[k - 1])

\* and what pkvSearchBranch16 answers.
LEMMA SearchByLevel ==
    pkvSearchBranch16 = [k \in 0 .. KeyLen |-> SearchStep(k, pkvSearchBranch16[k - 1])]
<1>1. \A x, y : SearchStep(0, x) = SearchStep(0, y)
  BY DEF SearchStep
<1>2. PICK g : g = [k \in 0 .. KeyLen |-> SearchStep(k, g[k - 1])]
  BY <1>1, BySearch!ExistsFromLast, KeyLenAssumption
<1>3. pkvSearchBranch16 = CHOOSE f : f = [k \in 0 .. KeyLen |-> SearchStep(k, f[k - 1])]
  BY DEF pkvSearchBranch16, SearchStep
<1> QED
  BY <1>2, <1>3

-----------------------------------------------------------------------------
(***************************************************************************)
(* What a branch is, and what the functions say of it.                     *)
(***************************************************************************)
\* A set of levels with 0 and the level above each of its own has all levels.
LEMMA AllLevels ==
    ASSUME NEW T, 0 \in T, \A k \in 1 .. KeyLen : k - 1 \in T => k \in T
    PROVE  \A k \in 0 .. KeyLen : k \in T
<1> DEFINE U == { n \in Nat : n <= KeyLen => n \in T }
<1>1. 0 \in U
  OBVIOUS
<1>2. ASSUME NEW n \in Nat, n \in U PROVE n + 1 \in U
  <2>1. CASE n + 1 <= KeyLen
    <3>1. n \in T /\ n + 1 \in 1 .. KeyLen /\ (n + 1) - 1 = n
      BY <1>2, <2>1, KeyLenAssumption
    <3> QED
      BY <3>1
  <2>2. CASE ~(n + 1 <= KeyLen)
    BY <2>2
  <2> QED
    BY <2>1, <2>2
<1>3. Nat \subseteq U
  <2> HIDE DEF U
  <2> QED
    BY <1>1, <1>2, AllNumbers
<1> QED
  BY <1>3, KeyLenAssumption

\* Trees of level 0 are leaves; a level adds the branches over two lower ones.
LEMMA TreesAt ==
    /\ Trees[0] = [level : {0}, data : Seq(Keys)]
    /\ \A k \in 1 .. KeyLen :
         Trees[k] = Trees[k - 1] \union [level : {k}, split : Nat, child : Trees[k - 1] \X Trees[k - 1]]
<1>1. \A k \in 0 .. KeyLen : Trees[k] = TreesStep(k, Trees[k - 1])
  BY TreesByLevel
<1>2. 0 \in 0 .. KeyLen /\ \A k \in 1 .. KeyLen : k \in 0 .. KeyLen /\ k # 0
  BY KeyLenAssumption
<1>3. Trees[0] = [level : {0}, data : Seq(Keys)]
  BY <1>1, <1>2 DEF TreesStep
<1>4. ASSUME NEW k \in 1 .. KeyLen
      PROVE  Trees[k] = Trees[k - 1] \union
                          [level : {k}, split : Nat, child : Trees[k - 1] \X Trees[k - 1]]
  <2>1. Trees[k] = TreesStep(k, Trees[k - 1]) /\ k # 0
    BY <1>1, <1>2
  <2> QED
    BY <2>1 DEF TreesStep
<1> QED
  BY <1>3, <1>4

\* A branch is a leaf or a split of a level up to k.
LEMMA BranchLevel == \A k \in 0 .. KeyLen : \A b \in Trees[k] : b.level \in 0 .. k
<1> DEFINE T == { k \in 0 .. KeyLen : \A b \in Trees[k] : b.level \in 0 .. k }
<1>1. 0 \in T
  <2>1. \A b \in Trees[0] : b.level = 0
    BY TreesAt
  <2> QED
    BY <2>1, KeyLenAssumption
<1>2. ASSUME NEW k \in 1 .. KeyLen, k - 1 \in T PROVE k \in T
  <2>1. ASSUME NEW b \in Trees[k] PROVE b.level \in 0 .. k
    <3>1. CASE b \in Trees[k - 1]
      <4>1. b.level \in 0 .. k - 1
        BY <1>2, <3>1
      <4> QED
        BY <4>1
    <3>2. CASE b \in [level : {k}, split : Nat, child : Trees[k - 1] \X Trees[k - 1]]
      <4>1. b.level = k
        BY <3>2
      <4> QED
        BY <4>1
    <3> QED
      BY <3>1, <3>2, TreesAt
  <2> QED
    BY <2>1
<1> QED
  <2> HIDE DEF T
  <2>1. \A k \in 0 .. KeyLen : k \in T
    BY <1>1, <1>2, AllLevels
  <2> QED
    BY <2>1 DEF T

\* A tree is a leaf, one of a lower level, or a branch over two of those.
LEMMA BranchKinds ==
    /\ \A b \in Trees[0] : b = Leaf(b.data) /\ b.level = 0 /\ b.data \in Seq(Keys)
    /\ \A k \in 1 .. KeyLen : \A b \in Trees[k] :
         \/ b \in Trees[k - 1] /\ b.level < k
         \/ /\ b = Split(k, b.split, b.child[1], b.child[2])
            /\ b.level = k /\ b.split \in Nat
            /\ b.child[1] \in Trees[k - 1] /\ b.child[2] \in Trees[k - 1]
<1>1. ASSUME NEW b \in Trees[0] PROVE b = Leaf(b.data) /\ b.level = 0 /\ b.data \in Seq(Keys)
  BY TreesAt DEF Leaf
<1>2. ASSUME NEW k \in 1 .. KeyLen, NEW b \in Trees[k - 1] PROVE b.level < k
  <2>1. k - 1 \in 0 .. KeyLen
    BY KeyLenAssumption
  <2>2. b.level \in 0 .. k - 1
    BY <2>1, BranchLevel
  <2> QED
    BY <2>2
<1>3. ASSUME NEW k \in 1 .. KeyLen,
             NEW b \in [level : {k}, split : Nat, child : Trees[k - 1] \X Trees[k - 1]]
      PROVE  /\ b = Split(k, b.split, b.child[1], b.child[2])
             /\ b.level = k /\ b.split \in Nat
             /\ b.child[1] \in Trees[k - 1] /\ b.child[2] \in Trees[k - 1]
  BY DEF Split
<1> QED
  BY <1>1, <1>2, <1>3, TreesAt

\* Every sequence of pairs makes a leaf.
LEMMA LeafIsTree == \A s \in Seq(Keys) : Leaf(s) \in Trees[0]
BY TreesAt DEF Leaf

\* Two trees make a branch of the next level.
LEMMA SplitIsTree ==
    \A k \in 1 .. KeyLen, v \in Nat : \A l, r \in Trees[k - 1] :
       Split(k, v, l, r) \in Trees[k] /\ Split(k, v, l, r).level = k
BY TreesAt DEF Split

\* Trees of a level are trees of all higher ones.
LEMMA TreesGrow ==
    \A j \in 0 .. KeyLen : \A k \in 0 .. j : Trees[k] \subseteq Trees[j]
<1> DEFINE T == { j \in 0 .. KeyLen : \A k \in 0 .. j : Trees[k] \subseteq Trees[j] }
<1>1. 0 \in T
  BY KeyLenAssumption
<1>2. ASSUME NEW j \in 1 .. KeyLen, j - 1 \in T PROVE j \in T
  <2>1. ASSUME NEW k \in 0 .. j PROVE Trees[k] \subseteq Trees[j]
    <3>1. CASE k = j
      BY <3>1
    <3>2. CASE k # j
      <4>1. k \in 0 .. j - 1
        BY <3>2
      <4> QED
        BY <4>1, <1>2, TreesAt
    <3> QED
      BY <3>1, <3>2
  <2> QED
    BY <2>1
<1> QED
  <2> HIDE DEF T
  <2>1. \A k \in 0 .. KeyLen : k \in T
    BY <1>1, <1>2, AllLevels
  <2> QED
    BY <2>1 DEF T

\* No tree is none.
LEMMA NoTreeIsNone ==
    /\ \A k \in 0 .. KeyLen : NoTree \notin Trees[k]
    /\ \A s : Leaf(s) # NoTree
    /\ \A k \in 1 .. KeyLen : \A v, l, r : Split(k, v, l, r) # NoTree
<1>1. NoTree.level = -1
  BY DEF NoTree
<1>2. \A k \in 0 .. KeyLen : \A b \in Trees[k] : b.level # -1
  BY BranchLevel
<1>3. \A s : Leaf(s).level = 0
  BY DEF Leaf
<1>4. \A k \in 1 .. KeyLen : \A v, l, r : Split(k, v, l, r).level = k
  BY DEF Split
<1> QED
  BY <1>1, <1>2, <1>3, <1>4

\* A function that says of a lower branch what it says a level below says it at
\* the top.
LEMMA Settled ==
    ASSUME NEW f, \A k \in 1 .. KeyLen : \A b \in Trees[k - 1] : f[k][b] = f[k - 1][b]
    PROVE  \A k \in 0 .. KeyLen : \A b \in Trees[k] : f[KeyLen][b] = f[k][b]
<1> SUFFICES ASSUME NEW k \in 0 .. KeyLen, NEW b \in Trees[k]
             PROVE  f[KeyLen][b] = f[k][b]
  OBVIOUS
<1> DEFINE T == { j \in 0 .. KeyLen : k <= j => f[j][b] = f[k][b] }
<1>1. 0 \in T
  BY KeyLenAssumption
<1>2. ASSUME NEW j \in 1 .. KeyLen, j - 1 \in T PROVE j \in T
  <2>1. CASE k <= j - 1
    <3>1. j - 1 \in 0 .. KeyLen /\ k \in 0 .. j - 1
      BY <2>1, KeyLenAssumption
    <3>2. b \in Trees[j - 1]
      BY <3>1, TreesGrow
    <3> QED
      BY <1>2, <2>1, <3>2
  <2>2. CASE ~(k <= j - 1)
    BY <2>2
  <2> QED
    BY <2>1, <2>2
<1> QED
  <2> HIDE DEF T
  <2>1. KeyLen \in T
    BY <1>1, <1>2, AllLevels, KeyLenAssumption
  <2> QED
    BY <2>1, KeyLenAssumption DEF T

\* The pairs of a tree are the same from its own level on,
LEMMA DataSettles ==
    /\ \A k \in 0 .. KeyLen : \A b \in Trees[k] : DataTo[KeyLen][b] = DataTo[k][b]
    /\ \A b \in Trees[0] : DataTo[0][b] = b.data
    /\ \A k \in 1 .. KeyLen : \A b \in Trees[k] :
         b.level = k => DataTo[k][b] = DataTo[k - 1][b.child[1]] \o DataTo[k - 1][b.child[2]]
<1>1. \A k \in 0 .. KeyLen : DataTo[k] = DataStep(k, DataTo[k - 1])
  BY DataByLevel
<1>2. ASSUME NEW k \in 1 .. KeyLen, NEW b \in Trees[k]
      PROVE  DataTo[k][b] = IF b.level < k THEN DataTo[k - 1][b] ELSE DataTo[k - 1][b.child[1]] \o DataTo[k - 1][b.child[2]]
  <2>1. DataTo[k] = DataStep(k, DataTo[k - 1]) /\ k # 0
    BY <1>1
  <2> QED
    BY <2>1 DEF DataStep
<1>3. ASSUME NEW k \in 1 .. KeyLen, NEW b \in Trees[k - 1]
      PROVE  DataTo[k][b] = DataTo[k - 1][b]
  <2>1. b \in Trees[k] /\ b.level \in 0 .. k - 1
    BY TreesAt, BranchLevel, KeyLenAssumption
  <2>2. b.level < k
    BY <2>1
  <2> QED
    BY <1>2, <2>1, <2>2
<1>4. \A k \in 0 .. KeyLen : \A b \in Trees[k] : DataTo[KeyLen][b] = DataTo[k][b]
  BY <1>3, Settled
<1>5. \A b \in Trees[0] : DataTo[0][b] = b.data
  <2>1. DataTo[0] = DataStep(0, DataTo[0 - 1])
    BY <1>1, KeyLenAssumption
  <2> QED
    BY <2>1 DEF DataStep
<1>6. ASSUME NEW k \in 1 .. KeyLen, NEW b \in Trees[k], b.level = k
      PROVE  DataTo[k][b] = DataTo[k - 1][b.child[1]] \o DataTo[k - 1][b.child[2]]
  <2>1. ~(b.level < k)
    BY <1>6
  <2> QED
    BY <1>2, <2>1
<1> QED
  BY <1>4, <1>5, <1>6

\* so is the number of its branches,
LEMMA BranchesSettles ==
    /\ \A k \in 0 .. KeyLen : \A b \in Trees[k] : BranchesTo[KeyLen][b] = BranchesTo[k][b]
    /\ \A b \in Trees[0] : BranchesTo[0][b] = 1
    /\ \A k \in 1 .. KeyLen : \A b \in Trees[k] :
         b.level = k => BranchesTo[k][b] = 1 + BranchesTo[k - 1][b.child[1]] + BranchesTo[k - 1][b.child[2]]
<1>1. \A k \in 0 .. KeyLen : BranchesTo[k] = BranchesStep(k, BranchesTo[k - 1])
  BY BranchesByLevel
<1>2. ASSUME NEW k \in 1 .. KeyLen, NEW b \in Trees[k]
      PROVE  BranchesTo[k][b] = IF b.level < k THEN BranchesTo[k - 1][b] ELSE 1 + BranchesTo[k - 1][b.child[1]] + BranchesTo[k - 1][b.child[2]]
  <2>1. BranchesTo[k] = BranchesStep(k, BranchesTo[k - 1]) /\ k # 0
    BY <1>1
  <2> QED
    BY <2>1 DEF BranchesStep
<1>3. ASSUME NEW k \in 1 .. KeyLen, NEW b \in Trees[k - 1]
      PROVE  BranchesTo[k][b] = BranchesTo[k - 1][b]
  <2>1. b \in Trees[k] /\ b.level \in 0 .. k - 1
    BY TreesAt, BranchLevel, KeyLenAssumption
  <2>2. b.level < k
    BY <2>1
  <2> QED
    BY <1>2, <2>1, <2>2
<1>4. \A k \in 0 .. KeyLen : \A b \in Trees[k] : BranchesTo[KeyLen][b] = BranchesTo[k][b]
  BY <1>3, Settled
<1>5. \A b \in Trees[0] : BranchesTo[0][b] = 1
  <2>1. BranchesTo[0] = BranchesStep(0, BranchesTo[0 - 1])
    BY <1>1, KeyLenAssumption
  <2> QED
    BY <2>1 DEF BranchesStep
<1>6. ASSUME NEW k \in 1 .. KeyLen, NEW b \in Trees[k], b.level = k
      PROVE  BranchesTo[k][b] = 1 + BranchesTo[k - 1][b.child[1]] + BranchesTo[k - 1][b.child[2]]
  <2>1. ~(b.level < k)
    BY <1>6
  <2> QED
    BY <1>2, <2>1
<1> QED
  BY <1>4, <1>5, <1>6

\* and so are its subtrees.
LEMMA SubtreesSettles ==
    /\ \A k \in 0 .. KeyLen : \A b \in Trees[k] : SubtreesTo[KeyLen][b] = SubtreesTo[k][b]
    /\ \A b \in Trees[0] : SubtreesTo[0][b] = {b}
    /\ \A k \in 1 .. KeyLen : \A b \in Trees[k] :
         b.level = k => SubtreesTo[k][b] = {b} \union SubtreesTo[k - 1][b.child[1]] \union SubtreesTo[k - 1][b.child[2]]
<1>1. \A k \in 0 .. KeyLen : SubtreesTo[k] = SubtreesStep(k, SubtreesTo[k - 1])
  BY SubtreesByLevel
<1>2. ASSUME NEW k \in 1 .. KeyLen, NEW b \in Trees[k]
      PROVE  SubtreesTo[k][b] = IF b.level < k THEN SubtreesTo[k - 1][b] ELSE {b} \union SubtreesTo[k - 1][b.child[1]] \union SubtreesTo[k - 1][b.child[2]]
  <2>1. SubtreesTo[k] = SubtreesStep(k, SubtreesTo[k - 1]) /\ k # 0
    BY <1>1
  <2> QED
    BY <2>1 DEF SubtreesStep
<1>3. ASSUME NEW k \in 1 .. KeyLen, NEW b \in Trees[k - 1]
      PROVE  SubtreesTo[k][b] = SubtreesTo[k - 1][b]
  <2>1. b \in Trees[k] /\ b.level \in 0 .. k - 1
    BY TreesAt, BranchLevel, KeyLenAssumption
  <2>2. b.level < k
    BY <2>1
  <2> QED
    BY <1>2, <2>1, <2>2
<1>4. \A k \in 0 .. KeyLen : \A b \in Trees[k] : SubtreesTo[KeyLen][b] = SubtreesTo[k][b]
  BY <1>3, Settled
<1>5. \A b \in Trees[0] : SubtreesTo[0][b] = {b}
  <2>1. SubtreesTo[0] = SubtreesStep(0, SubtreesTo[0 - 1])
    BY <1>1, KeyLenAssumption
  <2> QED
    BY <2>1 DEF SubtreesStep
<1>6. ASSUME NEW k \in 1 .. KeyLen, NEW b \in Trees[k], b.level = k
      PROVE  SubtreesTo[k][b] = {b} \union SubtreesTo[k - 1][b.child[1]] \union SubtreesTo[k - 1][b.child[2]]
  <2>1. ~(b.level < k)
    BY <1>6
  <2> QED
    BY <1>2, <2>1
<1> QED
  BY <1>4, <1>5, <1>6

Subtrees(b) == SubtreesTo[KeyLen][b]

\* What a leaf holds.
LEMMA OfLeaf ==
    ASSUME NEW s \in Seq(Keys)
    PROVE  /\ Data(Leaf(s)) = s
           /\ Branches(Leaf(s)) = 1
           /\ Subtrees(Leaf(s)) = {Leaf(s)}
           /\ Leaves(Leaf(s)) = {s}
           /\ Splits(Leaf(s)) = {}
<1>1. Leaf(s) \in Trees[0] /\ 0 \in 0 .. KeyLen
  BY LeafIsTree, KeyLenAssumption
<1>2. Leaf(s).data = s /\ Leaf(s).level = 0
  BY DEF Leaf
<1>3. Data(Leaf(s)) = s
  BY <1>1, <1>2, DataSettles DEF Data
<1>4. Branches(Leaf(s)) = 1
  BY <1>1, BranchesSettles DEF Branches
<1>5. Subtrees(Leaf(s)) = {Leaf(s)}
  BY <1>1, SubtreesSettles DEF Subtrees
<1>6. Leaves(Leaf(s)) = {s} /\ Splits(Leaf(s)) = {}
  BY <1>2, <1>5 DEF Leaves, Splits, Subtrees
<1> QED
  BY <1>3, <1>4, <1>5, <1>6

\* What a branch holds is what its children hold.
LEMMA OfSplit ==
    ASSUME NEW k \in 1 .. KeyLen, NEW v \in Nat,
           NEW l \in Trees[k - 1], NEW r \in Trees[k - 1]
    PROVE  LET b == Split(k, v, l, r)
           IN  /\ Data(b) = Data(l) \o Data(r)
               /\ Branches(b) = 1 + Branches(l) + Branches(r)
               /\ Subtrees(b) = {b} \union Subtrees(l) \union Subtrees(r)
               /\ Leaves(b) = Leaves(l) \union Leaves(r)
               /\ Splits(b) = {b} \union Splits(l) \union Splits(r)
<1> DEFINE b == Split(k, v, l, r)
<1>1. /\ b \in Trees[k] /\ b.level = k /\ b.child[1] = l /\ b.child[2] = r
      /\ k \in 0 .. KeyLen /\ k - 1 \in 0 .. KeyLen
  BY SplitIsTree, KeyLenAssumption DEF Split
<1> HIDE DEF b
<1>2. Data(b) = Data(l) \o Data(r)
  <2>1. DataTo[KeyLen][l] = DataTo[k - 1][l] /\ DataTo[KeyLen][r] = DataTo[k - 1][r]
    BY <1>1, DataSettles, Zenon
  <2>2. DataTo[KeyLen][b] = DataTo[k][b]
    BY <1>1, DataSettles, Zenon
  <2>3. DataTo[k][b] = DataTo[k - 1][l] \o DataTo[k - 1][r]
    BY <1>1, DataSettles, Zenon
  <2> QED
    BY <2>1, <2>2, <2>3, Zenon DEF Data
<1>3. Branches(b) = 1 + Branches(l) + Branches(r)
  BY <1>1, BranchesSettles DEF Branches
<1>4. Subtrees(b) = {b} \union Subtrees(l) \union Subtrees(r)
  BY <1>1, SubtreesSettles DEF Subtrees
<1>5. b.level # 0 /\ b.level > 0
  BY <1>1
<1>6. Leaves(b) = Leaves(l) \union Leaves(r)
  BY <1>4, <1>5 DEF Leaves, Subtrees
<1>7. Splits(b) = {b} \union Splits(l) \union Splits(r)
  BY <1>4, <1>5 DEF Splits, Subtrees
<1> QED
  BY <1>2, <1>3, <1>4, <1>6, <1>7 DEF b

\* A tree holds keys, and has a branch.
LEMMA TreeTypes ==
    \A k \in 0 .. KeyLen : \A b \in Trees[k] : Data(b) \in Seq(Keys) /\ Branches(b) \in Nat \ {0}
<1> DEFINE T == { k \in 0 .. KeyLen :
                   \A b \in Trees[k] : Data(b) \in Seq(Keys) /\ Branches(b) \in Nat \ {0} }
<1>1. 0 \in T
  <2>1. ASSUME NEW b \in Trees[0] PROVE Data(b) \in Seq(Keys) /\ Branches(b) \in Nat \ {0}
    BY BranchKinds, OfLeaf
  <2> QED
    BY <2>1, KeyLenAssumption
<1>2. ASSUME NEW k \in 1 .. KeyLen, k - 1 \in T PROVE k \in T
  <2>1. ASSUME NEW b \in Trees[k] PROVE Data(b) \in Seq(Keys) /\ Branches(b) \in Nat \ {0}
    <3>1. CASE b \in Trees[k - 1]
      BY <1>2, <3>1
    <3>2. CASE /\ b = Split(k, b.split, b.child[1], b.child[2])
               /\ b.split \in Nat
               /\ b.child[1] \in Trees[k - 1] /\ b.child[2] \in Trees[k - 1]
      <4>1. /\ Data(b) = Data(b.child[1]) \o Data(b.child[2])
            /\ Branches(b) = 1 + Branches(b.child[1]) + Branches(b.child[2])
        BY <3>2, OfSplit, SMTT(30)
      <4>2. /\ Data(b.child[1]) \in Seq(Keys) /\ Data(b.child[2]) \in Seq(Keys)
            /\ Branches(b.child[1]) \in Nat \ {0} /\ Branches(b.child[2]) \in Nat \ {0}
        BY <1>2, <3>2
      <4>3. Data(b) \in Seq(Keys)
        BY <4>1, <4>2, ConcatProperties
      <4>4. Branches(b) \in Nat \ {0}
        BY <4>1, <4>2
      <4> QED
        BY <4>3, <4>4
    <3> QED
      BY <3>1, <3>2, BranchKinds
  <2> QED
    BY <2>1
<1> QED
  <2> HIDE DEF T
  <2>1. \A k \in 0 .. KeyLen : k \in T
    BY <1>1, <1>2, AllLevels
  <2> QED
    BY <2>1 DEF T

-----------------------------------------------------------------------------
(***************************************************************************)
(* How often a list has a pair: a sort changes nothing of it, and the      *)
(* numbers of the halves add up.                                           *)
(***************************************************************************)
At(k, s) == { i \in DOMAIN s : s[i] = k }

\* t has every pair as often as s.
SamePairs(s, t) == \A k : Times(k, s) = Times(k, t)

\* How often a pair is in a sequence is a number.
LEMMA TimesFinite ==
    ASSUME NEW S, NEW s \in Seq(S), NEW k
    PROVE  /\ IsFiniteSet(At(k, s)) /\ Times(k, s) = Cardinality(At(k, s))
           /\ Times(k, s) \in Nat
           /\ Times(k, s) # 0 <=> k \in ToSet(s)
<1>1. IsFiniteSet(1 .. Len(s)) /\ At(k, s) \in SUBSET (1 .. Len(s))
  BY FS_Interval DEF At
<1>2. IsFiniteSet(At(k, s))
  BY <1>1, FS_Subset
<1>3. Times(k, s) = Cardinality(At(k, s))
  BY DEF Times, At
<1>4. Cardinality(At(k, s)) \in Nat /\ (Cardinality(At(k, s)) = 0 <=> At(k, s) = {})
  BY <1>2, FS_CardinalityType, FS_EmptySet
<1>5. At(k, s) # {} <=> k \in ToSet(s)
  BY DEF At, ToSet
<1> QED
  BY <1>2, <1>3, <1>4, <1>5

\* With the same pairs as often the set of pairs is the same.
LEMMA SamePairsSameSet ==
    ASSUME NEW S, NEW s \in Seq(S), NEW t \in Seq(S), SamePairs(s, t)
    PROVE  ToSet(s) = ToSet(t)
<1>1. \A k : k \in ToSet(s) <=> k \in ToSet(t)
  BY TimesFinite DEF SamePairs
<1> QED
  BY <1>1

\* pkvSort gives every pair as often as it got it, in order.
LEMMA SortPermutes ==
    ASSUME NEW S, NEW s \in Seq(S), NEW order, NEW t \in pkvSort(s, order)
    PROVE  /\ t \in Seq(S) /\ Len(t) = Len(s) /\ SamePairs(s, t)
           /\ \A i, j \in 1 .. Len(t) : i < j => <<t[i], t[j]>> \in order
<1> DEFINE D == 1 .. Len(s)
<1>1. Len(s) \in Nat /\ DOMAIN s = D /\ s \in [D -> S]
  BY LenProperties
<1>2. IsFiniteSet(D) /\ Cardinality(D) = Len(s)
  BY <1>1, FS_Interval
<1>3. PICK p \in SetToSeqs(D) : t = [i \in D |-> s[p[i]]]
  BY <1>1 DEF pkvSort
<1>4. p \in [D -> D] /\ \A i, j \in D : i # j => p[i] # p[j]
  BY <1>2, <1>3 DEF SetToSeqs
<1>5. p \in Injection(D, D)
  BY <1>4 DEF Injection, IsInjective
<1>6. p \in Surjection(D, D)
  BY <1>2, <1>5, FS_Injection
<1>7. t \in [D -> S]
  BY <1>1, <1>3, <1>4
<1>8. t \in Seq(S) /\ Len(t) = Len(s) /\ DOMAIN t = D
  BY <1>1, <1>7
<1>9. ASSUME NEW k PROVE Times(k, s) = Times(k, t)
  <2> DEFINE q == [i \in At(k, t) |-> p[i]]
  <2>1. /\ At(k, t) = { i \in D : s[p[i]] = k }
        /\ At(k, s) = { j \in D : s[j] = k }
    BY <1>1, <1>3, <1>8 DEF At
  <2>2. q \in [At(k, t) -> At(k, s)]
    BY <2>1, <1>4
  <2>3. \A i, j \in At(k, t) : q[i] = q[j] => i = j
    BY <2>1, <1>4
  <2>4. \A j \in At(k, s) : \E i \in At(k, t) : q[i] = j
    BY <2>1, <1>6 DEF Surjection
  <2>5. ExistsBijection(At(k, t), At(k, s))
    <3> HIDE DEF q
    <3> QED
      BY <2>2, <2>3, <2>4 DEF ExistsBijection, Bijection, Injection, IsInjective, Surjection
  <2>6. IsFiniteSet(At(k, t))
    BY <1>8, TimesFinite
  <2>7. Cardinality(At(k, s)) = Cardinality(At(k, t))
    BY <2>5, <2>6, FS_Bijection
  <2> QED
    BY <2>7, <1>8, TimesFinite
<1>10. \A i, j \in D : i < j => <<t[i], t[j]>> \in order
  BY <1>8 DEF pkvSort
<1> QED
  BY <1>8, <1>9, <1>10 DEF SamePairs

\* How often a pair is in two sequences together.
LEMMA TimesConcat ==
    ASSUME NEW S, NEW s \in Seq(S), NEW t \in Seq(S), NEW k
    PROVE  Times(k, s \o t) = Times(k, s) + Times(k, t)
<1> DEFINE m == Len(s)
           n == Len(t)
           B == { i + m : i \in At(k, t) }
           q == [i \in At(k, t) |-> i + m]
<1>1. /\ m \in Nat /\ n \in Nat
      /\ DOMAIN s = 1 .. m /\ DOMAIN t = 1 .. n
      /\ s \o t \in Seq(S) /\ DOMAIN (s \o t) = 1 .. m + n
      /\ \A i \in 1 .. m + n : (s \o t)[i] = IF i <= m THEN s[i] ELSE t[i - m]
  BY ConcatProperties, LenProperties
<1> HIDE DEF m, n
<1>2. At(k, s \o t) = At(k, s) \union B
  <2>1. ASSUME NEW i \in At(k, s \o t) PROVE i \in At(k, s) \union B
    <3>1. i \in 1 .. m + n /\ k = IF i <= m THEN s[i] ELSE t[i - m]
      BY <1>1 DEF At
    <3>2. CASE i <= m
      BY <1>1, <3>1, <3>2 DEF At
    <3>3. CASE ~(i <= m)
      <4>1. i - m \in 1 .. n /\ i = (i - m) + m
        BY <1>1, <3>1, <3>3
      <4>2. i - m \in At(k, t)
        BY <1>1, <3>1, <3>3, <4>1 DEF At
      <4> QED
        BY <4>1, <4>2
    <3> QED
      BY <3>2, <3>3
  <2>2. ASSUME NEW i \in At(k, s) PROVE i \in At(k, s \o t)
    <3>1. i \in 1 .. m /\ s[i] = k
      BY <1>1 DEF At
    <3>2. i \in 1 .. m + n /\ i <= m
      BY <1>1, <3>1
    <3> QED
      BY <1>1, <3>1, <3>2 DEF At
  <2>3. ASSUME NEW i \in At(k, t) PROVE i + m \in At(k, s \o t)
    <3>1. i \in 1 .. n /\ t[i] = k
      BY <1>1 DEF At
    <3>2. i + m \in 1 .. m + n /\ ~(i + m <= m) /\ (i + m) - m = i
      BY <1>1, <3>1
    <3> QED
      BY <1>1, <3>1, <3>2 DEF At
  <2> QED
    BY <2>1, <2>2, <2>3
<1>3. At(k, s) \intersect B = {}
  <2>1. \A i \in At(k, s) : i <= m
    BY <1>1 DEF At
  <2>2. \A i \in At(k, t) : i + m > m
    BY <1>1 DEF At
  <2> QED
    BY <1>1, <2>1, <2>2 DEF At
<1>4. ExistsBijection(At(k, t), B)
  <2>1. q \in [At(k, t) -> B] /\ \A j \in B : \E i \in At(k, t) : q[i] = j
    OBVIOUS
  <2>2. \A i, j \in At(k, t) : q[i] = q[j] => i = j
    BY <1>1 DEF At
  <2> HIDE DEF q, B
  <2> QED
    BY <2>1, <2>2 DEF ExistsBijection, Bijection, Injection, IsInjective, Surjection
<1>5. /\ IsFiniteSet(At(k, s)) /\ Times(k, s) = Cardinality(At(k, s)) /\ Times(k, s) \in Nat
      /\ IsFiniteSet(At(k, t)) /\ Times(k, t) = Cardinality(At(k, t)) /\ Times(k, t) \in Nat
      /\ Times(k, s \o t) = Cardinality(At(k, s \o t))
  BY <1>1, TimesFinite
<1> HIDE DEF B
<1>6. IsFiniteSet(B) /\ Cardinality(B) = Times(k, t)
  BY <1>4, <1>5, FS_Bijection
<1>7. Cardinality(At(k, s) \union B) = Times(k, s) + Times(k, t) - Cardinality({})
  BY <1>3, <1>5, <1>6, FS_Union
<1>8. Cardinality({}) = 0
  BY FS_EmptySet
<1> QED
  BY <1>2, <1>5, <1>7, <1>8

\* pkvBuildBranch16 divides its pairs into two parts, none of them empty.
LEMMA Halves ==
    ASSUME NEW S, NEW s \in Seq(S), Len(s) >= 2
    PROVE  /\ LeftPart(s) \in Seq(S) /\ LeftPart(s) # <<>>
           /\ RightPart(s) \in Seq(S) /\ RightPart(s) # <<>>
           /\ s = LeftPart(s) \o RightPart(s)
           /\ Len(s) \div 2 + 1 \in 1 .. Len(s)
           /\ \A p \in ToSet(LeftPart(s)) : \E i \in 1 .. Len(s) \div 2 : p = s[i]
           /\ \A p \in ToSet(RightPart(s)) : \E i \in Len(s) \div 2 + 1 .. Len(s) : p = s[i]
<1> DEFINE n == Len(s)
           h == Len(s) \div 2
<1>1. n \in Nat /\ h \in Nat /\ 1 <= h /\ h + 1 <= n
  OBVIOUS
<1>2. \A i \in 1 .. n : s[i] \in S
  OBVIOUS
<1> HIDE DEF h, n
<1>3. /\ SubSeq(s, 1, h) \in Seq(S) /\ Len(SubSeq(s, 1, h)) = h
      /\ \A i \in 1 .. h : SubSeq(s, 1, h)[i] = s[i]
  <2>1. \A i \in 1 .. h : s[i] \in S
    BY <1>1, <1>2
  <2>2. h - 1 + 1 = h /\ \A i \in 1 .. h : 1 + i - 1 = i
    BY <1>1
  <2> QED
    BY <1>1, <2>1, <2>2, SubSeqProperties
<1>4. /\ SubSeq(s, h + 1, n) \in Seq(S) /\ Len(SubSeq(s, h + 1, n)) = n - h
      /\ \A i \in 1 .. n - h : SubSeq(s, h + 1, n)[i] = s[h + i]
  <2>1. \A i \in h + 1 .. n : s[i] \in S
    BY <1>1, <1>2
  <2>2. n - (h + 1) + 1 = n - h /\ \A i \in 1 .. n - h : (h + 1) + i - 1 = h + i
    BY <1>1
  <2> QED
    BY <1>1, <2>1, <2>2, SubSeqProperties
<1>5. LeftPart(s) = SubSeq(s, 1, h) /\ RightPart(s) = SubSeq(s, h + 1, n)
  BY DEF LeftPart, RightPart, h, n
<1>6. LeftPart(s) # <<>> /\ RightPart(s) # <<>>
  <2>1. Len(LeftPart(s)) # 0 /\ Len(RightPart(s)) # 0
    BY <1>1, <1>3, <1>4, <1>5
  <2>2. Len(<<>>) = 0
    OBVIOUS
  <2> QED
    BY <2>1, <2>2
<1>7. s = LeftPart(s) \o RightPart(s)
  <2>1. /\ 1 \in 1 .. n + 1 /\ h \in 1 - 1 .. n /\ n \in h .. n
    BY <1>1
  <2>2. SubSeq(s, 1, h) \o SubSeq(s, h + 1, n) = SubSeq(s, 1, n)
    BY <2>1, ConcatAdjacentSubSeq DEF n
  <2> QED
    BY <2>2, <1>5, SubSeqFull DEF n
<1>8. ASSUME NEW p \in ToSet(LeftPart(s)) PROVE \E i \in 1 .. h : p = s[i]
  BY <1>3, <1>5 DEF ToSet
<1>9. ASSUME NEW p \in ToSet(RightPart(s)) PROVE \E i \in h + 1 .. n : p = s[i]
  <2> DEFINE r == RightPart(s)
  <2>1. DOMAIN r = 1 .. n - h /\ \A i \in 1 .. n - h : r[i] = s[h + i]
    BY <1>4, <1>5
  <2>2. PICK i \in DOMAIN r : p = r[i]
    BY DEF ToSet
  <2> HIDE DEF r
  <2>3. p = s[h + i] /\ i \in 1 .. n - h
    BY <2>1, <2>2
  <2>4. h + i \in h + 1 .. n
    BY <1>1, <2>3
  <2> QED
    BY <2>3, <2>4
<1>10. h + 1 \in 1 .. n
  BY <1>1
<1> QED
  BY <1>3, <1>4, <1>5, <1>6, <1>7, <1>8, <1>9, <1>10 DEF h, n

-----------------------------------------------------------------------------
(***************************************************************************)
(* What pkvBuildBranch16 gives: nothing that stays allocated, or a tree of *)
(* the pairs with ordered leaves and dividing splits.                      *)
(***************************************************************************)
LeavesOrdered(b) ==
    \A d \in Leaves(b) :
      /\ d \in Seq(Keys) /\ d # <<>>
      /\ \A i, j \in 1 .. Len(d) : i < j => ~KeyBelow(d[i], d[j])

SplitsDivide(b) ==
    \A c \in Splits(b) :
      /\ \A p \in ToSet(Data(c.child[1])) : bkbits16(p[c.level]) <= c.split
      /\ \A p \in ToSet(Data(c.child[2])) : bkbits16(p[c.level]) >= c.split

WellBuilt(b, s) == SamePairs(s, Data(b)) /\ LeavesOrdered(b) /\ SplitsDivide(b)

Gives(k, s, r) ==
    /\ r.left \in Nat
    /\ r.tree = NoTree => r.live = 0
    /\ r.tree # NoTree => /\ r.tree \in Trees[k]
                          /\ r.live = Branches(r.tree)
                          /\ WellBuilt(r.tree, s)

PairSeqs == Seq(Keys) \ {<<>>}

\* The bits of a word can be counted.
LEMMA BitCounts ==
    /\ \A w \in Words : IsFiniteSet(w) /\ bkbits16(w) \in Nat
    /\ \A p \in Keys : \A k \in 1 .. KeyLen : p[k] \in Words /\ bkbits16(p[k]) \in Nat
<1>1. ASSUME NEW w \in Words PROVE IsFiniteSet(w) /\ bkbits16(w) \in Nat
  BY BitsAssumption, FS_Subset, FS_CardinalityType DEF Words, bkbits16
<1>2. \A p \in Keys : \A k \in 1 .. KeyLen : p[k] \in Words
  BY DEF Keys
<1> QED
  BY <1>1, <1>2

\* Sorted by the bit count of a word.
LEMMA BitCountOrder ==
    ASSUME NEW s \in PairSeqs, NEW k \in 1 .. KeyLen, NEW t \in ByBitCount(s, k)
    PROVE  /\ t \in PairSeqs /\ Len(t) = Len(s) /\ SamePairs(s, t)
           /\ \A i, j \in 1 .. Len(t) : i <= j => bkbits16(t[i][k]) <= bkbits16(t[j][k])
<1> DEFINE order == { ab \in TwoOf(s) : bkbits16(ab[1][k]) <= bkbits16(ab[2][k]) }
<1>1. s \in Seq(Keys) /\ s # <<>> /\ t \in pkvSort(s, order)
  BY DEF PairSeqs, ByBitCount
<1> HIDE DEF order
<1>2. /\ t \in Seq(Keys) /\ Len(t) = Len(s) /\ SamePairs(s, t)
      /\ \A i, j \in 1 .. Len(t) : i < j => <<t[i], t[j]>> \in order
  BY <1>1, SortPermutes
<1>3. t # <<>>
  BY <1>1, <1>2
<1>4. ASSUME NEW i \in 1 .. Len(t), NEW j \in 1 .. Len(t), i <= j
      PROVE  bkbits16(t[i][k]) <= bkbits16(t[j][k])
  <2>1. CASE i = j
    <3>1. t[i] \in Keys
      BY <1>2
    <3>2. bkbits16(t[i][k]) \in Nat
      BY <3>1, BitCounts
    <3> QED
      BY <2>1, <3>2
  <2>2. CASE i # j
    <3>1. <<t[i], t[j]>> \in order
      BY <1>2, <1>4, <2>2
    <3> QED
      BY <3>1 DEF order
  <2> QED
    BY <2>1, <2>2
<1> QED
  BY <1>2, <1>3, <1>4 DEF PairSeqs

\* The largest key first.
LEMMA KeyOrder ==
    ASSUME NEW s \in PairSeqs, NEW t \in ByKey(s)
    PROVE  /\ t \in PairSeqs /\ SamePairs(s, t)
           /\ \A i, j \in 1 .. Len(t) : i < j => ~KeyBelow(t[i], t[j])
<1> DEFINE order == { ab \in TwoOf(s) : ~KeyBelow(ab[1], ab[2]) }
<1>1. s \in Seq(Keys) /\ s # <<>> /\ t \in pkvSort(s, order)
  BY DEF PairSeqs, ByKey
<1>2. \A a, b : <<a, b>> \in order => ~KeyBelow(a, b)
  OBVIOUS
<1> HIDE DEF order
<1>3. /\ t \in Seq(Keys) /\ Len(t) = Len(s) /\ SamePairs(s, t)
      /\ \A i, j \in 1 .. Len(t) : i < j => <<t[i], t[j]>> \in order
  BY <1>1, SortPermutes
<1>4. t # <<>>
  BY <1>1, <1>3
<1> QED
  BY <1>2, <1>3, <1>4 DEF PairSeqs

\* A tree built from a permutation is built from the pairs.
LEMMA SamePairsThrough ==
    ASSUME NEW s, NEW t, SamePairs(s, t), NEW b, WellBuilt(b, t)
    PROVE  WellBuilt(b, s)
BY DEF WellBuilt, SamePairs

\* At level 0 a leaf is built.
LEMMA LeafGives ==
    ASSUME NEW s \in PairSeqs, NEW t \in ByKey(s), NEW m \in Nat
    PROVE  Gives(0, s, Built(Leaf(t), 1, m))
<1>1. /\ t \in Seq(Keys) /\ t # <<>> /\ SamePairs(s, t)
      /\ \A i, j \in 1 .. Len(t) : i < j => ~KeyBelow(t[i], t[j])
  BY KeyOrder DEF PairSeqs
<1>2. /\ Data(Leaf(t)) = t /\ Branches(Leaf(t)) = 1
      /\ Leaves(Leaf(t)) = {t} /\ Splits(Leaf(t)) = {}
  BY <1>1, OfLeaf
<1>3. WellBuilt(Leaf(t), s)
  BY <1>1, <1>2 DEF WellBuilt, LeavesOrdered, SplitsDivide
<1>4. Leaf(t) \in Trees[0] /\ Leaf(t) # NoTree
  BY <1>1, LeafIsTree, NoTreeIsNone
<1> QED
  BY <1>2, <1>3, <1>4 DEF Gives, Built

\* A split of the sorted pairs t, whose halves have become l and r.
LEMMA SplitGives ==
    ASSUME NEW k \in 1 .. KeyLen, NEW s \in PairSeqs, NEW t \in ByBitCount(s, k), Len(t) >= 2,
           NEW l \in Trees[k - 1], WellBuilt(l, LeftPart(t)),
           NEW r \in Trees[k - 1], WellBuilt(r, RightPart(t))
    PROVE  LET b == Split(k, SplitValue(t, k), l, r)
           IN  b \in Trees[k] /\ Branches(b) = 1 + Branches(l) + Branches(r) /\ WellBuilt(b, s)
<1> DEFINE v == SplitValue(t, k)
           b == Split(k, v, l, r)
           h == Len(t) \div 2
<1>1. /\ t \in Seq(Keys) /\ SamePairs(s, t)
      /\ \A i, j \in 1 .. Len(t) : i <= j => bkbits16(t[i][k]) <= bkbits16(t[j][k])
  BY BitCountOrder DEF PairSeqs
<1>2. /\ LeftPart(t) \in Seq(Keys) /\ RightPart(t) \in Seq(Keys)
      /\ t = LeftPart(t) \o RightPart(t)
      /\ h + 1 \in 1 .. Len(t) /\ h \in Nat
      /\ \A p \in ToSet(LeftPart(t)) : \E i \in 1 .. h : p = t[i]
      /\ \A p \in ToSet(RightPart(t)) : \E i \in h + 1 .. Len(t) : p = t[i]
  <2>1. Len(t) \in Nat /\ h \in Nat
    BY <1>1
  <2>2. t \in Seq(Keys) /\ Len(t) >= 2
    BY <1>1
  <2> QED
    BY ONLY <2>1, <2>2, Halves
<1>3. v = bkbits16(t[h + 1][k]) /\ v \in Nat
  <2>1. t[h + 1] \in Keys
    BY <1>1, <1>2
  <2> QED
    BY <2>1, BitCounts DEF SplitValue
<1> HIDE DEF v
<1>4. Data(l) \in Seq(Keys) /\ Data(r) \in Seq(Keys)
  <2>1. k - 1 \in 0 .. KeyLen
    BY KeyLenAssumption
  <2> QED
    BY <2>1, TreeTypes
<1>5. /\ b \in Trees[k]
      /\ b.level = k /\ b.split = v /\ b.child[1] = l /\ b.child[2] = r
  BY <1>3, SplitIsTree DEF Split
<1>6. /\ Data(b) = Data(l) \o Data(r)
      /\ Branches(b) = 1 + Branches(l) + Branches(r)
      /\ Leaves(b) = Leaves(l) \union Leaves(r)
      /\ Splits(b) = {b} \union Splits(l) \union Splits(r)
  BY <1>3, OfSplit, SMTT(30)
<1> HIDE DEF b, h
<1>7. SamePairs(s, Data(b))
  <2>1. ASSUME NEW x PROVE Times(x, s) = Times(x, Data(b))
    <3>1. Times(x, s) = Times(x, t) /\ Times(x, t) = Times(x, LeftPart(t)) + Times(x, RightPart(t))
      <4>1. Times(x, LeftPart(t) \o RightPart(t)) = Times(x, LeftPart(t)) + Times(x, RightPart(t))
        BY <1>2, TimesConcat
      <4> QED
        BY <4>1, <1>1, <1>2 DEF SamePairs
    <3>2. Times(x, LeftPart(t)) = Times(x, Data(l)) /\ Times(x, RightPart(t)) = Times(x, Data(r))
      BY DEF WellBuilt, SamePairs
    <3>3. Times(x, Data(b)) = Times(x, Data(l)) + Times(x, Data(r))
      BY <1>4, <1>6, TimesConcat
    <3> QED
      BY <3>1, <3>2, <3>3
  <2> QED
    BY <2>1 DEF SamePairs
<1>8. LeavesOrdered(b)
  BY <1>6 DEF WellBuilt, LeavesOrdered
<1>9. \A p \in ToSet(Data(l)) : bkbits16(p[k]) <= v
  <2>1. ToSet(Data(l)) = ToSet(LeftPart(t))
    BY <1>2, <1>4, SamePairsSameSet DEF WellBuilt
  <2>2. ASSUME NEW p \in ToSet(LeftPart(t)) PROVE bkbits16(p[k]) <= v
    <3>1. PICK i \in 1 .. h : p = t[i]
      BY <1>2
    <3>2. i \in 1 .. Len(t) /\ i <= h + 1
      BY <1>2
    <3> QED
      BY <1>1, <1>2, <1>3, <3>1, <3>2
  <2> QED
    BY <2>1, <2>2
<1>10. \A p \in ToSet(Data(r)) : bkbits16(p[k]) >= v
  <2>1. ToSet(Data(r)) = ToSet(RightPart(t))
    BY <1>2, <1>4, SamePairsSameSet DEF WellBuilt
  <2>2. ASSUME NEW p \in ToSet(RightPart(t)) PROVE bkbits16(p[k]) >= v
    <3>1. PICK i \in h + 1 .. Len(t) : p = t[i]
      BY <1>2
    <3>2. i \in 1 .. Len(t) /\ h + 1 <= i
      BY <1>2
    <3>3. v <= bkbits16(p[k]) /\ p \in Keys
      BY <1>1, <1>2, <1>3, <3>1, <3>2
    <3>4. bkbits16(p[k]) \in Nat
      BY <3>3, BitCounts
    <3> QED
      BY <1>3, <3>3, <3>4
  <2> QED
    BY <2>1, <2>2
<1>11. SplitsDivide(b)
  BY <1>5, <1>6, <1>9, <1>10 DEF WellBuilt, SplitsDivide
<1> QED
  BY <1>5, <1>6, <1>7, <1>8, <1>11 DEF WellBuilt, b, v

\* One level of the recursion.
LEMMA BuildAt ==
    ASSUME NEW k \in 0 .. KeyLen, NEW s \in Seq(Keys), NEW m \in Nat,
           NEW res \in pkvBuildBranch16[k][s][m]
    PROVE  \/ m = 0 /\ res = Built(NoTree, 0, 0)
           \/ m # 0 /\ k = 0 /\ \E t \in ByKey(s) : res = Built(Leaf(t), 1, m - 1)
           \/ /\ m # 0 /\ k # 0
              /\ \E t \in ByBitCount(s, k) :
                   \/ Dropped(t, k) /\ res \in pkvBuildBranch16[k - 1][t][m - 1]
                   \/ /\ ~Dropped(t, k)
                      /\ \E l \in pkvBuildBranch16[k - 1][LeftPart(t)][m - 1] :
                           \/ l.tree = NoTree /\ res = l
                           \/ /\ l.tree # NoTree
                              /\ \E r \in pkvBuildBranch16[k - 1][RightPart(t)][l.left] :
                                   res = Joined(k, SplitValue(t, k), l, r)
<1>1. pkvBuildBranch16[k] = BuildStep(k, pkvBuildBranch16[k - 1])
  BY BuildByLevel
<1> DEFINE f == pkvBuildBranch16[k - 1]
           Right(t, l) == { Joined(k, SplitValue(t, k), l, r) : r \in f[RightPart(t)][l.left] }
           Halved(t) == UNION { IF l.tree = NoTree THEN {l} ELSE Right(t, l) :
                                l \in f[LeftPart(t)][m - 1] }
           Below == UNION { IF Dropped(t, k) THEN f[t][m - 1] ELSE Halved(t) :
                            t \in ByBitCount(s, k) }
<1>2. pkvBuildBranch16[k][s][m] =
        IF m = 0 THEN {Built(NoTree, 0, 0)}
        ELSE IF k = 0 THEN { Built(Leaf(t), 1, m - 1) : t \in ByKey(s) }
        ELSE Below
  BY <1>1 DEF BuildStep
<1> HIDE DEF Halved
<1>3. ASSUME m # 0, k # 0
      PROVE  \E t \in ByBitCount(s, k) :
               IF Dropped(t, k) THEN res \in f[t][m - 1] ELSE res \in Halved(t)
  <2>1. res \in Below
    BY <1>2, <1>3
  <2>2. PICK t \in ByBitCount(s, k) : res \in IF Dropped(t, k) THEN f[t][m - 1] ELSE Halved(t)
    BY <2>1
  <2> QED
    BY <2>2
<1> HIDE DEF Right
<1>4. ASSUME NEW t, res \in Halved(t)
      PROVE  \E l \in f[LeftPart(t)][m - 1] :
               IF l.tree = NoTree THEN res = l ELSE res \in Right(t, l)
  <2>1. PICK l \in f[LeftPart(t)][m - 1] : res \in IF l.tree = NoTree THEN {l} ELSE Right(t, l)
    BY <1>4 DEF Halved
  <2> QED
    BY <2>1
<1>5. \A t, l : res \in Right(t, l) =>
         \E r \in f[RightPart(t)][l.left] : res = Joined(k, SplitValue(t, k), l, r)
  BY DEF Right
<1>6. CASE m = 0
  BY <1>2, <1>6
<1>7. CASE m # 0 /\ k = 0
  BY <1>2, <1>7
<1>8. CASE m # 0 /\ k # 0
  <2>1. PICK t \in ByBitCount(s, k) :
               IF Dropped(t, k) THEN res \in f[t][m - 1] ELSE res \in Halved(t)
    BY <1>3, <1>8
  <2>2. CASE Dropped(t, k)
    BY <1>8, <2>1, <2>2
  <2>3. CASE ~Dropped(t, k)
    <3>1. PICK l \in f[LeftPart(t)][m - 1] :
                 IF l.tree = NoTree THEN res = l ELSE res \in Right(t, l)
      BY <1>4, <2>1, <2>3
    <3>2. CASE l.tree = NoTree
      BY <1>8, <2>3, <3>1, <3>2
    <3>3. CASE l.tree # NoTree
      <4>1. PICK r \in f[RightPart(t)][l.left] : res = Joined(k, SplitValue(t, k), l, r)
        BY <1>5, <3>1, <3>3
      <4> QED
        BY <1>8, <2>3, <3>3, <4>1
    <3> QED
      BY <3>2, <3>3
  <2> QED
    BY <2>2, <2>3
<1> QED
  BY <1>6, <1>7, <1>8

\* At every level pkvBuildBranch16 gives nothing that stays allocated, or a tree
\* well built from its pairs.
LEMMA BuildGives ==
    \A k \in 0 .. KeyLen : \A s \in PairSeqs, m \in Nat :
       \A res \in pkvBuildBranch16[k][s][m] : Gives(k, s, res)
<1> DEFINE T == { k \in 0 .. KeyLen : \A s \in PairSeqs, m \in Nat :
                     \A res \in pkvBuildBranch16[k][s][m] : Gives(k, s, res) }
<1>1. \A k, s : Gives(k, s, Built(NoTree, 0, 0))
  BY DEF Gives, Built
<1>2. 0 \in T
  <2>1. ASSUME NEW s \in PairSeqs, NEW m \in Nat, NEW res \in pkvBuildBranch16[0][s][m]
        PROVE  Gives(0, s, res)
    <3>1. 0 \in 0 .. KeyLen /\ s \in Seq(Keys)
      BY KeyLenAssumption DEF PairSeqs
    <3>2. CASE m = 0
      <4>1. res = Built(NoTree, 0, 0)
        BY <3>1, <3>2, BuildAt
      <4> QED
        BY <1>1, <4>1
    <3>3. CASE m # 0
      <4>1. PICK t \in ByKey(s) : res = Built(Leaf(t), 1, m - 1)
        BY <3>1, <3>3, BuildAt
      <4>2. m - 1 \in Nat
        BY <3>3
      <4> QED
        BY <4>1, <4>2, LeafGives
    <3> QED
      BY <3>2, <3>3
  <2> QED
    BY <2>1, KeyLenAssumption
<1>3. ASSUME NEW k \in 1 .. KeyLen, k - 1 \in T PROVE k \in T
  <2>1. ASSUME NEW s \in PairSeqs, NEW m \in Nat, NEW res \in pkvBuildBranch16[k - 1][s][m]
        PROVE  Gives(k - 1, s, res)
    BY <1>3
  <2> HIDE DEF T
  <2>2. /\ k \in 0 .. KeyLen /\ k - 1 \in 0 .. KeyLen /\ k # 0
        /\ Trees[k - 1] \subseteq Trees[k]
    BY TreesAt, KeyLenAssumption
  <2>3. ASSUME NEW s \in PairSeqs, NEW m \in Nat, NEW res \in pkvBuildBranch16[k][s][m]
        PROVE  Gives(k, s, res)
    <3>1. s \in Seq(Keys)
      BY DEF PairSeqs
    <3>2. CASE m = 0
      <4>1. res = Built(NoTree, 0, 0)
        BY <2>2, <3>1, <3>2, BuildAt
      <4> QED
        BY <1>1, <4>1
    <3>3. CASE m # 0
      <4>1. m - 1 \in Nat
        BY <3>3
      <4>2. PICK t \in ByBitCount(s, k) :
                   \/ Dropped(t, k) /\ res \in pkvBuildBranch16[k - 1][t][m - 1]
                   \/ /\ ~Dropped(t, k)
                      /\ \E l \in pkvBuildBranch16[k - 1][LeftPart(t)][m - 1] :
                           \/ l.tree = NoTree /\ res = l
                           \/ /\ l.tree # NoTree
                              /\ \E r \in pkvBuildBranch16[k - 1][RightPart(t)][l.left] :
                                   res = Joined(k, SplitValue(t, k), l, r)
        BY <2>2, <3>1, <3>3, BuildAt
      <4>3. t \in PairSeqs /\ t \in Seq(Keys) /\ t # <<>> /\ SamePairs(s, t)
        BY BitCountOrder DEF PairSeqs
      <4>4. CASE Dropped(t, k) /\ res \in pkvBuildBranch16[k - 1][t][m - 1]
        <5>1. Gives(k - 1, t, res)
          BY <2>1, <4>1, <4>3, <4>4
        <5> QED
          BY <2>2, <4>3, <5>1, SamePairsThrough DEF Gives
      <4>5. CASE ~Dropped(t, k)
        <5>1. Len(t) >= 2
          <6>1. Len(t) \in Nat /\ Len(t) # 0
            BY <4>3, EmptySeq
          <6>2. Len(t) # 1
            BY <4>5 DEF Dropped
          <6>3. \A n \in Nat : n # 0 /\ n # 1 => n >= 2
            OBVIOUS
          <6> QED
            BY <6>1, <6>2, <6>3
        <5>2. LeftPart(t) \in PairSeqs /\ RightPart(t) \in PairSeqs
          BY <4>3, <5>1, Halves DEF PairSeqs
        <5>3. PICK l \in pkvBuildBranch16[k - 1][LeftPart(t)][m - 1] :
                     \/ l.tree = NoTree /\ res = l
                     \/ /\ l.tree # NoTree
                        /\ \E r \in pkvBuildBranch16[k - 1][RightPart(t)][l.left] :
                             res = Joined(k, SplitValue(t, k), l, r)
          BY <4>2, <4>5
        <5>4. Gives(k - 1, LeftPart(t), l)
          BY <2>1, <4>1, <5>2
        <5>5. CASE l.tree = NoTree
          BY <5>3, <5>4, <5>5 DEF Gives
        <5>6. CASE l.tree # NoTree
          <6>1. PICK r \in pkvBuildBranch16[k - 1][RightPart(t)][l.left] :
                       res = Joined(k, SplitValue(t, k), l, r)
            BY <5>3, <5>6
          <6>2. l.left \in Nat /\ l.tree \in Trees[k - 1] /\ l.live = Branches(l.tree)
                /\ WellBuilt(l.tree, LeftPart(t))
            BY <5>4, <5>6 DEF Gives
          <6>3. Gives(k - 1, RightPart(t), r)
            BY <2>1, <5>2, <6>2
          <6>4. Branches(l.tree) \in Nat
            BY <2>2, <6>2, TreeTypes
          <6>5. CASE r.tree = NoTree
            <7>1. r.live = 0 /\ r.left \in Nat
              BY <6>3, <6>5 DEF Gives
            <7>2. res = Built(NoTree, l.live + r.live - Branches(l.tree), r.left)
              BY <6>1, <6>5 DEF Joined, RightFails
            <7>3. l.live + r.live - Branches(l.tree) = 0
              BY <6>2, <6>4, <7>1
            <7> QED
              BY <7>1, <7>2, <7>3 DEF Gives, Built
          <6>6. CASE r.tree # NoTree
            <7>1. /\ r.left \in Nat /\ r.tree \in Trees[k - 1] /\ r.live = Branches(r.tree)
                  /\ WellBuilt(r.tree, RightPart(t))
              BY <6>3, <6>6 DEF Gives
            <7> DEFINE b == Split(k, SplitValue(t, k), l.tree, r.tree)
            <7>2. /\ b \in Trees[k] /\ Branches(b) = 1 + Branches(l.tree) + Branches(r.tree)
                  /\ WellBuilt(b, s)
              BY <5>1, <6>2, <7>1, SplitGives
            <7>3. res = Built(b, 1 + l.live + r.live, r.left)
              BY <6>1, <6>6 DEF Joined
            <7> HIDE DEF b
            <7>4. res.tree = b /\ res.live = Branches(b) /\ res.left \in Nat
              BY <6>2, <7>1, <7>2, <7>3 DEF Built
            <7>5. b # NoTree
              BY <2>2, <7>2, NoTreeIsNone
            <7> QED
              BY <7>2, <7>4, <7>5 DEF Gives
          <6> QED
            BY <6>5, <6>6
        <5> QED
          BY <5>5, <5>6
      <4> QED
        BY <4>2, <4>4, <4>5
    <3> QED
      BY <3>2, <3>3
  <2> QED
    BY <2>2, <2>3 DEF T
<1> HIDE DEF T
<1>4. \A k \in 0 .. KeyLen : k \in T
  BY <1>2, <1>3, AllLevels
<1> QED
  BY <1>4 DEF T

-----------------------------------------------------------------------------
(***************************************************************************)
(* The tree through its life.                                              *)
(***************************************************************************)
\* The inductive invariant: what is allocated is the tree, the tree is one of the
\* pairs, and the answer is one that the search of this tree can give.
TreeInv ==
    /\ lost \in Nat
    /\ NothingElseLeaks
    /\ tree # NoTree => tree \in Trees[KeyLen] /\ pairs \in PairSeqs /\ WellBuilt(tree, pairs)
    /\ \/ query = <<>>
       \/ /\ tree # NoTree
          /\ query \in Keys \X Keys
          /\ found \in pkvSearchBranch16[KeyLen][tree][<<>>][query[1]][query[2]]

\* pkvBuild16 keeps the invariant.
LEMMA BuildStepKeeps ==
    ASSUME TreeInv, NEW s \in PairLists, NEW m \in 0 .. Memory, pkvBuild16(s, m)
    PROVE  TreeInv'
<1>1. PICK root \in pkvBuildBranch16[KeyLen][s][m - 2] :
             /\ tree' = root.tree
             /\ pairs' = IF root.tree = NoTree THEN <<>> ELSE s
             /\ live' = live + root.live + IF root.tree = NoTree THEN 0 ELSE 2
  BY DEF pkvBuild16
<1>2. tree = NoTree /\ m - 2 \in Nat /\ s \in PairSeqs /\ KeyLen \in 0 .. KeyLen
  BY PairListsAssumption, MemoryAssumption, KeyLenAssumption DEF pkvBuild16, PairSeqs
<1>3. Gives(KeyLen, s, root)
  BY <1>2, BuildGives
<1>4. lost' = lost /\ query' = query /\ found' = found /\ query = <<>> /\ live = lost /\ lost \in Nat
  BY <1>2 DEF pkvBuild16, TreeInv, NothingElseLeaks
<1>5. CASE root.tree = NoTree
  <2>1. tree' = NoTree /\ live' = lost
    BY <1>1, <1>3, <1>4, <1>5 DEF Gives
  <2> QED
    BY <1>4, <2>1 DEF TreeInv, NothingElseLeaks
<1>6. CASE root.tree # NoTree
  <2>1. /\ tree' \in Trees[KeyLen] /\ tree' # NoTree /\ pairs' = s /\ WellBuilt(tree', pairs')
        /\ live' = live + Branches(tree') + 2
    BY <1>1, <1>3, <1>6 DEF Gives
  <2>2. Branches(tree') \in Nat
    BY <1>2, <2>1, TreeTypes
  <2>3. live' = lost + (2 + Branches(tree'))
    BY <1>4, <2>1, <2>2
  <2> QED
    BY <1>2, <1>4, <2>1, <2>3 DEF TreeInv, NothingElseLeaks
<1> QED
  BY <1>5, <1>6

\* The invariant holds through the life of a tree.
LEMMA TreeInvHolds == Spec => []TreeInv
<1>1. Init => TreeInv
  BY DEF Init, TreeInv, NothingElseLeaks
<1>2. TreeInv /\ [Next]_vars => TreeInv'
  <2> SUFFICES ASSUME TreeInv, [Next]_vars PROVE TreeInv'
    OBVIOUS
  <2>1. ASSUME NEW s \in PairLists, NEW m \in 0 .. Memory, pkvBuild16(s, m) PROVE TreeInv'
    BY <2>1, BuildStepKeeps
  <2>2. CASE BuildLosesHeader
    BY <2>2 DEF BuildLosesHeader, TreeInv, NothingElseLeaks
  <2>3. ASSUME NEW key \in Keys, NEW mask \in Keys, pkvSearch16(key, mask) PROVE TreeInv'
    <3>1. /\ query' = <<key, mask>> /\ query' \in Keys \X Keys
          /\ query'[1] = key /\ query'[2] = mask
          /\ found' \in pkvSearchBranch16[KeyLen][tree][<<>>][key][mask]
          /\ tree # NoTree /\ tree' = tree /\ pairs' = pairs /\ live' = live /\ lost' = lost
      BY <2>3 DEF pkvSearch16
    <3> QED
      BY <3>1 DEF TreeInv, NothingElseLeaks
  <2>4. CASE pkvCleanup
    <3>1. /\ tree # NoTree /\ tree' = NoTree /\ live' = live - Branches(tree) - 2
          /\ query' = <<>> /\ lost' = lost
      BY <2>4 DEF pkvCleanup
    <3>2. Branches(tree) \in Nat /\ lost \in Nat /\ live = lost + (2 + Branches(tree))
      BY <3>1, TreeTypes, KeyLenAssumption DEF TreeInv, NothingElseLeaks
    <3>3. live' = lost
      BY <3>1, <3>2
    <3> QED
      BY <3>1, <3>2, <3>3 DEF TreeInv, NothingElseLeaks
  <2>5. CASE UNCHANGED vars
    BY <2>5 DEF vars, TreeInv, NothingElseLeaks
  <2> QED
    BY <2>1, <2>2, <2>3, <2>4, <2>5 DEF Next
<1> QED
  BY <1>1, <1>2, PTL DEF Spec

\* Whichever allocation of a build fails, pkvBuildBranch16 and pkvBuild16 free what
\* they allocated before, and pkvCleanup frees all of a tree; only headers leak.
THEOREM LeakTheorem == Spec => []NothingElseLeaks
<1>1. TreeInv => NothingElseLeaks
  BY DEF TreeInv
<1> QED
  BY <1>1, TreeInvHolds, PTL

\* A tree that pkvBuild16 returns holds the client's pairs, each as often as it was
\* given, in ordered leaves that the splits divide by bit counts.
THEOREM LeavesTheorem == Spec => []LeavesHoldPairs
<1>1. ASSUME TreeInv, tree # NoTree PROVE LeavesHoldPairs
  <2>1. SamePairs(pairs, Data(tree)) /\ LeavesOrdered(tree) /\ SplitsDivide(tree)
    BY <1>1 DEF TreeInv, WellBuilt
  <2>2. \A k : Times(k, pairs) = Times(k, Data(tree))
    BY <2>1 DEF SamePairs
  <2>3. ASSUME NEW s \in Leaves(tree)
        PROVE  s # <<>> /\ \A i \in 2 .. Len(s) : ~KeyBelow(s[i - 1], s[i])
    <3>1. s \in Seq(Keys) /\ s # <<>> /\ \A i, j \in 1 .. Len(s) : i < j => ~KeyBelow(s[i], s[j])
      BY <2>1 DEF LeavesOrdered
    <3>2. \A i \in 2 .. Len(s) : i \in 1 .. Len(s) /\ i - 1 \in 1 .. Len(s) /\ i - 1 < i
      BY <3>1
    <3> QED
      BY <3>1, <3>2
  <2> QED
    BY <2>1, <2>2, <2>3 DEF LeavesHoldPairs, SplitsDivide
<1>2. TreeInv => LeavesHoldPairs
  BY <1>1 DEF LeavesHoldPairs
<1> QED
  BY <1>2, TreeInvHolds, PTL

-----------------------------------------------------------------------------
(***************************************************************************)
(* The order of words and keys is total.                                   *)
(***************************************************************************)
\* The numbers in a finite set stay below one.
LEMMA FiniteIsBounded ==
    ASSUME NEW S \in SUBSET Nat, IsFiniteSet(S)
    PROVE  \E c \in Nat : S \subseteq 0 .. c - 1
<1> DEFINE Bounded(T) == \E c \in Nat : T \subseteq 0 .. c - 1
           U == { n \in Nat : \A T \in SUBSET Nat :
                                IsFiniteSet(T) /\ Cardinality(T) = n => Bounded(T) }
<1>1. 0 \in U
  <2>1. ASSUME NEW T \in SUBSET Nat, IsFiniteSet(T), Cardinality(T) = 0 PROVE Bounded(T)
    <3>1. T = {}
      BY <2>1, FS_EmptySet
    <3> QED
      BY <3>1
  <2> QED
    BY <2>1
<1>2. ASSUME NEW n \in Nat, n \in U PROVE n + 1 \in U
  <2>1. ASSUME NEW T \in SUBSET Nat, IsFiniteSet(T), Cardinality(T) = n + 1 PROVE Bounded(T)
    <3>1. PICK x \in T : TRUE
      <4>1. Cardinality(T) # 0 /\ Cardinality({}) = 0
        BY <2>1, FS_EmptySet
      <4> QED
        BY <4>1
    <3>2. IsFiniteSet(T \ {x}) /\ Cardinality(T \ {x}) = n
      <4>1. IsFiniteSet(T \ {x}) /\ Cardinality(T \ {x}) = Cardinality(T) - 1
        BY ONLY <2>1, <3>1, FS_RemoveElement
      <4> QED
        BY <2>1, <4>1
    <3>3. PICK c \in Nat : T \ {x} \subseteq 0 .. c - 1
      BY <1>2, <3>2
    <3>4. x \in Nat /\ c + x + 1 \in Nat /\ T \subseteq 0 .. (c + x + 1) - 1
      BY <3>3
    <3> QED
      BY <3>4
  <2> QED
    BY <2>1
<1>3. Nat \subseteq U
  <2> HIDE DEF U
  <2> QED
    BY <1>1, <1>2, AllNumbers
<1>4. Cardinality(S) \in Nat
  BY FS_CardinalityType
<1> QED
  BY <1>3, <1>4

\* b is the highest bit in which v and w differ, and w has it.
TopBit(v, w, b) ==
    /\ b \in w \ v
    /\ \A c \in Bits : c > b => (c \in v <=> c \in w)

\* Words are ordered by the highest bit in which they differ.
LEMMA WordBelowTop ==
    ASSUME NEW v \in Words, NEW w \in Words
    PROVE  /\ WordBelow(v, w) <=> \E b \in Bits : TopBit(v, w, b)
           /\ v = w \/ WordBelow(v, w) \/ WordBelow(w, v)
<1> DEFINE D == (v \ w) \union (w \ v)
<1>1. v \in SUBSET Bits /\ w \in SUBSET Bits /\ Bits \in SUBSET Nat
  BY BitsAssumption DEF Words
<1>2. PICK c \in Nat : Bits \subseteq 0 .. c - 1
  BY <1>1, BitsAssumption, FiniteIsBounded
<1>3. ASSUME v # w PROVE (\E b \in Bits : TopBit(v, w, b)) \/ (\E b \in Bits : TopBit(w, v, b))
  <2>1. D \in SUBSET (0 .. c - 1) /\ D # {}
    BY <1>1, <1>2, <1>3
  <2>2. PICK m \in D : \A n \in D : n <= m
    BY <2>1, GreatestNumber
  <2>3. \A n \in Bits : n > m => n \notin D
    BY <1>1, <2>2
  <2> QED
    BY <1>1, <2>2, <2>3 DEF TopBit
<1>4. ASSUME NEW x \in Words, NEW y \in Words, NEW b \in Bits, TopBit(x, y, b) PROVE WordBelow(x, y)
  <2>1. \A n \in x \ y : n \in Bits /\ n # b /\ ~(n > b)
    BY <1>4 DEF TopBit, Words
  <2>2. \A n \in x \ y : n < b
    BY <1>1, <2>1
  <2> QED
    BY <1>4, <2>2 DEF TopBit, WordBelow
<1>5. ASSUME WordBelow(v, w) PROVE \E b \in Bits : TopBit(v, w, b)
  <2>1. PICK b \in w \ v : \A n \in v \ w : n < b
    BY <1>5 DEF WordBelow
  <2>2. ASSUME NEW a \in Bits, TopBit(w, v, a) PROVE FALSE
    <3>1. a \in v \ w /\ a < b /\ a \in Nat /\ b \in Nat /\ b \in Bits
      BY <1>1, <2>1, <2>2 DEF TopBit
    <3>2. b \in w <=> b \in v
      BY <2>2, <3>1 DEF TopBit
    <3> QED
      BY <2>1, <3>2
  <2>3. v # w
    BY <2>1
  <2> QED
    BY <1>3, <2>2, <2>3
<1> QED
  BY <1>3, <1>4, <1>5

\* This order of words is total,
LEMMA WordOrder ==
    /\ \A v \in Words : ~WordBelow(v, v)
    /\ \A u, v, w \in Words : WordBelow(u, v) /\ WordBelow(v, w) => WordBelow(u, w)
    /\ \A v, w \in Words : v = w \/ WordBelow(v, w) \/ WordBelow(w, v)
<1>1. ASSUME NEW v \in Words PROVE ~WordBelow(v, v)
  BY DEF WordBelow
<1>2. ASSUME NEW u \in Words, NEW v \in Words, NEW w \in Words, WordBelow(u, v), WordBelow(v, w)
      PROVE  WordBelow(u, w)
  <2>1. PICK a \in Bits : TopBit(u, v, a)
    BY <1>2, WordBelowTop
  <2>2. PICK b \in Bits : TopBit(v, w, b)
    BY <1>2, WordBelowTop
  <2>3. a \in Nat /\ b \in Nat /\ \A c \in Bits : c \in Nat
    BY BitsAssumption
  <2>4. a # b
    BY <2>1, <2>2 DEF TopBit
  <2>5. CASE a < b
    <3>1. TopBit(u, w, b)
      BY <2>1, <2>2, <2>3, <2>5 DEF TopBit
    <3> QED
      BY <3>1, WordBelowTop
  <2>6. CASE b < a
    <3>1. TopBit(u, w, a)
      BY <2>1, <2>2, <2>3, <2>6 DEF TopBit
    <3> QED
      BY <3>1, WordBelowTop
  <2> QED
    BY <2>3, <2>4, <2>5, <2>6
<1>3. \A v, w \in Words : v = w \/ WordBelow(v, w) \/ WordBelow(w, v)
  BY WordBelowTop
<1> QED
  BY <1>1, <1>2, <1>3

\* and so is that of keys.
LEMMA KeyOrderTotal ==
    /\ \A k \in Keys : ~KeyBelow(k, k)
    /\ \A k, l, m \in Keys : KeyBelow(k, l) /\ KeyBelow(l, m) => KeyBelow(k, m)
    /\ \A k, l \in Keys : k = l \/ KeyBelow(k, l) \/ KeyBelow(l, k)
<1>1. \A k \in Keys : \A i \in 1 .. KeyLen : k[i] \in Words
  BY DEF Keys
<1>2. ASSUME NEW k \in Keys PROVE ~KeyBelow(k, k)
  BY <1>1, WordOrder DEF KeyBelow
<1>3. ASSUME NEW k \in Keys, NEW l \in Keys, NEW m \in Keys, KeyBelow(k, l), KeyBelow(l, m)
      PROVE  KeyBelow(k, m)
  <2>1. PICK i \in 1 .. KeyLen : (\A n \in 1 .. i - 1 : k[n] = l[n]) /\ WordBelow(k[i], l[i])
    BY <1>3 DEF KeyBelow
  <2>2. PICK j \in 1 .. KeyLen : (\A n \in 1 .. j - 1 : l[n] = m[n]) /\ WordBelow(l[j], m[j])
    BY <1>3 DEF KeyBelow
  <2>3. CASE i < j
    <3>1. l[i] = m[i]
      BY <2>2, <2>3
    <3>2. \A n \in 1 .. i - 1 : k[n] = m[n]
      BY <2>1, <2>2, <2>3
    <3> QED
      BY <2>1, <3>1, <3>2 DEF KeyBelow
  <2>4. CASE j < i
    <3>1. k[j] = l[j]
      BY <2>1, <2>4
    <3>2. \A n \in 1 .. j - 1 : k[n] = m[n]
      BY <2>1, <2>2, <2>4
    <3> QED
      BY <2>2, <3>1, <3>2 DEF KeyBelow
  <2>5. CASE i = j
    <3>1. WordBelow(k[i], m[i])
      BY <1>1, <2>1, <2>2, <2>5, WordOrder
    <3>2. \A n \in 1 .. i - 1 : k[n] = m[n]
      BY <2>1, <2>2, <2>5
    <3> QED
      BY <3>1, <3>2 DEF KeyBelow
  <2> QED
    BY <2>3, <2>4, <2>5
<1>4. ASSUME NEW k \in Keys, NEW l \in Keys, k # l PROVE KeyBelow(k, l) \/ KeyBelow(l, k)
  <2> DEFINE D == { i \in 1 .. KeyLen : k[i] # l[i] }
  <2>1. D # {} /\ D \in SUBSET Nat
    <3>1. k = [i \in 1 .. KeyLen |-> k[i]] /\ l = [i \in 1 .. KeyLen |-> l[i]]
      BY DEF Keys
    <3>2. ~ \A i \in 1 .. KeyLen : k[i] = l[i]
      BY <1>4, <3>1
    <3> QED
      BY <3>2
  <2>2. PICK i \in D : \A j \in D : i <= j
    BY <2>1, LeastNumber
  <2>3. i \in 1 .. KeyLen /\ \A j \in 1 .. i - 1 : j \notin D /\ j \in 1 .. KeyLen
    <3>1. i \in 1 .. KeyLen /\ KeyLen \in Nat
      BY KeyLenAssumption
    <3>2. ASSUME NEW j \in 1 .. i - 1 PROVE j \in 1 .. KeyLen /\ ~(i <= j)
      BY <3>1
    <3> HIDE DEF D
    <3> QED
      BY <2>2, <3>1, <3>2
  <2>4. \A j \in 1 .. i - 1 : k[j] = l[j]
    BY <2>3
  <2>5. WordBelow(k[i], l[i]) \/ WordBelow(l[i], k[i])
    BY <1>1, <2>2, WordOrder
  <2> QED
    BY <2>3, <2>4, <2>5 DEF KeyBelow
<1> QED
  BY <1>2, <1>3, <1>4

-----------------------------------------------------------------------------
(***************************************************************************)
(* The search of a leaf.                                                   *)
(***************************************************************************)
LEMMA MasksAreKeys ==
    /\ nullMask \in Keys
    /\ \A key \in Keys : Masked(key, nullMask) = key
    /\ \A key, mask \in Keys : /\ Masked(key, mask) \in Keys
                               /\ LowerBound(key, mask) \in Keys
                               /\ UpperBound(key, mask) \in Keys
<1>1. \A key \in Keys : \A i \in 1 .. KeyLen : key[i] \subseteq Bits
  BY DEF Keys, Words
<1>2. nullMask \in Keys
  BY DEF nullMask, Keys, Words
<1>3. ASSUME NEW key \in Keys, NEW mask \in Keys
      PROVE  Masked(key, mask) \in Keys /\ UpperBound(key, mask) \in Keys
  BY <1>1 DEF Masked, UpperBound, Keys, Words
<1>4. ASSUME NEW key \in Keys PROVE Masked(key, nullMask) = key
  <2>1. \A i \in 1 .. KeyLen : key[i] \cap Bits = key[i]
    BY <1>1
  <2>2. Masked(key, nullMask) = [i \in 1 .. KeyLen |-> key[i] \cap Bits]
    BY DEF Masked, nullMask
  <2>3. key = [i \in 1 .. KeyLen |-> key[i]]
    BY DEF Keys
  <2> QED
    BY <2>1, <2>2, <2>3
<1> QED
  BY <1>2, <1>3, <1>4 DEF LowerBound

\* The sign of a comparison tells the order of the masked keys;
LEMMA CheckSigns ==
    ASSUME NEW pair \in Keys, NEW key \in Keys, NEW mask \in Keys
    PROVE  LET c == pkvPairMaskKeyCheck(pair, key, mask)
           IN  /\ c \in {-1, 0, 1}
               /\ c = 0 <=> Masked(pair, mask) = Masked(key, mask)
               /\ c < 0 <=> KeyBelow(Masked(key, mask), Masked(pair, mask))
               /\ c > 0 <=> KeyBelow(Masked(pair, mask), Masked(key, mask))
<1> DEFINE p == Masked(pair, mask)
           q == Masked(key, mask)
           c == pkvPairMaskKeyCheck(pair, key, mask)
<1>1. p \in Keys /\ q \in Keys
  BY MasksAreKeys
<1>2. c = CASE p = q -> 0 [] KeyBelow(q, p) -> -1 [] KeyBelow(p, q) -> 1
  BY DEF pkvPairMaskKeyCheck
<1> HIDE DEF p, q, c
<1>3. /\ p = q => ~KeyBelow(p, q) /\ ~KeyBelow(q, p)
      /\ ~(KeyBelow(p, q) /\ KeyBelow(q, p))
      /\ p = q \/ KeyBelow(p, q) \/ KeyBelow(q, p)
  BY <1>1, KeyOrderTotal
<1>4. CASE p = q
  <2>1. c = 0
    BY <1>2, <1>3, <1>4
  <2> QED
    BY <1>3, <1>4, <2>1 DEF p, q, c
<1>5. CASE KeyBelow(q, p)
  <2>1. c = -1
    BY <1>2, <1>3, <1>5
  <2> QED
    BY <1>3, <1>5, <2>1 DEF p, q, c
<1>6. CASE KeyBelow(p, q)
  <2>1. c = 1
    BY <1>2, <1>3, <1>6
  <2> QED
    BY <1>3, <1>6, <2>1 DEF p, q, c
<1> QED
  BY <1>3, <1>4, <1>5, <1>6

\* so does that of the comparison with an item of a leaf.
LEMMA CheckItemSigns ==
    ASSUME NEW d \in Seq(Keys), NEW i \in 0 .. Len(d) - 1, NEW bound \in Keys
    PROVE  LET c == CheckItem(d, i, bound)
           IN  /\ c \in {-1, 0, 1}
               /\ c = 0 <=> d[i + 1] = bound
               /\ c < 0 <=> KeyBelow(bound, d[i + 1])
               /\ c > 0 <=> KeyBelow(d[i + 1], bound)
<1>1. d[i + 1] \in Keys
  <2>1. i + 1 \in 1 .. Len(d)
    OBVIOUS
  <2> QED
    BY <2>1, ElementOfSeq
<1>2. /\ nullMask \in Keys
      /\ Masked(d[i + 1], nullMask) = d[i + 1] /\ Masked(bound, nullMask) = bound
  BY <1>1, MasksAreKeys
<1>3. CheckItem(d, i, bound) = pkvPairMaskKeyCheck(d[i + 1], bound, nullMask)
  BY DEF CheckItem, Item
<1> QED
  BY <1>1, <1>2, <1>3, CheckSigns

\* Where all keys are the bound, the loop ends at the first pair.
LEMMA BisectOfEqual ==
    ASSUME NEW d \in PairSeqs, NEW bound \in Keys, \A i \in 1 .. Len(d) : d[i] = bound
    PROVE  Bisect(d, bound) = 0
<1> DEFINE n == Len(d)
           Rounds(f) == [r \in 0 .. n |-> IF r = 0 THEN <<0, n>> ELSE Round(d, bound, f[r - 1])]
           after == CHOOSE f : f = Rounds(f)
<1>1. Bisect(d, bound) = after[n][2]
  BY DEF Bisect
<1>2. d \in Seq(Keys) /\ n \in Nat
  BY DEF PairSeqs
<1>3. ASSUME NEW l \in 0 .. n PROVE Round(d, bound, <<0, l>>) = <<0, l \div 2>>
  <2>1. 0 + (l - 0) \div 2 = l \div 2
    OBVIOUS
  <2>2. CASE l = 0
    <3>1. Round(d, bound, <<0, l>>) = <<0, l>> /\ l \div 2 = l
      BY <2>2 DEF Round
    <3> QED
      BY <3>1
  <2>3. CASE l # 0
    <3>1. l \div 2 \in 0 .. n - 1 /\ l \in Nat /\ ~(0 >= l)
      BY <1>2, <2>3
    <3>2. d[l \div 2 + 1] = bound
      BY <1>2, <3>1
    <3>3. CheckItem(d, l \div 2, bound) <= 0
      BY <1>2, <3>1, <3>2, CheckItemSigns
    <3> HIDE DEF n
    <3> QED
      BY <2>1, <3>1, <3>3 DEF Round
  <2> QED
    BY <2>2, <2>3
<1> HIDE DEF n
<1>4. \E f : f = Rounds(f)
  <2> DEFINE S == { <<0, l>> : l \in 0 .. n }
             F == [kx \in Nat \X S |-> <<0, kx[2][2] \div 2>>]
  <2>1. \A l \in 0 .. n : l \div 2 \in 0 .. n
    BY <1>2
  <2>2. F \in [Nat \X S -> S]
    <3>1. ASSUME NEW kx \in Nat \X S PROVE <<0, kx[2][2] \div 2>> \in S
      <4>1. PICK l \in 0 .. n : kx[2] = <<0, l>>
        OBVIOUS
      <4> QED
        BY <2>1, <4>1
    <3> QED
      BY <3>1
  <2>3. <<0, n>> \in S
    BY <1>2
  <2>4. \A k \in Nat, l \in 0 .. n : F[<<k, <<0, l>>>>] = <<0, l \div 2>>
    OBVIOUS
  <2>5. \A x \in S : \E l \in 0 .. n : x = <<0, l>>
    OBVIOUS
  <2> HIDE DEF S, F
  <2>6. PICK g \in [0 .. n -> S] : Iterates(F, <<0, n>>, n, g)
    BY <1>2, <2>2, <2>3, IteratesExist
  <2>7. ASSUME NEW r \in 0 .. n, r # 0 PROVE g[r] = Round(d, bound, g[r - 1])
    <3>1. r - 1 \in 0 .. n - 1 /\ r - 1 \in 0 .. n /\ r - 1 \in Nat /\ (r - 1) + 1 = r
      BY <1>2, <2>7
    <3>2. PICK l \in 0 .. n : g[r - 1] = <<0, l>>
      BY <2>5, <2>6, <3>1
    <3>3. g[r] = F[<<r - 1, g[r - 1]>>]
      BY <2>6, <3>1 DEF Iterates
    <3> QED
      BY <1>3, <2>4, <3>1, <3>2, <3>3
  <2>8. g[0] = <<0, n>>
    BY <2>6 DEF Iterates
  <2>9. g = Rounds(g)
    BY <2>6, <2>7, <2>8
  <2> QED
    BY <2>9
<1>5. after = Rounds(after)
  BY <1>4
<1> HIDE DEF after
<1> DEFINE T == { r \in Nat : r <= n => \E l \in 0 .. n - r : after[r] = <<0, l>> }
<1>6. 0 \in T
  BY <1>2, <1>5
<1>7. ASSUME NEW r \in Nat, r \in T PROVE r + 1 \in T
  <2>1. CASE r + 1 <= n
    <3>1. PICK l \in 0 .. n - r : after[r] = <<0, l>>
      BY <1>2, <1>7, <2>1
    <3>2. r + 1 \in 0 .. n /\ r + 1 # 0 /\ (r + 1) - 1 = r /\ l \in 0 .. n
      BY <1>2, <2>1
    <3>3. after[r + 1] = Round(d, bound, after[r])
      BY <1>5, <3>2
    <3>4. after[r + 1] = <<0, l \div 2>>
      BY <1>3, <3>1, <3>2, <3>3
    <3>5. l \div 2 \in 0 .. n - (r + 1)
      BY <1>2, <2>1
    <3> QED
      BY <3>4, <3>5
  <2>2. CASE ~(r + 1 <= n)
    BY <2>2
  <2> QED
    BY <2>1, <2>2
<1>8. n \in T
  <2> HIDE DEF T
  <2> QED
    BY <1>2, <1>6, <1>7, AllNumbers
<1>9. PICK l \in 0 .. n - n : after[n] = <<0, l>>
  BY <1>2, <1>8
<1>10. l = 0
  BY <1>2
<1> QED
  BY <1>1, <1>9, <1>10

\* The largest key first.
Ordered(d) == \A i, j \in 1 .. Len(d) : i < j => ~KeyBelow(d[i], d[j])

\* Where the bound is between the keys of an ordered leaf, all keys are the bound.
LEMMA BetweenIsEqual ==
    ASSUME NEW d \in PairSeqs, Ordered(d), NEW bound \in Keys,
           ~KeyBelow(bound, d[1]), ~KeyBelow(d[Len(d)], bound)
    PROVE  \A i \in 1 .. Len(d) : d[i] = bound
<1>1. d \in Seq(Keys) /\ Len(d) \in Nat /\ Len(d) # 0
  BY EmptySeq DEF PairSeqs
<1>2. 1 \in 1 .. Len(d) /\ Len(d) \in 1 .. Len(d)
  BY <1>1
<1>3. SUFFICES ASSUME NEW i \in 1 .. Len(d) PROVE d[i] = bound
  OBVIOUS
<1>4. d[1] \in Keys /\ d[Len(d)] \in Keys /\ d[i] \in Keys
  BY <1>1, <1>2, ElementOfSeq
<1>5. d[i] = d[1] \/ ~KeyBelow(d[1], d[i])
  BY <1>2 DEF Ordered
<1>6. d[i] = d[Len(d)] \/ ~KeyBelow(d[i], d[Len(d)])
  BY <1>1, <1>2 DEF Ordered
<1>7. ~KeyBelow(bound, d[i])
  BY <1>4, <1>5, KeyOrderTotal
<1>8. ~KeyBelow(d[i], bound)
  BY <1>4, <1>6, KeyOrderTotal
<1> QED
  BY <1>4, <1>7, <1>8, KeyOrderTotal

\* Where the two searches of an ordered leaf end.
LEMMA SearchEnds ==
    ASSUME NEW d \in PairSeqs, Ordered(d), NEW bound \in Keys
    PROVE  /\ pkvSearchLess(d, bound) = IF KeyBelow(bound, d[1]) THEN 0
                                        ELSE IF KeyBelow(d[Len(d)], bound) THEN Nowhere
                                        ELSE -1
           /\ pkvSearchGreater(d, bound) = IF KeyBelow(bound, d[1]) THEN Nowhere
                                           ELSE IF KeyBelow(d[Len(d)], bound) THEN Len(d)
                                           ELSE 0
<1>1. d \in Seq(Keys) /\ Len(d) \in Nat /\ Len(d) # 0
  BY EmptySeq DEF PairSeqs
<1>2. 0 \in 0 .. Len(d) - 1 /\ Len(d) - 1 \in 0 .. Len(d) - 1 /\ 0 + 1 = 1 /\ (Len(d) - 1) + 1 = Len(d)
  BY <1>1
<1>3. CheckItem(d, 0, bound) < 0 <=> KeyBelow(bound, d[1])
  BY <1>1, <1>2, CheckItemSigns
<1>4. CheckItem(d, Len(d) - 1, bound) > 0 <=> KeyBelow(d[Len(d)], bound)
  BY <1>1, <1>2, CheckItemSigns
<1>5. ~KeyBelow(bound, d[1]) /\ ~KeyBelow(d[Len(d)], bound) => Bisect(d, bound) = 0
  BY BetweenIsEqual, BisectOfEqual
<1>6. 0 - 1 = -1
  OBVIOUS
<1> QED
  BY <1>3, <1>4, <1>5, <1>6 DEF pkvSearchLess, pkvSearchGreater

\* A key that matches is no less than the lower bound.
LEMMA MatchNotBelow ==
    ASSUME NEW p \in Keys, NEW key \in Keys, NEW mask \in Keys, Matches(p, key, mask)
    PROVE  ~KeyBelow(p, LowerBound(key, mask))
<1>1. Masked(p, mask) = Masked(key, mask)
  BY CheckSigns DEF Matches
<1>2. ASSUME NEW i \in 1 .. KeyLen PROVE Masked(key, mask)[i] \subseteq p[i]
  <2>1. Masked(p, mask)[i] = p[i] \cap mask[i]
    BY DEF Masked
  <2> QED
    BY <1>1, <2>1
<1> QED
  BY <1>2 DEF LowerBound, KeyBelow, WordBelow

\* What the search of an ordered leaf can return.
LEMMA SearchLeafGives ==
    ASSUME NEW d \in PairSeqs, Ordered(d), NEW before \in Seq(Keys),
           NEW key \in Keys, NEW mask \in Keys,
           NEW f \in SearchLeaf(d, before, key, mask)
    PROVE  /\ \/ f \in {NoPair, Outside}
              \/ f \in 1 .. Len(before \o d) /\ Matches((before \o d)[f], key, mask)
           /\ f = NoPair => ((\E p \in ToSet(d) : Matches(p, key, mask)) => Overlooks(d, key, mask))
           /\ f = Outside => before = <<>> /\ ToSet(d) = {LowerBound(key, mask)}
<1> DEFINE low == LowerBound(key, mask)
           up == UpperBound(key, mask)
           lbnd == pkvSearchLess(d, low)
           rbnd == pkvSearchGreater(d, up)
           all == before \o d
           n == Len(d)
           o == Len(before)
           scanned == { o + k + 1 : k \in lbnd .. rbnd - 1 }
           places == { p \in scanned \ {Outside} : Matches(all[p], key, mask) }
<1>1. /\ d \in Seq(Keys) /\ n \in Nat /\ n # 0 /\ o \in Nat
      /\ all \in Seq(Keys) /\ Len(all) = o + n
      /\ \A i \in 1 .. o + n : all[i] = IF i <= o THEN before[i] ELSE d[i - o]
  BY EmptySeq, ConcatProperties DEF PairSeqs
<1>2. low \in Keys /\ up \in Keys
  BY MasksAreKeys
<1>3. /\ lbnd = IF KeyBelow(low, d[1]) THEN 0 ELSE IF KeyBelow(d[n], low) THEN Nowhere ELSE -1
      /\ rbnd = IF KeyBelow(up, d[1]) THEN Nowhere ELSE IF KeyBelow(d[n], up) THEN n ELSE 0
  BY <1>2, SearchEnds
<1>4. SearchLeaf(d, before, key, mask) =
        IF Nowhere \in {lbnd, rbnd} THEN {NoPair}
        ELSE {FirstHit(places)} \union (scanned \intersect {Outside})
  BY DEF SearchLeaf
<1>5. lbnd # Nowhere /\ rbnd # Nowhere => lbnd \in {-1, 0} /\ rbnd \in {0, n}
  BY <1>3
<1> HIDE DEF low, up, lbnd, rbnd, all, n, o
<1>6. ASSUME lbnd # Nowhere, rbnd # Nowhere
      PROVE  scanned \subseteq 0 .. o + n
  <2>1. ASSUME NEW k \in lbnd .. rbnd - 1 PROVE o + k + 1 \in 0 .. o + n
    <3>1. lbnd \in {-1, 0} /\ rbnd \in {0, n}
      BY <1>5, <1>6
    <3> QED
      BY <1>1, <3>1
  <2> QED
    BY <2>1
<1>7. ASSUME lbnd # Nowhere, rbnd # Nowhere
      PROVE  (FirstHit(places) = NoPair /\ places = {}) \/ FirstHit(places) \in places
  <2>1. CASE places = {}
    BY <2>1 DEF FirstHit
  <2>2. CASE places # {}
    <3>1. places \in SUBSET Nat
      <4>1. 0 .. o + n \in SUBSET Nat
        BY <1>1
      <4> QED
        BY <1>6, <1>7, <4>1
    <3> HIDE DEF places
    <3>2. \E p \in places : \A q \in places : p <= q
      BY <2>2, <3>1, LeastNumber
    <3> QED
      BY <2>2, <3>2 DEF FirstHit
  <2> QED
    BY <2>1, <2>2
<1>8. ASSUME Nowhere \notin {lbnd, rbnd}, f \in places
      PROVE  f \in 1 .. Len(all) /\ Matches(all[f], key, mask)
  <2>1. f \in 0 .. o + n /\ f # Outside /\ Matches(all[f], key, mask)
    BY <1>6, <1>8
  <2> QED
    BY <1>1, <2>1 DEF Outside
<1>9. \/ f \in {NoPair, Outside}
      \/ f \in 1 .. Len(all) /\ Matches(all[f], key, mask)
  <2>1. CASE Nowhere \in {lbnd, rbnd}
    BY <1>4, <2>1
  <2>2. CASE Nowhere \notin {lbnd, rbnd}
    BY <1>4, <1>7, <1>8, <2>2
  <2> QED
    BY <2>1, <2>2
<1>10. ASSUME f = NoPair, NEW p \in ToSet(d), Matches(p, key, mask), ~Overlooks(d, key, mask)
       PROVE  FALSE
  <2>1. PICK j \in 1 .. n : p = d[j]
    BY <1>1, <1>10 DEF ToSet, n
  <2>2. /\ ~(d[1] = low /\ d[n] # d[1]) /\ ~KeyBelow(up, d[1]) /\ KeyBelow(d[n], up)
    BY <1>10 DEF Overlooks, low, up, n
  <2>3. rbnd = n /\ rbnd # Nowhere
    BY <1>1, <1>3, <2>2 DEF Nowhere
  <2>4. p \in Keys /\ d[1] \in Keys /\ d[n] \in Keys /\ 1 \in 1 .. n
    BY <1>1, <2>1, ElementOfSeq DEF n
  <2>5. ~KeyBelow(p, low)
    BY <1>10, <2>4, MatchNotBelow DEF low
  <2>6. p = d[1] \/ ~KeyBelow(d[1], p)
    BY <2>1, <2>4 DEF Ordered, n
  <2>7. KeyBelow(low, d[1]) \/ (low = d[1] /\ d[n] = low)
    BY <1>2, <2>2, <2>4, <2>5, <2>6, KeyOrderTotal
  <2>8. lbnd \in {-1, 0} /\ lbnd # Nowhere
    BY <1>2, <1>3, <2>7, KeyOrderTotal DEF Nowhere
  <2>9. j - 1 \in lbnd .. rbnd - 1 /\ o + (j - 1) + 1 = o + j /\ o + j \in 1 .. o + n /\ ~(o + j <= o)
    BY <1>1, <2>1, <2>3, <2>8
  <2>10. o + j \in scanned
    BY <2>9
  <2>11. all[o + j] = p
    <3>1. (o + j) - o = j
      BY <1>1, <2>1
    <3> QED
      BY <1>1, <2>1, <2>9, <3>1
  <2>12. o + j \in places
    BY <1>10, <2>9, <2>10, <2>11 DEF Outside
  <2>13. FirstHit(places) \in places
    BY <1>7, <2>3, <2>8, <2>12
  <2>14. f \in places \/ f = Outside
    BY <1>4, <2>3, <2>8, <2>13
  <2>15. f # NoPair
    BY <1>8, <2>3, <2>8, <2>14 DEF NoPair, Outside
  <2> QED
    BY <1>10, <2>15
<1>11. ASSUME f = Outside PROVE before = <<>> /\ ToSet(d) = {low}
  <2>1. Nowhere \notin {lbnd, rbnd}
    BY <1>4, <1>11 DEF NoPair, Outside
  <2>2. Outside \in scanned
    <3>1. f \notin places
      BY <1>11
    <3>2. f = FirstHit(places) \/ f \in scanned
      BY <1>4, <2>1
    <3>3. f # NoPair
      BY <1>11 DEF NoPair, Outside
    <3> QED
      BY <1>7, <1>11, <2>1, <3>1, <3>2, <3>3
  <2>3. PICK k \in lbnd .. rbnd - 1 : 0 = o + k + 1
    BY <2>2 DEF Outside
  <2>4. o = 0 /\ lbnd = -1
    BY <1>1, <1>5, <2>1, <2>3
  <2>5. ~KeyBelow(low, d[1]) /\ ~KeyBelow(d[n], low)
    BY <1>3, <2>1, <2>4
  <2>6. \A i \in 1 .. n : d[i] = low
    BY <1>2, <2>5, BetweenIsEqual DEF n
  <2>7. DOMAIN d = 1 .. n /\ 1 \in 1 .. n
    BY <1>1 DEF n
  <2>8. ToSet(d) = {low}
    BY <2>6, <2>7 DEF ToSet
  <2>9. before = <<>>
    BY <2>4, EmptySeq DEF o
  <2> QED
    BY <2>8, <2>9
<1> QED
  BY <1>9, <1>10, <1>11 DEF all, low

\* A scan never begins behind its end.
LEMMA ScanEnds ==
    ASSUME NEW d \in PairSeqs, Ordered(d), NEW key \in Keys, NEW mask \in Keys
    PROVE  ScanMeetsItsEnd(d, key, mask)
<1> DEFINE low == LowerBound(key, mask)
           up == UpperBound(key, mask)
<1>1. d \in Seq(Keys) /\ Len(d) \in Nat
  BY DEF PairSeqs
<1>2. low \in Keys /\ up \in Keys
  BY MasksAreKeys
<1>3. pkvSearchLess(d, low) \in {-1, 0, Nowhere} /\ pkvSearchGreater(d, up) \in {0, Len(d), Nowhere}
  BY <1>2, SearchEnds
<1>4. \A l \in {-1, 0}, r \in {0, Len(d)} : l <= r
  BY <1>1
<1> QED
  BY <1>3, <1>4 DEF ScanMeetsItsEnd

-----------------------------------------------------------------------------
(***************************************************************************)
(* The search of a tree: the child it leaves out has no match.             *)
(***************************************************************************)
\* The bits of a word that matches.
LEMMA MatchingBits ==
    ASSUME NEW p \in Keys, NEW key \in Keys, NEW mask \in Keys, Matches(p, key, mask),
           NEW i \in 1 .. KeyLen
    PROVE  /\ Low(key[i], mask[i]) \in Nat /\ High(key[i], mask[i]) \in Nat
           /\ bkbits16(p[i]) \in Nat
           /\ Low(key[i], mask[i]) <= bkbits16(p[i])
           /\ bkbits16(p[i]) <= High(key[i], mask[i])
<1> DEFINE m == mask[i]
           w == p[i]
           k == key[i]
<1>1. w \cap m = k \cap m
  <2>1. Masked(p, mask) = Masked(key, mask)
    BY CheckSigns DEF Matches
  <2>2. Masked(p, mask)[i] = w \cap m /\ Masked(key, mask)[i] = k \cap m
    BY DEF Masked
  <2> QED
    BY <2>1, <2>2
<1>2. /\ w \in SUBSET Bits /\ IsFiniteSet(Bits)
      /\ w \cap m \in Words /\ w \ m \in Words /\ Bits \ m \in Words /\ w \in Words
  BY BitsAssumption DEF Keys, Words
<1>3. /\ IsFiniteSet(w) /\ Cardinality(w) \in Nat
      /\ Cardinality(w \cap m) \in Nat /\ Cardinality(w \ m) \in Nat
      /\ IsFiniteSet(Bits \ m) /\ Cardinality(Bits \ m) \in Nat
  BY <1>2, BitCounts DEF bkbits16
<1>4. Low(key[i], mask[i]) = Cardinality(w \cap m)
  BY <1>1 DEF Low, bkbits16
<1>5. High(key[i], mask[i]) = Cardinality(w \cap m) + Cardinality(Bits \ m)
  BY <1>4 DEF High, bkbits16
<1>6. bkbits16(p[i]) = Cardinality(w)
  BY DEF bkbits16
<1> HIDE DEF m, w, k
<1>7. Cardinality(w \ m) = Cardinality(w) - Cardinality(w \cap m)
  BY <1>3, FS_Difference
<1>8. Cardinality(w \ m) <= Cardinality(Bits \ m)
  <2>1. w \ m \in SUBSET (Bits \ m)
    BY <1>2
  <2> QED
    BY <1>3, <2>1, FS_Subset
<1> QED
  BY <1>3, <1>4, <1>5, <1>6, <1>7, <1>8

\* The leaves of a tree are parts of its array, which has pairs.
LEMMA LeavesInData ==
    \A k \in 0 .. KeyLen : \A b \in Trees[k] :
       /\ Leaves(b) # {}
       /\ \A d \in Leaves(b) : d \in Seq(Keys) /\ ToSet(d) \subseteq ToSet(Data(b))
<1> DEFINE P(b) == /\ Leaves(b) # {}
                   /\ \A d \in Leaves(b) : d \in Seq(Keys) /\ ToSet(d) \subseteq ToSet(Data(b))
           T == { k \in 0 .. KeyLen : \A b \in Trees[k] : P(b) }
<1>1. 0 \in T
  <2>1. ASSUME NEW b \in Trees[0] PROVE P(b)
    <3>1. b = Leaf(b.data) /\ b.data \in Seq(Keys)
      BY BranchKinds
    <3>2. Leaves(b) = {b.data} /\ Data(b) = b.data
      BY <3>1, OfLeaf
    <3> QED
      BY <3>1, <3>2
  <2> HIDE DEF P
  <2> QED
    BY <2>1, KeyLenAssumption
<1>2. ASSUME NEW k \in 1 .. KeyLen, k - 1 \in T PROVE k \in T
  <2>1. k - 1 \in 0 .. KeyLen
    BY KeyLenAssumption
  <2>2. ASSUME NEW b \in Trees[k] PROVE P(b)
    <3>1. CASE b \in Trees[k - 1]
      BY <1>2, <3>1
    <3>2. CASE /\ b = Split(k, b.split, b.child[1], b.child[2])
               /\ b.split \in Nat
               /\ b.child[1] \in Trees[k - 1] /\ b.child[2] \in Trees[k - 1]
      <4> DEFINE l == b.child[1]
                 r == b.child[2]
      <4>1. /\ Data(b) = Data(l) \o Data(r)
            /\ Leaves(b) = Leaves(l) \union Leaves(r)
        BY <3>2, OfSplit
      <4>2. Data(l) \in Seq(Keys) /\ Data(r) \in Seq(Keys) /\ P(l) /\ P(r)
        BY <1>2, <2>1, <3>2, TreeTypes
      <4> HIDE DEF l, r
      <4>3. ToSet(Data(b)) = ToSet(Data(l)) \union ToSet(Data(r))
        <5>1. \A s : ToSet(s) = Range(s)
          BY DEF ToSet, Range
        <5>2. Range(Data(l) \o Data(r)) = Range(Data(l)) \union Range(Data(r))
          BY <4>2, RangeConcatenation
        <5> QED
          BY <4>1, <5>1, <5>2
      <4> QED
        BY <4>1, <4>2, <4>3
    <3> QED
      BY <3>1, <3>2, BranchKinds
  <2> HIDE DEF P
  <2> QED
    BY <2>2
<1> HIDE DEF T
<1>3. \A k \in 0 .. KeyLen : k \in T
  BY <1>1, <1>2, AllLevels
<1> QED
  BY <1>3 DEF T

\* One level of the recursion.
LEMMA SearchAt ==
    /\ \A b \in Trees[0], before \in Seq(Keys), key \in Keys, mask \in Keys :
         pkvSearchBranch16[0][b][before][key][mask] = SearchLeaf(b.data, before, key, mask)
    /\ \A k \in 1 .. KeyLen : \A b \in Trees[k], before \in Seq(Keys), key \in Keys, mask \in Keys :
         pkvSearchBranch16[k][b][before][key][mask] =
           IF b.level < k THEN pkvSearchBranch16[k - 1][b][before][key][mask]
           ELSE Choose(b, key, mask,
                       pkvSearchBranch16[k - 1][b.child[1]][before][key][mask],
                       pkvSearchBranch16[k - 1][b.child[2]][before \o Data(b.child[1])][key][mask])
<1>1. \A k \in 0 .. KeyLen : pkvSearchBranch16[k] = SearchStep(k, pkvSearchBranch16[k - 1])
  BY SearchByLevel
<1>2. ASSUME NEW b \in Trees[0], NEW before \in Seq(Keys), NEW key \in Keys, NEW mask \in Keys
      PROVE  pkvSearchBranch16[0][b][before][key][mask] = SearchLeaf(b.data, before, key, mask)
  <2>1. pkvSearchBranch16[0] = SearchStep(0, pkvSearchBranch16[0 - 1])
    BY <1>1, KeyLenAssumption
  <2> QED
    BY <2>1 DEF SearchStep
<1>3. ASSUME NEW k \in 1 .. KeyLen, NEW b \in Trees[k],
             NEW before \in Seq(Keys), NEW key \in Keys, NEW mask \in Keys
      PROVE  pkvSearchBranch16[k][b][before][key][mask] =
               IF b.level < k THEN pkvSearchBranch16[k - 1][b][before][key][mask]
               ELSE Choose(b, key, mask,
                           pkvSearchBranch16[k - 1][b.child[1]][before][key][mask],
                           pkvSearchBranch16[k - 1][b.child[2]][before \o Data(b.child[1])][key][mask])
  <2> DEFINE f == pkvSearchBranch16[k - 1]
             Of(bb, be, q, m) ==
               IF k = 0 THEN SearchLeaf(bb.data, be, q, m)
               ELSE IF bb.level < k THEN f[bb][be][q][m]
               ELSE Choose(bb, q, m, f[bb.child[1]][be][q][m],
                           f[bb.child[2]][be \o Data(bb.child[1])][q][m])
  <2>1. pkvSearchBranch16[k] = SearchStep(k, f) /\ k # 0
    BY <1>1
  <2>2. SearchStep(k, f) =
          [bb \in Trees[k] |-> [be \in Seq(Keys) |-> [q \in Keys |-> [m \in Keys |-> Of(bb, be, q, m)]]]]
    BY DEF SearchStep
  <2> HIDE DEF Of
  <2>3. pkvSearchBranch16[k][b][before][key][mask] = Of(b, before, key, mask)
    BY <2>1, <2>2
  <2> QED
    BY <2>1, <2>3 DEF Of
<1> QED
  BY <1>2, <1>3

\* What a search of the tree b can return.
HasNoMatch(b, key, mask) ==
    \A s \in Leaves(b) : (\E p \in ToSet(s) : Matches(p, key, mask)) => Overlooks(s, key, mask)

BeginsWithBound(b, key, mask) ==
    \E s \in Leaves(b), rest \in Seq(Keys) :
       s \in Seq(Keys) /\ Data(b) = s \o rest /\ ToSet(s) = {LowerBound(key, mask)}

Answer(b, before, key, mask, f) ==
    /\ \/ f \in {NoPair, Outside}
       \/ /\ f \in 1 .. Len(before \o Data(b))
          /\ Matches((before \o Data(b))[f], key, mask)
    /\ f = NoPair => HasNoMatch(b, key, mask)
    /\ f = Outside => before = <<>> /\ BeginsWithBound(b, key, mask)

\* What a search uses of a branch b with the children l and r.
Joins(b, l, r) ==
    /\ Data(l) \in Seq(Keys) /\ Data(r) \in Seq(Keys)
    /\ Data(b) = Data(l) \o Data(r)
    /\ Leaves(b) = Leaves(l) \union Leaves(r)
    /\ Splits(b) = {b} \union Splits(l) \union Splits(r)
    /\ b.child[1] = l /\ b.child[2] = r

\* A branch joins what its children hold.
LEMMA SplitJoins ==
    \A k \in 1 .. KeyLen : \A b \in Trees[k] :
       \/ b \in Trees[k - 1] /\ b.level < k
       \/ /\ b.level = k /\ b.split \in Nat
          /\ b.child[1] \in Trees[k - 1] /\ b.child[2] \in Trees[k - 1]
          /\ Joins(b, b.child[1], b.child[2])
<1> SUFFICES ASSUME NEW k \in 1 .. KeyLen, NEW b \in Trees[k]
             PROVE  \/ b \in Trees[k - 1] /\ b.level < k
                    \/ /\ b.level = k /\ b.split \in Nat
                       /\ b.child[1] \in Trees[k - 1] /\ b.child[2] \in Trees[k - 1]
                       /\ Joins(b, b.child[1], b.child[2])
  OBVIOUS
<1>1. k - 1 \in 0 .. KeyLen
  BY KeyLenAssumption
<1>2. CASE /\ b = Split(k, b.split, b.child[1], b.child[2])
           /\ b.level = k /\ b.split \in Nat
           /\ b.child[1] \in Trees[k - 1] /\ b.child[2] \in Trees[k - 1]
  <2>1. /\ Data(b) = Data(b.child[1]) \o Data(b.child[2])
        /\ Leaves(b) = Leaves(b.child[1]) \union Leaves(b.child[2])
        /\ Splits(b) = {b} \union Splits(b.child[1]) \union Splits(b.child[2])
    BY <1>2, OfSplit, SMTT(30)
  <2>2. Data(b.child[1]) \in Seq(Keys) /\ Data(b.child[2]) \in Seq(Keys)
    BY <1>1, <1>2, TreeTypes
  <2> QED
    BY <1>2, <2>1, <2>2 DEF Joins
<1> QED
  BY <1>2, BranchKinds

\* An answer from the left child.
LEMMA LeftAnswers ==
    ASSUME NEW b, NEW l, NEW r, Joins(b, l, r),
           NEW before \in Seq(Keys), NEW key \in Keys, NEW mask \in Keys,
           NEW f, f # NoPair, Answer(l, before, key, mask, f)
    PROVE  Answer(b, before, key, mask, f)
<1>1. Data(b) = Data(l) \o Data(r) /\ Leaves(b) = Leaves(l) \union Leaves(r)
  BY DEF Joins
<1>2. Data(l) \in Seq(Keys) /\ Data(r) \in Seq(Keys)
  BY DEF Joins
<1>3. before \o Data(b) = (before \o Data(l)) \o Data(r)
  BY <1>1, <1>2, ConcatAssociative
<1>4. ASSUME f \in 1 .. Len(before \o Data(l)), Matches((before \o Data(l))[f], key, mask)
      PROVE  f \in 1 .. Len(before \o Data(b)) /\ Matches((before \o Data(b))[f], key, mask)
  <2> DEFINE part == before \o Data(l)
  <2>1. part \in Seq(Keys)
    BY <1>2, ConcatProperties
  <2> HIDE DEF part
  <2>2. /\ Len(part \o Data(r)) = Len(part) + Len(Data(r))
        /\ \A i \in 1 .. Len(part) + Len(Data(r)) :
             (part \o Data(r))[i] = IF i <= Len(part) THEN part[i] ELSE Data(r)[i - Len(part)]
    BY <1>2, <2>1, ConcatProperties
  <2>3. Len(part) \in Nat /\ Len(Data(r)) \in Nat /\ f \in 1 .. Len(part)
    BY <1>2, <1>4, <2>1 DEF part
  <2>4. f \in 1 .. Len(part) + Len(Data(r)) /\ f <= Len(part)
    BY <2>3
  <2>5. (part \o Data(r))[f] = part[f]
    BY <2>2, <2>4
  <2>6. before \o Data(b) = part \o Data(r)
    BY <1>3 DEF part
  <2> QED
    BY <1>4, <2>2, <2>4, <2>5, <2>6 DEF part
<1>5. ASSUME f = Outside PROVE before = <<>> /\ BeginsWithBound(b, key, mask)
  <2>1. before = <<>> /\ BeginsWithBound(l, key, mask)
    BY <1>5 DEF Answer
  <2>2. PICK s \in Leaves(l), rest \in Seq(Keys) :
               s \in Seq(Keys) /\ Data(l) = s \o rest /\ ToSet(s) = {LowerBound(key, mask)}
    BY <2>1 DEF BeginsWithBound
  <2>3. Data(b) = s \o (rest \o Data(r))
    <3>1. (s \o rest) \o Data(r) = s \o (rest \o Data(r))
      BY <1>2, <2>2, ConcatAssociative, SMTT(30)
    <3> QED
      BY <1>1, <2>2, <3>1
  <2>5. rest \o Data(r) \in Seq(Keys)
    BY <1>2, ConcatProperties
  <2>4. s \in Leaves(b)
    BY <1>1, <2>2
  <2> QED
    BY <2>1, <2>2, <2>3, <2>4, <2>5 DEF BeginsWithBound
<1> QED
  BY <1>4, <1>5 DEF Answer

\* An answer from the right child, which does not begin the array.
LEMMA RightAnswers ==
    ASSUME NEW k \in 0 .. KeyLen, NEW l \in Trees[k], LeavesOrdered(l),
           NEW b, NEW r, Joins(b, l, r),
           NEW before \in Seq(Keys), NEW key \in Keys, NEW mask \in Keys,
           NEW f, f # NoPair, Answer(r, before \o Data(l), key, mask, f)
    PROVE  Answer(b, before, key, mask, f)
<1>1. Data(b) = Data(l) \o Data(r)
  BY DEF Joins
<1>2. Data(l) \in Seq(Keys) /\ Data(r) \in Seq(Keys)
  BY DEF Joins
<1>3. before \o Data(b) = (before \o Data(l)) \o Data(r)
  BY <1>1, <1>2, ConcatAssociative, SMTT(30)
<1>4. before \o Data(l) # <<>>
  <2>1. PICK d \in Leaves(l) : d \in Seq(Keys) /\ ToSet(d) \subseteq ToSet(Data(l))
    BY LeavesInData
  <2>2. Len(d) \in Nat \ {0}
    BY <2>1, EmptySeq DEF LeavesOrdered
  <2>3. d[1] \in ToSet(Data(l))
    BY <2>1, <2>2, SMTT(30) DEF ToSet
  <2>4. Data(l) # <<>>
    BY <2>3 DEF ToSet
  <2>5. Len(Data(l)) \in Nat \ {0} /\ Len(before) \in Nat
    BY <1>2, <2>4, EmptySeq
  <2>6. Len(before \o Data(l)) # 0
    BY <1>2, <2>5, ConcatProperties
  <2> QED
    BY <2>6, EmptySeq
<1>5. f # Outside
  BY <1>4 DEF Answer
<1> QED
  BY <1>3, <1>5 DEF Answer

\* The child that the search leaves out has no match.
LEMMA SkippedChild ==
    ASSUME NEW k \in 0 .. KeyLen, NEW l \in Trees[k], NEW r \in Trees[k],
           NEW b, Joins(b, l, r), b.level \in 1 .. KeyLen, b.split \in Nat, SplitsDivide(b),
           NEW key \in Keys, NEW mask \in Keys
    PROVE  /\ High(key[b.level], mask[b.level]) < b.split => HasNoMatch(r, key, mask)
           /\ Low(key[b.level], mask[b.level]) > b.split => HasNoMatch(l, key, mask)
<1>1. b \in Splits(b) /\ b.child[1] = l /\ b.child[2] = r
  BY DEF Joins
<1>2. /\ \A p \in ToSet(Data(l)) : bkbits16(p[b.level]) <= b.split
      /\ \A p \in ToSet(Data(r)) : bkbits16(p[b.level]) >= b.split
  BY <1>1 DEF SplitsDivide
<1>3. /\ \A d \in Leaves(l) : d \in Seq(Keys) /\ ToSet(d) \subseteq ToSet(Data(l))
      /\ \A d \in Leaves(r) : d \in Seq(Keys) /\ ToSet(d) \subseteq ToSet(Data(r))
  BY LeavesInData
<1>4. \A d \in Seq(Keys) : ToSet(d) \subseteq Keys
  BY ElementOfSeq DEF ToSet
<1>5. b.split \in Nat
  OBVIOUS
<1>6. ASSUME High(key[b.level], mask[b.level]) < b.split, NEW s \in Leaves(r), NEW p \in ToSet(s), Matches(p, key, mask)
      PROVE  FALSE
  <2>1. p \in Keys /\ bkbits16(p[b.level]) >= b.split
    BY <1>2, <1>3, <1>4
  <2>2. /\ High(key[b.level], mask[b.level]) \in Nat /\ bkbits16(p[b.level]) \in Nat
        /\ bkbits16(p[b.level]) <= High(key[b.level], mask[b.level])
    BY <1>6, <2>1, MatchingBits
  <2>3. High(key[b.level], mask[b.level]) < b.split
    BY <1>6
  <2> QED
    BY ONLY <1>5, <2>1, <2>2, <2>3
<1>7. ASSUME Low(key[b.level], mask[b.level]) > b.split, NEW s \in Leaves(l), NEW p \in ToSet(s), Matches(p, key, mask)
      PROVE  FALSE
  <2>1. p \in Keys /\ bkbits16(p[b.level]) <= b.split
    BY <1>2, <1>3, <1>4
  <2>2. /\ Low(key[b.level], mask[b.level]) \in Nat /\ bkbits16(p[b.level]) \in Nat
        /\ Low(key[b.level], mask[b.level]) <= bkbits16(p[b.level])
    BY <1>7, <2>1, MatchingBits
  <2>3. Low(key[b.level], mask[b.level]) > b.split
    BY <1>7
  <2> QED
    BY ONLY <1>5, <2>1, <2>2, <2>3
<1> QED
  BY <1>6, <1>7 DEF HasNoMatch

\* One split: its answers from those of its children.
LEMMA ChooseGives ==
    ASSUME NEW k \in 0 .. KeyLen, NEW l \in Trees[k], NEW r \in Trees[k],
           NEW b, Joins(b, l, r), b.level \in 1 .. KeyLen, b.split \in Nat, SplitsDivide(b),
           LeavesOrdered(l),
           NEW before \in Seq(Keys), NEW key \in Keys, NEW mask \in Keys,
           NEW left, \A g \in left : Answer(l, before, key, mask, g),
           NEW right, \A g \in right : Answer(r, before \o Data(l), key, mask, g),
           NEW f \in Choose(b, key, mask, left, right)
    PROVE  Answer(b, before, key, mask, f)
<1> DEFINE toLeft == High(key[b.level], mask[b.level]) < b.split
           toRight == Low(key[b.level], mask[b.level]) > b.split
<1>1. \/ toLeft /\ f \in left
      \/ toRight /\ f \in right
      \/ f \in left /\ f # NoPair
      \/ NoPair \in left /\ f \in right
  BY DEF Choose
<1>2. ASSUME f \in left, f # NoPair PROVE Answer(b, before, key, mask, f)
  BY <1>2, LeftAnswers
<1>3. ASSUME f \in right, f # NoPair PROVE Answer(b, before, key, mask, f)
  BY <1>3, RightAnswers
<1>4. ASSUME HasNoMatch(l, key, mask), HasNoMatch(r, key, mask), f = NoPair
      PROVE  Answer(b, before, key, mask, f)
  <2>1. HasNoMatch(b, key, mask)
    BY <1>4 DEF HasNoMatch, Joins
  <2> QED
    BY <1>4, <2>1 DEF Answer, NoPair, Outside
<1>5. toLeft => HasNoMatch(r, key, mask)
  BY SkippedChild
<1>6. toRight => HasNoMatch(l, key, mask)
  BY SkippedChild
<1> HIDE DEF toLeft, toRight
<1>7. NoPair \in left => HasNoMatch(l, key, mask)
  BY DEF Answer
<1>8. NoPair \in right => HasNoMatch(r, key, mask)
  BY DEF Answer
<1>9. CASE f # NoPair
  BY <1>1, <1>2, <1>3, <1>9
<1>10. CASE f = NoPair
  BY <1>1, <1>4, <1>5, <1>6, <1>7, <1>8, <1>10
<1> QED
  BY <1>9, <1>10

\* The trees whose searches answer.
Answering(k, b) ==
    LeavesOrdered(b) /\ SplitsDivide(b) =>
      \A before \in Seq(Keys), key \in Keys, mask \in Keys :
        \A f \in pkvSearchBranch16[k][b][before][key][mask] : Answer(b, before, key, mask, f)

\* A search of a leaf answers as it must,
LEMMA LeafAnswers == \A b \in Trees[0] : Answering(0, b)
<1> SUFFICES ASSUME NEW b \in Trees[0], LeavesOrdered(b),
                    NEW before \in Seq(Keys), NEW key \in Keys, NEW mask \in Keys,
                    NEW f \in pkvSearchBranch16[0][b][before][key][mask]
             PROVE  Answer(b, before, key, mask, f)
  BY DEF Answering
<1> DEFINE d == b.data
<1>1. d \in Seq(Keys) /\ b = Leaf(d)
  BY BranchKinds
<1>2. Data(b) = d /\ Leaves(b) = {d}
  BY <1>1, OfLeaf
<1>3. d \in PairSeqs /\ Ordered(d)
  BY <1>2 DEF LeavesOrdered, PairSeqs, Ordered
<1>4. f \in SearchLeaf(d, before, key, mask)
  BY SearchAt
<1> HIDE DEF d
<1>5. /\ \/ f \in {NoPair, Outside}
         \/ f \in 1 .. Len(before \o d) /\ Matches((before \o d)[f], key, mask)
      /\ f = NoPair => ((\E p \in ToSet(d) : Matches(p, key, mask)) => Overlooks(d, key, mask))
      /\ f = Outside => before = <<>> /\ ToSet(d) = {LowerBound(key, mask)}
  BY <1>3, <1>4, SearchLeafGives
<1>6. f = NoPair => HasNoMatch(b, key, mask)
  BY <1>2, <1>5 DEF HasNoMatch
<1>7. d = d \o <<>> /\ <<>> \in Seq(Keys)
  BY <1>1, ConcatEmptySeq, EmptySeq
<1>8. f = Outside => before = <<>> /\ BeginsWithBound(b, key, mask)
  BY <1>1, <1>2, <1>5, <1>7 DEF BeginsWithBound
<1> QED
  BY <1>2, <1>5, <1>6, <1>8 DEF Answer

\* a search of a branch if those of its children do,
LEMMA SplitAnswers ==
    ASSUME NEW k \in 1 .. KeyLen, \A b \in Trees[k - 1] : Answering(k - 1, b)
    PROVE  \A b \in Trees[k] : Answering(k, b)
<1> SUFFICES ASSUME NEW b \in Trees[k], LeavesOrdered(b), SplitsDivide(b),
                    NEW before \in Seq(Keys), NEW key \in Keys, NEW mask \in Keys,
                    NEW f \in pkvSearchBranch16[k][b][before][key][mask]
             PROVE  Answer(b, before, key, mask, f)
  BY DEF Answering
<1> DEFINE l == b.child[1]
           r == b.child[2]
           left == pkvSearchBranch16[k - 1][l][before][key][mask]
           right == pkvSearchBranch16[k - 1][r][before \o Data(l)][key][mask]
<1>1. f \in IF b.level < k THEN pkvSearchBranch16[k - 1][b][before][key][mask]
            ELSE Choose(b, key, mask, left, right)
  <2>1. pkvSearchBranch16[k][b][before][key][mask]
          = IF b.level < k THEN pkvSearchBranch16[k - 1][b][before][key][mask]
            ELSE Choose(b, key, mask, left, right)
    BY SearchAt, Zenon
  <2> QED
    BY <2>1, Zenon
<1>2. CASE b \in Trees[k - 1] /\ b.level < k
  BY <1>1, <1>2 DEF Answering
<1>3. CASE /\ b.level = k /\ b.split \in Nat
           /\ l \in Trees[k - 1] /\ r \in Trees[k - 1]
           /\ Joins(b, l, r)
  <2>1. k - 1 \in 0 .. KeyLen /\ b.level \in 1 .. KeyLen /\ ~(b.level < k)
    BY <1>3, KeyLenAssumption
  <2>2. f \in Choose(b, key, mask, left, right)
    BY <1>1, <2>1
  <2> HIDE DEF l, r
  <2>3. /\ LeavesOrdered(l) /\ SplitsDivide(l)
        /\ LeavesOrdered(r) /\ SplitsDivide(r)
    BY <1>3 DEF Joins, LeavesOrdered, SplitsDivide
  <2>4. Data(l) \in Seq(Keys) /\ before \o Data(l) \in Seq(Keys)
    <3>1. Data(l) \in Seq(Keys)
      BY <1>3 DEF Joins
    <3> QED
      BY <3>1, ConcatProperties
  <2>5. \A g \in left : Answer(l, before, key, mask, g)
    BY <1>3, <2>3 DEF Answering
  <2>6. \A g \in right : Answer(r, before \o Data(l), key, mask, g)
    BY <1>3, <2>3, <2>4 DEF Answering
  <2> HIDE DEF left, right
  <2> QED
    BY <1>3, <2>1, <2>2, <2>3, <2>5, <2>6, ChooseGives
<1> QED
  BY <1>2, <1>3, SplitJoins

\* and so the search of every tree.
LEMMA SearchGives == \A k \in 0 .. KeyLen : \A b \in Trees[k] : Answering(k, b)
<1> DEFINE T == { k \in 0 .. KeyLen : \A b \in Trees[k] : Answering(k, b) }
<1>1. 0 \in T
  BY LeafAnswers, KeyLenAssumption
<1>2. ASSUME NEW k \in 1 .. KeyLen, k - 1 \in T PROVE k \in T
  BY <1>2, SplitAnswers
<1> HIDE DEF T
<1>3. \A k \in 0 .. KeyLen : k \in T
  BY <1>1, <1>2, AllLevels
<1> QED
  BY <1>3 DEF T

\* A search returns a pair that matches, or misses one only in a leaf that
\* overlooks it: the choice of the child by bit counts never misses a pair, no scan
\* begins behind its end, and one begins before the array only where the first leaf
\* holds nothing but the lower bound.
THEOREM SearchTheorem == Spec => []SearchAnswers
<1>1. ASSUME TreeInv, query # <<>> PROVE SearchAnswers
  <2> DEFINE key == query[1]
             mask == query[2]
  <2>1. /\ tree # NoTree /\ query \in Keys \X Keys
        /\ found \in pkvSearchBranch16[KeyLen][tree][<<>>][key][mask]
        /\ tree \in Trees[KeyLen] /\ WellBuilt(tree, pairs)
    BY <1>1 DEF TreeInv
  <2>2. key \in Keys /\ mask \in Keys /\ <<>> \in Seq(Keys) /\ KeyLen \in 0 .. KeyLen
    BY <2>1, EmptySeq, KeyLenAssumption
  <2> HIDE DEF key, mask
  <2>3. LeavesOrdered(tree) /\ SplitsDivide(tree)
    BY <2>1 DEF WellBuilt
  <2>4. Answer(tree, <<>>, key, mask, found)
    BY <2>1, <2>2, <2>3, SearchGives DEF Answering
  <2>5. Data(tree) \in Seq(Keys) /\ <<>> \o Data(tree) = Data(tree)
    BY <2>1, <2>2, TreeTypes, ConcatEmptySeq
  <2>6. ASSUME NEW s \in Leaves(tree) PROVE ScanMeetsItsEnd(s, key, mask)
    <3>1. s \in PairSeqs /\ Ordered(s)
      BY <2>3 DEF LeavesOrdered, PairSeqs, Ordered
    <3> QED
      BY <2>2, <3>1, ScanEnds
  <2>7. found >= 1 => Matches(Data(tree)[found], key, mask)
    BY <2>4, <2>5 DEF Answer, NoPair, Outside
  <2>8. found = NoPair => HasNoMatch(tree, key, mask)
    BY <2>4 DEF Answer
  <2>9. ASSUME found = Outside
        PROVE  \E s \in Leaves(tree) :
                 SubSeq(Data(tree), 1, Len(s)) = s /\ ToSet(s) = {LowerBound(key, mask)}
    <3>1. BeginsWithBound(tree, key, mask)
      BY <2>4, <2>9 DEF Answer
    <3>2. PICK s \in Leaves(tree), rest \in Seq(Keys) :
                 s \in Seq(Keys) /\ Data(tree) = s \o rest /\ ToSet(s) = {LowerBound(key, mask)}
      BY <3>1 DEF BeginsWithBound
    <3>3. SubSeq(s \o rest, 1, Len(s)) = s
      BY <3>2
    <3> QED
      BY <3>2, <3>3
  <2> QED
    BY <2>6, <2>7, <2>8, <2>9 DEF SearchAnswers, HasNoMatch, key, mask
<1>2. TreeInv => SearchAnswers
  BY <1>1 DEF SearchAnswers
<1> QED
  BY <1>2, TreeInvHolds, PTL
=============================================================================
