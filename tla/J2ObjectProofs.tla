---------------------------- MODULE J2ObjectProofs ----------------------------
(***************************************************************************)
(* Proofs about a JSON object through its life, for every set of names and *)
(* values, every hash function and every word width: the walk over the     *)
(* duplicates of a hash, the ownership of values and blocks, an interrupted*)
(* iteration, and that an object is a map.                                 *)
(***************************************************************************)
EXTENDS J2Object, UDictTableProofs

(***************************************************************************)
(* The walk over the pairs with one hash.                                  *)
(***************************************************************************)

\* All others come after the first.
LEMMA LaterThanFirst ==
    ASSUME NEW t, NEW Values, WellFormed(t, Values), t.cap # 0, NEW h \in Keys,
           NEW p \in Holding(t, h), Passed(t, HomeOf(t, h), p) \cap Holding(t, h) = {}
    PROVE  LaterDuplicates(t, p) = Holding(t, h) \ {p}
<1>1. /\ t.cap \in Nat \ {0} /\ HomeOf(t, h) \in Slots(t)
      /\ Holding(t, h) \subseteq Slots(t) /\ t.key[p] = h
  BY DEF WellFormed, HomesFit, TableType, Holding
<1>2. ASSUME NEW s \in Holding(t, h)
      PROVE  Steps(t, HomeOf(t, h), s) > Steps(t, HomeOf(t, h), p) <=> s # p
  <2>1. /\ Steps(t, HomeOf(t, h), s) \in 0 .. t.cap - 1
        /\ Steps(t, HomeOf(t, h), p) \in 0 .. t.cap - 1
        /\ Steps(t, HomeOf(t, h), s) = Steps(t, HomeOf(t, h), p) <=> s = p
    BY <1>1, StepsOrder
  <2>2. ~(Steps(t, HomeOf(t, h), s) < Steps(t, HomeOf(t, h), p))
    BY <1>1 DEF Passed
  <2> QED
    BY <2>1, <2>2
<1> QED
  BY <1>1, <1>2 DEF LaterDuplicates

\* One less comes after the next.
LEMMA LaterThanNext ==
    ASSUME NEW t, NEW Values, WellFormed(t, Values), t.cap # 0, NEW h \in Keys,
           NEW p \in Holding(t, h), LaterDuplicates(t, p) # {}
    PROVE  /\ NextSlot(t, p) \in LaterDuplicates(t, p)
           /\ LaterDuplicates(t, p) \subseteq Holding(t, h)
           /\ LaterDuplicates(t, NextSlot(t, p)) = LaterDuplicates(t, p) \ {NextSlot(t, p)}
<1> DEFINE q == NextSlot(t, p)
           o == HomeOf(t, h)
<1>1. /\ t.cap \in Nat \ {0} /\ o \in Slots(t)
      /\ Holding(t, h) \subseteq Slots(t) /\ t.key[p] = h /\ p \in t.active
  BY DEF WellFormed, HomesFit, TableType, Holding
<1>2. LaterDuplicates(t, p) \subseteq Holding(t, h) /\ q = FirstFrom(t, o, LaterDuplicates(t, p))
  BY <1>1, NextSlotIs
<1>3. /\ q \in LaterDuplicates(t, p)
      /\ \A s \in LaterDuplicates(t, p) : Steps(t, o, q) <= Steps(t, o, s)
  BY <1>1, <1>2, FirstFromIs
<1> HIDE DEF q
<1>4. t.key[q] = h
  BY <1>2, <1>3 DEF Holding
<1>5. \A s \in Holding(t, h) : /\ Steps(t, o, s) \in 0 .. t.cap - 1
                               /\ Steps(t, o, s) = Steps(t, o, q) <=> s = q
  BY <1>1, <1>2, <1>3, StepsOrder
<1>6. \A s \in Holding(t, h) : s \in LaterDuplicates(t, p) <=> Steps(t, o, s) > Steps(t, o, p)
  BY <1>1 DEF LaterDuplicates
<1>7. \A s \in Holding(t, h) : s \in LaterDuplicates(t, q) <=> Steps(t, o, s) > Steps(t, o, q)
  BY <1>4 DEF LaterDuplicates
<1>8. LaterDuplicates(t, q) \subseteq Holding(t, h)
  BY <1>4 DEF LaterDuplicates
<1> HIDE DEF o
<1>9. ASSUME NEW s \in Holding(t, h)
      PROVE  s \in LaterDuplicates(t, q) <=> s \in LaterDuplicates(t, p) /\ s # q
  BY <1>2, <1>3, <1>5, <1>6, <1>7
<1>10. LaterDuplicates(t, q) = LaterDuplicates(t, p) \ {q}
  BY <1>2, <1>8, <1>9
<1> QED
  BY <1>2, <1>3, <1>10 DEF q

\* The items of a walk, as the loops step through them.
Items(t, first, slot) ==
    slot = [i \in Nat |-> IF i = 0 THEN first
                          ELSE IF slot[i - 1] = NoItem THEN NoItem ELSE NextSlot(t, slot[i - 1])]

\* There is such a function of the items.
LEMMA ItemsExist ==
    ASSUME NEW t, NEW Values, WellFormed(t, Values), NEW first \in t.active
    PROVE  \E slot : Items(t, first, slot)
<1> DEFINE S == t.active \union {NoItem}
           F == [x \in Nat \X S |-> IF x[2] = NoItem THEN NoItem ELSE NextSlot(t, x[2])]
<1>1. ASSUME NEW p \in S
      PROVE  (IF p = NoItem THEN NoItem ELSE NextSlot(t, p)) \in S
  <2>1. ASSUME p \in t.active PROVE NextSlot(t, p) \in S
    BY <2>1, NextSlotIs DEF Holding
  <2> QED
    BY <2>1
<1>2. F \in [Nat \X S -> S]
  BY <1>1
<1>3. first \in S
  OBVIOUS
<1>4. \A n \in Nat, p \in S : F[<<n, p>>] = IF p = NoItem THEN NoItem ELSE NextSlot(t, p)
  OBVIOUS
<1> HIDE DEF S, F
<1>5. PICK f \in [Nat -> S] : Iterated(F, first, f)
  BY <1>2, <1>3, IterationExists
<1>6. ASSUME NEW i \in Nat
      PROVE  f[i] = IF i = 0 THEN first
                    ELSE IF f[i - 1] = NoItem THEN NoItem ELSE NextSlot(t, f[i - 1])
  <2>1. CASE i = 0
    BY <1>5, <2>1 DEF Iterated
  <2>2. CASE i # 0
    <3>1. PICK j \in Nat : j + 1 = i /\ i - 1 = j
      BY <2>2, i - 1 \in Nat
    <3>2. f[j + 1] = F[<<j, f[j]>>] /\ f[j] \in S
      BY <1>5 DEF Iterated
    <3> QED
      BY <1>4, <2>2, <3>1, <3>2
  <2> QED
    BY <2>1, <2>2
<1>7. f = [i \in Nat |-> f[i]]
  BY <1>5
<1>8. Items(t, first, f)
  BY <1>6, <1>7 DEF Items
<1> QED
  BY <1>8

\* The walk is its beginning.
LEMMA WalkItems ==
    ASSUME NEW t, NEW Values, WellFormed(t, Values), NEW h, FindSlot(t, h) \in t.active
    PROVE  \E slot : /\ Items(t, FindSlot(t, h), slot)
                     /\ Walk(t, h) = [i \in 1 .. Left(t, FindSlot(t, h)) + 1 |-> slot[i - 1]]
<1> DEFINE slot[i \in Nat] ==
              IF i = 0 THEN FindSlot(t, h)
              ELSE IF slot[i - 1] = NoItem THEN NoItem ELSE NextSlot(t, slot[i - 1])
<1>1. FindSlot(t, h) # NoItem
  BY DEF NoItem, WellFormed, TableType, HomesFit, Slots
<1>2. Walk(t, h) = [i \in 1 .. Left(t, FindSlot(t, h)) + 1 |-> slot[i - 1]]
  BY <1>1 DEF Walk
<1>3. Items(t, FindSlot(t, h), slot)
  <2>1. PICK f : Items(t, FindSlot(t, h), f)
    BY ItemsExist
  <2> QED
    BY <2>1 DEF Items, slot
<1> HIDE DEF slot
<1> QED
  BY <1>2, <1>3

\* After n steps the walk has given n + 1 of the pairs, and the rest come after.
Given(t, h, slot, n) ==
    /\ slot[n] \in Holding(t, h)
    /\ Cardinality(LaterDuplicates(t, slot[n])) = Cardinality(Holding(t, h)) - 1 - n
    /\ Holding(t, h) = LaterDuplicates(t, slot[n]) \union { slot[i] : i \in 0 .. n }

\* The next item is one of the rest.
LEMMA GivenStep ==
    ASSUME NEW t, NEW Values, WellFormed(t, Values), t.cap # 0, NEW h \in Keys,
           NEW slot, NEW first, Items(t, first, slot),
           NEW n \in Nat, Given(t, h, slot, n), n + 1 < Cardinality(Holding(t, h))
    PROVE  Given(t, h, slot, n + 1)
<1> DEFINE p == slot[n]
           q == slot[n + 1]
           L == LaterDuplicates(t, p)
<1>1. /\ t.cap \in Nat /\ Holding(t, h) \in SUBSET Slots(t)
      /\ p \in Holding(t, h) /\ p # NoItem
  BY DEF Given, WellFormed, HomesFit, TableType, Holding, Slots, NoItem
<1>2. /\ Cardinality(Holding(t, h)) \in Nat
      /\ Cardinality(L) = Cardinality(Holding(t, h)) - 1 - n
  BY <1>1, SlotsFinite DEF Given
<1>3. L # {}
  BY <1>2, FS_EmptySet
<1>4. /\ NextSlot(t, p) \in L /\ L \subseteq Holding(t, h)
      /\ LaterDuplicates(t, NextSlot(t, p)) = L \ {NextSlot(t, p)}
  BY <1>1, <1>3, LaterThanNext
<1>5. q = NextSlot(t, p)
  <2>1. n + 1 \in Nat /\ n + 1 # 0 /\ (n + 1) - 1 = n
    OBVIOUS
  <2> QED
    BY <1>1, <2>1 DEF Items
<1>6. Cardinality(L \ {q}) = Cardinality(L) - 1
  <2>1. IsFiniteSet(L)
    BY <1>1, <1>4, SlotsFinite
  <2> QED
    BY <1>4, <1>5, <2>1, FS_RemoveElement
<1>7. { slot[i] : i \in 0 .. n + 1 } = { slot[i] : i \in 0 .. n } \union {q}
  <2>1. 0 .. n + 1 = (0 .. n) \union {n + 1}
    OBVIOUS
  <2> QED
    BY <2>1
<1>8. Holding(t, h) = (L \ {q}) \union { slot[i] : i \in 0 .. n + 1 }
  BY <1>4, <1>5, <1>7 DEF Given
<1>9. Cardinality(L \ {q}) = Cardinality(Holding(t, h)) - 1 - (n + 1)
  BY <1>2, <1>6
<1> QED
  BY <1>4, <1>5, <1>8, <1>9 DEF Given

\* The walk gives every pair with the hash and nothing else, once each.
LEMMA WalkIs ==
    ASSUME NEW t, NEW Values, WellFormed(t, Values), NEW h \in Keys
    PROVE  /\ Walk(t, h) \in Seq(Holding(t, h))
           /\ Len(Walk(t, h)) = Cardinality(Holding(t, h))
           /\ \A s \in Holding(t, h) : \E i \in DOMAIN Walk(t, h) : Walk(t, h)[i] = s
<1> DEFINE H == Holding(t, h)
           c == Cardinality(H)
           first == FindSlot(t, h)
<1>1. t.cap \in Nat /\ H \in SUBSET Slots(t) /\ c \in Nat
  BY SlotsFinite DEF WellFormed, HomesFit, TableType, Holding
<1>2. CASE H = {}
  <2>1. first = NoItem
    <3>1. CASE t.cap = 0
      <4>1. Stops(t, h) = {}
        BY <1>2, <3>1 DEF Stops, Free, Slots
      <4> QED
        BY <4>1 DEF FindSlot
    <3>2. CASE t.cap # 0
      BY <1>2, <3>2, FindSlotIs
    <3> QED
      BY <3>1, <3>2
  <2>2. Walk(t, h) = <<>>
    BY <2>1 DEF Walk
  <2> QED
    BY <1>2, <2>2, FS_EmptySet
<1>3. CASE H # {}
  <2>1. t.cap # 0
    BY <1>1, <1>3 DEF Slots
  <2>2. first \in H /\ Passed(t, HomeOf(t, h), first) \cap H = {} /\ first \in t.active
    BY <1>3, <2>1, FindSlotIs DEF Holding
  <2>3. LaterDuplicates(t, first) = H \ {first}
    BY <2>1, <2>2, LaterThanFirst
  <2>4. Cardinality(H \ {first}) = c - 1 /\ c # 0
    <3>1. IsFiniteSet(H)
      BY <1>1, SlotsFinite
    <3> QED
      BY <1>3, <2>2, <3>1, FS_RemoveElement, FS_EmptySet
  <2>5. Left(t, first) + 1 = c
    <3>1. Left(t, first) = Cardinality(LaterDuplicates(t, first))
      BY <1>1, <2>2 DEF Left, WellFormed, DupsCount
    <3> QED
      BY <1>1, <2>3, <2>4, <3>1
  <2> HIDE DEF first, c
  <2>6. PICK slot : /\ Items(t, first, slot)
                    /\ Walk(t, h) = [i \in 1 .. Left(t, first) + 1 |-> slot[i - 1]]
    BY <2>2, WalkItems DEF first
  <2>7. Given(t, h, slot, 0)
    <3>1. slot[0] = first
      BY <2>6 DEF Items
    <3>2. { slot[i] : i \in 0 .. 0 } = {first}
      BY <3>1
    <3>3. Cardinality(LaterDuplicates(t, slot[0])) = Cardinality(H) - 1 - 0
      BY <1>1, <2>3, <2>4, <3>1 DEF c
    <3>4. H = LaterDuplicates(t, slot[0]) \union { slot[i] : i \in 0 .. 0 }
      BY <2>2, <2>3, <3>1, <3>2
    <3> QED
      BY <2>2, <3>1, <3>3, <3>4 DEF Given
  <2> DEFINE T == { n \in Nat : n < c => Given(t, h, slot, n) }
  <2>8. 0 \in T
    BY <2>7
  <2>9. ASSUME NEW n \in Nat, n \in T PROVE n + 1 \in T
    <3>1. ASSUME n + 1 < c PROVE Given(t, h, slot, n + 1)
      <4>1. Given(t, h, slot, n)
        BY <1>1, <2>9, <3>1 DEF c
      <4> QED
        BY <2>1, <2>6, <3>1, <4>1, GivenStep DEF c
    <3> QED
      BY <3>1
  <2>10. Nat \subseteq T
    <3> HIDE DEF T
    <3> QED
      BY <2>8, <2>9, AllNumbers
  <2>11. Walk(t, h) = [i \in 1 .. c |-> slot[i - 1]] /\ c \in Nat \ {0}
    BY <1>1, <2>4, <2>5, <2>6 DEF c
  <2>12. \A i \in 1 .. c : slot[i - 1] \in H
    <3>1. \A i \in 1 .. c : i - 1 \in Nat /\ i - 1 < c
      BY <2>11
    <3> QED
      BY <2>10, <3>1 DEF Given
  <2>13. ASSUME NEW s \in H PROVE \E i \in 1 .. c : slot[i - 1] = s
    <3>1. PICK m \in Nat : m + 1 = c
      BY <2>11, c - 1 \in Nat
    <3>2. Given(t, h, slot, m)
      BY <2>10, <3>1
    <3>3. LaterDuplicates(t, slot[m]) = {}
      <4>1. Cardinality(LaterDuplicates(t, slot[m])) = 0
        BY <1>1, <3>1, <3>2 DEF Given, c
      <4>2. IsFiniteSet(LaterDuplicates(t, slot[m]))
        <5>1. LaterDuplicates(t, slot[m]) \in SUBSET Slots(t)
          BY <1>1, <3>2 DEF Given
        <5> QED
          BY <1>1, <5>1, SlotsFinite
      <4> QED
        BY <4>1, <4>2, FS_EmptySet
    <3>4. PICK j \in 0 .. m : slot[j] = s
      BY <3>2, <3>3 DEF Given
    <3>5. j + 1 \in 1 .. c /\ (j + 1) - 1 = j
      BY <3>1, <3>4
    <3> QED
      BY <3>4, <3>5
  <2>14. Walk(t, h) \in Seq(H) /\ Len(Walk(t, h)) = c /\ DOMAIN Walk(t, h) = 1 .. c
    BY <2>11, <2>12
  <2> QED
    BY <2>11, <2>13, <2>14 DEF c
<1> QED
  BY <1>2, <1>3

-----------------------------------------------------------------------------
(***************************************************************************)
(* The table of an object: every pair is a member under the hash of its    *)
(* name, no two members have one name or share a value.                    *)
(***************************************************************************)
Sound(t) == \A s \in t.active : t.value[s] \in Members /\ t.key[s] = Hash(t.value[s].name)

Distinct(t) == \A s, r \in t.active : t.value[s].name = t.value[r].name => s = r

Unshared(t) == \A s, r \in t.active : t.value[s].val = t.value[r].val => s = r

ObjTable(t) == WellFormed(t, Members) /\ Sound(t) /\ Distinct(t) /\ Unshared(t)

\* The lookup finds the member with the name.
LEMMA MatchIs ==
    ASSUME NEW t, ObjTable(t), NEW n \in Names
    PROVE  /\ Has(t, n) <=> \E s \in t.active : t.value[s].name = n
           /\ Has(t, n) => MatchSlot(t, n) \in t.active /\ t.value[MatchSlot(t, n)].name = n
<1> DEFINE h == Hash(n)
           walk == Walk(t, h)
<1>1. h \in Keys /\ t.active \subseteq Nat
  BY HashAssumption DEF ObjTable, WellFormed, TableType, Slots
<1>2. /\ walk \in Seq(Holding(t, h))
      /\ \A s \in Holding(t, h) : \E i \in DOMAIN walk : walk[i] = s
  BY <1>1, WalkIs DEF ObjTable
<1>3. \A i \in DOMAIN walk : walk[i] \in t.active
  BY <1>2 DEF Holding
<1>4. Matches(t, n) \in SUBSET Nat /\ Matches(t, n) \subseteq DOMAIN walk
  BY <1>2 DEF Matches
<1>5. \A i \in Matches(t, n) : walk[i] \in t.active /\ t.value[walk[i]].name = n
  BY <1>3 DEF Matches
<1>6. ASSUME NEW s \in t.active, t.value[s].name = n PROVE Has(t, n)
  <2>1. s \in Holding(t, h)
    BY <1>6 DEF ObjTable, Sound, Holding
  <2>2. PICK i \in DOMAIN walk : walk[i] = s
    BY <1>2, <2>1
  <2>3. s # NoItem
    BY <1>1 DEF NoItem
  <2> QED
    BY <1>6, <2>2, <2>3 DEF Has, Matches
<1>7. ASSUME Has(t, n)
      PROVE  MatchSlot(t, n) \in t.active /\ t.value[MatchSlot(t, n)].name = n
  <2>1. \E i \in Matches(t, n) : \A j \in Matches(t, n) : i <= j
    BY <1>4, <1>7, LeastNumber DEF Has
  <2>2. PICK i \in Matches(t, n) : MatchSlot(t, n) = walk[i]
    BY <2>1 DEF MatchSlot
  <2> QED
    BY <1>5, <2>2
<1> QED
  BY <1>6, <1>7

(***************************************************************************)
(* A full table moves into one twice as large.                             *)
(***************************************************************************)

\* The tables udRehash goes through, from an empty one.
Moves(t, c, upto) ==
    upto = [i \in 0 .. t.cap |->
              IF i = 0 THEN Empty(c)
              ELSE IF i - 1 \in t.active
                   THEN Inserted(upto[i - 1], t.key[i - 1], t.value[i - 1])
                   ELSE upto[i - 1]]

\* A well-formed table of capacity c, as a member of a set.
TablesOf(c) ==
    { r \in [cap : {c}, size : 0 .. c, active : SUBSET (0 .. c - 1),
             key : [0 .. c - 1 -> Keys \union {0}],
             value : [0 .. c - 1 -> Members \union {NULL}],
             dups : [0 .. c - 1 -> Nat]] : WellFormed(r, Members) }

\* The tables a rehash goes through.
LEMMA TablesOfIs ==
    ASSUME NEW r, NEW c
    PROVE  r \in TablesOf(c) <=> WellFormed(r, Members) /\ r.cap = c
<1>1. ASSUME WellFormed(r, Members), r.cap = c PROVE r \in TablesOf(c)
  <2>1. /\ r.size \in 0 .. c /\ r.active \in SUBSET (0 .. c - 1)
        /\ r.key \in [0 .. c - 1 -> Keys \union {0}]
        /\ r.value \in [0 .. c - 1 -> Members \union {NULL}]
        /\ r.dups \in [0 .. c - 1 -> Nat]
    BY <1>1 DEF WellFormed, TableType, Slots
  <2>2. r = [cap |-> c, size |-> r.size, active |-> r.active,
             key |-> r.key, value |-> r.value, dups |-> r.dups]
    BY <1>1 DEF WellFormed, IsTable
  <2> QED
    BY <1>1, <2>1, <2>2 DEF TablesOf
<1>2. ASSUME r \in TablesOf(c) PROVE WellFormed(r, Members) /\ r.cap = c
  BY <1>2 DEF TablesOf
<1> QED
  BY <1>1, <1>2

\* The move of one pair leads to another of them.
LEMMA MoveStays ==
    ASSUME NEW t, WellFormed(t, Members), NEW r, WellFormed(r, Members), r.cap # 0, NEW i
    PROVE  LET n == IF i \in t.active THEN Inserted(r, t.key[i], t.value[i]) ELSE r
           IN  WellFormed(n, Members) /\ n.cap = r.cap
<1>1. CASE i \in t.active
  <2>1. t.key[i] \in Keys /\ t.value[i] \in Members \union {NULL}
    BY <1>1 DEF WellFormed, TableType
  <2>2. WellFormed(Inserted(r, t.key[i], t.value[i]), Members)
    BY <2>1, InsertKeeps
  <2>3. Inserted(r, t.key[i], t.value[i]).cap = r.cap
    BY <2>1, InsertCap
  <2> QED
    BY <1>1, <2>2, <2>3
<1> QED
  BY <1>1

\* There is a function of the tables after each move.
LEMMA MovesExist ==
    ASSUME NEW t, WellFormed(t, Members), NEW c \in Nat \ {0}, WellFormed(Empty(c), Members)
    PROVE  \E upto : Moves(t, c, upto)
<1> DEFINE S == TablesOf(c)
           F == [x \in Nat \X S |->
                   IF x[1] \in t.active THEN Inserted(x[2], t.key[x[1]], t.value[x[1]])
                   ELSE x[2]]
<1>1. ASSUME NEW i \in Nat, NEW r \in S
      PROVE  (IF i \in t.active THEN Inserted(r, t.key[i], t.value[i]) ELSE r) \in S
  <2>1. WellFormed(r, Members) /\ r.cap = c /\ r.cap # 0
    BY TablesOfIs
  <2> QED
    BY <2>1, MoveStays, TablesOfIs
<1>2. Empty(c) \in S
  BY EmptyFields, TablesOfIs
<1> HIDE DEF S
<1>3. F \in [Nat \X S -> S]
  BY <1>1
<1>4. \A i \in Nat, r \in S :
        F[<<i, r>>] = IF i \in t.active THEN Inserted(r, t.key[i], t.value[i]) ELSE r
  OBVIOUS
<1> HIDE DEF F
<1>5. PICK f \in [Nat -> S] : Iterated(F, Empty(c), f)
  BY <1>2, <1>3, IterationExists
<1> DEFINE g == [i \in 0 .. t.cap |-> f[i]]
<1>6. ASSUME NEW i \in 0 .. t.cap
      PROVE  f[i] = IF i = 0 THEN Empty(c)
                    ELSE IF i - 1 \in t.active
                         THEN Inserted(g[i - 1], t.key[i - 1], t.value[i - 1])
                         ELSE g[i - 1]
  <2>1. CASE i = 0
    BY <1>5, <2>1 DEF Iterated
  <2>2. CASE i # 0
    <3>1. i - 1 \in Nat /\ i - 1 \in 0 .. t.cap
      BY <2>2 DEF WellFormed, HomesFit
    <3>2. PICK j \in Nat : j + 1 = i /\ i - 1 = j
      BY <3>1
    <3>3. f[j + 1] = F[<<j, f[j]>>] /\ f[j] \in S /\ g[j] = f[j]
      BY <1>5, <3>1, <3>2 DEF Iterated
    <3>4. f[j + 1] = IF j \in t.active THEN Inserted(g[j], t.key[j], t.value[j]) ELSE g[j]
      BY <1>4, <3>3
    <3> QED
      BY <2>2, <3>2, <3>4
  <2> QED
    BY <2>1, <2>2
<1>7. Moves(t, c, g)
  BY <1>6 DEF Moves
<1> QED
  BY <1>7

\* The table after a rehash is well formed and has the pairs of the old one.
LEMMA RehashedIs ==
    ASSUME NEW t, WellFormed(t, Members),
           NEW c \in Nat \ {0}, WellFormed(Empty(c), Members), c >= t.cap
    PROVE  /\ WellFormed(Rehashed(t, c), Members)
           /\ Rehashed(t, c).cap = c
           /\ Fitted(t, Rehashed(t, c), t.cap)
<1> DEFINE upto[i \in 0 .. t.cap] ==
              IF i = 0 THEN Empty(c)
              ELSE IF i - 1 \in t.active
                   THEN Inserted(upto[i - 1], t.key[i - 1], t.value[i - 1])
                   ELSE upto[i - 1]
<1>1. Rehashed(t, c) = upto[t.cap]
  BY DEF Rehashed
<1>2. Moves(t, c, upto)
  <2>1. PICK f : Moves(t, c, f)
    BY MovesExist
  <2> QED
    BY <2>1 DEF Moves, upto
<1> HIDE DEF upto
<1> DEFINE Good(i) == /\ WellFormed(upto[i], Members) /\ upto[i].cap = c
                      /\ Fitted(t, upto[i], i)
           T == { i \in Nat : i <= t.cap => Good(i) }
<1>3. t.cap \in Nat /\ t.active \subseteq Slots(t)
  BY DEF WellFormed, HomesFit, TableType
<1>4. 0 \in T
  <2>1. upto[0] = Empty(c)
    BY <1>2, <1>3 DEF Moves
  <2>2. Good(0)
    <3>1. Fitted(t, Empty(c), 0) /\ Empty(c).cap = c
      BY <1>3, EmptyFields, NothingMoved
    <3> QED
      BY <2>1, <3>1
  <2> QED
    BY <2>2
<1>5. ASSUME NEW i \in Nat, i \in T PROVE i + 1 \in T
  <2>1. ASSUME i + 1 <= t.cap PROVE Good(i + 1)
    <3>1. i \in Slots(t) /\ i + 1 \in 0 .. t.cap /\ i + 1 # 0 /\ (i + 1) - 1 = i /\ i <= t.cap
      BY <1>3, <2>1 DEF Slots
    <3>2. Good(i)
      BY <1>5, <3>1
    <3>3. upto[i + 1] = IF i \in t.active THEN Inserted(upto[i], t.key[i], t.value[i])
                        ELSE upto[i]
      BY <1>2, <3>1 DEF Moves
    <3>4. WellFormed(upto[i], Members) /\ upto[i].cap # 0 /\ upto[i].cap >= t.cap
          /\ upto[i].cap = c /\ Fitted(t, upto[i], i)
      BY <3>2
    <3>5. WellFormed(upto[i + 1], Members) /\ upto[i + 1].cap = c
      BY <3>3, <3>4, MoveStays
    <3>6. Fitted(t, upto[i + 1], i + 1)
      BY <3>1, <3>3, <3>4, MoveFits
    <3> QED
      BY <3>5, <3>6
  <2> QED
    BY <2>1
<1>6. Nat \subseteq T
  <2> HIDE DEF T
  <2> QED
    BY <1>4, <1>5, AllNumbers
<1>7. Good(t.cap)
  BY <1>3, <1>6
<1> QED
  BY <1>1, <1>7

\* The same members, each once, as no two pairs are alike.
LEMMA SamePairs ==
    ASSUME NEW t, ObjTable(t), NEW r, WellFormed(r, Members), Fitted(t, r, t.cap)
    PROVE  /\ ObjTable(r)
           /\ MembersOf(r) = MembersOf(t)
           /\ Cardinality(r.active) = Cardinality(t.active)
<1>1. /\ t.cap \in Nat /\ r.cap \in Nat /\ t.active \in SUBSET Slots(t)
      /\ r.active \in SUBSET Slots(r) /\ SizeCounts(r)
  BY DEF ObjTable, WellFormed, HomesFit, TableType
<1>2. Moved(t, t.cap) = t.active
  BY <1>1 DEF Moved, Slots
<1>3. Cardinality(r.active) = Cardinality(t.active)
  BY <1>1, <1>2 DEF Fitted, SizeCounts
<1>4. ASSUME NEW k, NEW v
      PROVE  /\ IsFiniteSet(Having(r, r.active, k, v))
             /\ IsFiniteSet(Having(t, t.active, k, v))
             /\ Cardinality(Having(r, r.active, k, v)) = Cardinality(Having(t, t.active, k, v))
  <2>1. /\ Having(r, r.active, k, v) \in SUBSET Slots(r)
        /\ Having(t, t.active, k, v) \in SUBSET Slots(t)
    BY <1>1 DEF Having
  <2> QED
    BY <1>1, <1>2, <2>1, SlotsFinite DEF Fitted
<1>5. ASSUME NEW s \in r.active
      PROVE  \E q \in t.active : t.key[q] = r.key[s] /\ t.value[q] = r.value[s]
  <2>1. Having(r, r.active, r.key[s], r.value[s]) # {}
    BY DEF Having
  <2>2. Having(t, t.active, r.key[s], r.value[s]) # {}
    BY <1>4, <2>1, FS_EmptySet
  <2> QED
    BY <2>2 DEF Having
<1>6. ASSUME NEW q \in t.active
      PROVE  \E s \in r.active : t.key[q] = r.key[s] /\ t.value[q] = r.value[s]
  <2>1. Having(t, t.active, t.key[q], t.value[q]) # {}
    BY DEF Having
  <2>2. Having(r, r.active, t.key[q], t.value[q]) # {}
    BY <1>4, <2>1, FS_EmptySet
  <2> QED
    BY <2>2 DEF Having
<1>7. ASSUME NEW s \in r.active, NEW o \in r.active,
             r.key[s] = r.key[o], r.value[s] = r.value[o]
      PROVE  s = o
  <2> DEFINE k == r.key[s]
             v == r.value[s]
  <2>1. PICK q \in t.active : t.key[q] = k /\ t.value[q] = v
    BY <1>5
  <2>2. Having(t, t.active, k, v) = {q}
    BY <2>1 DEF Having, ObjTable, Distinct
  <2>3. Cardinality(Having(r, r.active, k, v)) = 1
    BY <1>4, <2>2, FS_Singleton
  <2>4. \E x : Having(r, r.active, k, v) = {x}
    BY <1>4, <2>3, FS_Singleton
  <2>5. s \in Having(r, r.active, k, v) /\ o \in Having(r, r.active, k, v)
    BY <1>7 DEF Having
  <2> QED
    BY <2>4, <2>5
<1>8. Sound(r)
  BY <1>5 DEF ObjTable, Sound
<1>9. ASSUME NEW s \in r.active, NEW o \in r.active,
             r.value[s].name = r.value[o].name \/ r.value[s].val = r.value[o].val
      PROVE  s = o
  <2>1. PICK q \in t.active : t.key[q] = r.key[s] /\ t.value[q] = r.value[s]
    BY <1>5
  <2>2. PICK p \in t.active : t.key[p] = r.key[o] /\ t.value[p] = r.value[o]
    BY <1>5
  <2>3. q = p
    BY <1>9, <2>1, <2>2 DEF ObjTable, Distinct, Unshared
  <2> QED
    BY <1>7, <2>1, <2>2, <2>3
<1>10. MembersOf(r) = MembersOf(t)
  BY <1>5, <1>6 DEF MembersOf
<1> QED
  BY <1>3, <1>8, <1>9, <1>10 DEF ObjTable, Distinct, Unshared

\* A member with a new name and a new value is stored.
LEMMA StoredIs ==
    ASSUME NEW t, ObjTable(t), t.cap # 0, t.size # t.cap, NEW n \in Names, NEW v \in Vals,
           \A mem \in MembersOf(t) : mem.name # n /\ mem.val # v,
           NEW r, r = Inserted(t, Hash(n), [name |-> n, val |-> v])
    PROVE  /\ ObjTable(r) /\ r.cap = t.cap
           /\ MembersOf(r) = MembersOf(t) \union {[name |-> n, val |-> v]}
           /\ Cardinality(r.active) = Cardinality(t.active) + 1
           /\ \A s \in t.active : s \in r.active /\ r.value[s] = t.value[s]
<1> DEFINE mem == [name |-> n, val |-> v]
           p == InsertSlot(t, Hash(n))
<1>1. Hash(n) \in Keys /\ mem \in Members
  BY HashAssumption DEF Members
<1>2. WellFormed(t, Members)
  BY DEF ObjTable
<1>3. WellFormed(r, Members)
  BY <1>1, <1>2, InsertKeeps
<1>4. p # NoItem /\ Lands(t, Hash(n), p)
  BY <1>1, <1>2, InsertSlotIs
<1>5. p \in Slots(t) /\ p \notin t.active
  BY <1>1, <1>2, <1>4, LandsBehind
<1>6. Landed(t, r, Hash(n), p) /\ r.value = [t.value EXCEPT ![p] = mem]
  <2>1. IsTable(t)
    BY <1>2 DEF WellFormed
  <2> HIDE DEF mem
  <2> QED
    BY <1>4, <2>1, InsertedPair DEF mem
<1>7. /\ t.active \in SUBSET Slots(t) /\ DOMAIN t.key = Slots(t) /\ DOMAIN t.value = Slots(t)
      /\ t.cap \in Nat
  BY <1>2 DEF WellFormed, TableType, HomesFit
<1> HIDE DEF p
<1>8. /\ r.cap = t.cap /\ r.active = t.active \union {p}
      /\ r.key[p] = Hash(n) /\ r.value[p] = mem
      /\ \A s \in t.active : r.key[s] = t.key[s] /\ r.value[s] = t.value[s]
  BY <1>5, <1>6, <1>7 DEF Landed
<1>9. mem.name = n /\ mem.val = v
  OBVIOUS
<1> HIDE DEF mem
<1>10. \A s \in t.active : t.value[s].name # n /\ t.value[s].val # v
  BY DEF MembersOf
<1>11. Sound(r)
  BY <1>1, <1>8, <1>9 DEF Sound, ObjTable
<1>12. Distinct(r)
  BY <1>8, <1>9, <1>10 DEF Distinct, ObjTable
<1>13. Unshared(r)
  BY <1>8, <1>9, <1>10 DEF Unshared, ObjTable
<1>14. MembersOf(r) = MembersOf(t) \union {mem}
  BY <1>8 DEF MembersOf
<1>15. Cardinality(r.active) = Cardinality(t.active) + 1
  BY <1>5, <1>7, <1>8, SlotsFinite, FS_AddElement
<1> QED
  BY <1>3, <1>8, <1>11, <1>12, <1>13, <1>14, <1>15 DEF ObjTable, mem

\* The new block takes the place of the old one.
Overwrites(t, r, q, n, v) == r = [t EXCEPT !.value[q] = [name |-> n, val |-> v]]

\* After a member's value is replaced, the table is an object's again.
LEMMA OverwrittenIs ==
    ASSUME NEW t, ObjTable(t), NEW q \in t.active, NEW n \in Names, NEW v \in Vals,
           t.value[q].name = n, \A mem \in MembersOf(t) : mem.val # v,
           NEW r, Overwrites(t, r, q, n, v)
    PROVE  /\ ObjTable(r) /\ r.cap = t.cap /\ r.active = t.active
           /\ r.value[q] = [name |-> n, val |-> v]
           /\ \A s \in t.active : s # q => r.value[s] = t.value[s]
<1> DEFINE mem == [name |-> n, val |-> v]
<1>1. mem \in Members /\ mem.name = n /\ mem.val = v
  BY DEF Members
<1>2. WellFormed(t, Members) /\ q \in Slots(t)
  BY DEF ObjTable, WellFormed, TableType
<1> HIDE DEF mem
<1>3. /\ WellFormed(r, Members) /\ r.cap = t.cap /\ r.active = t.active /\ r.key = t.key
      /\ r.value = [t.value EXCEPT ![q] = mem]
  BY <1>1, <1>2, SetValueKeeps DEF mem, Overwrites
<1>4. /\ r.value[q] = mem
      /\ \A s \in t.active : s # q => r.value[s] = t.value[s]
  BY <1>2, <1>3 DEF WellFormed, TableType
<1>5. \A s \in t.active : t.value[s].val # v
  BY DEF MembersOf
<1>6. Sound(r)
  BY <1>1, <1>3, <1>4 DEF Sound, ObjTable
<1>7. Distinct(r)
  BY <1>1, <1>3, <1>4 DEF Distinct, ObjTable
<1>8. Unshared(r)
  BY <1>1, <1>3, <1>4, <1>5 DEF Unshared, ObjTable
<1> QED
  BY <1>3, <1>4, <1>6, <1>7, <1>8 DEF ObjTable, mem

-----------------------------------------------------------------------------
(***************************************************************************)
(* An iteration that other calls interrupt.                                *)
(***************************************************************************)

\* The names given so far are those of slots up to the iterator, and a name that
\* was there at the beginning has been given or is still ahead.
Iterating(t, p, st, names) ==
    /\ \A i, j \in DOMAIN names : names[i] = names[j] => i = j
    /\ p # NoItem =>
         \A i \in DOMAIN names : \E s \in t.active : s <= p /\ t.value[s].name = names[i]
    /\ \A n \in st : \/ \E i \in DOMAIN names : names[i] = n
                     \/ p # NoItem /\ \E s \in t.active : s > p /\ t.value[s].name = n

\* A call that leaves every member in its slot leaves the iteration intact.
LEMMA IteratingStays ==
    ASSUME NEW t, NEW r, NEW p, NEW st, NEW names, Iterating(t, p, st, names),
           \A s \in t.active : s \in r.active /\ r.value[s].name = t.value[s].name
    PROVE  Iterating(r, p, st, names)
<1>1. p # NoItem =>
        \A i \in DOMAIN names : \E s \in r.active : s <= p /\ r.value[s].name = names[i]
  BY DEF Iterating
<1>2. \A n \in st : \/ \E i \in DOMAIN names : names[i] = n
                    \/ p # NoItem /\ \E s \in r.active : s > p /\ r.value[s].name = n
  BY DEF Iterating
<1> QED
  BY <1>1, <1>2 DEF Iterating

\* An iteration begins with the first member, or is over.
LEMMA IteratingFirst ==
    ASSUME NEW t, ObjTable(t), NEW p, p = IterFirst(t)
    PROVE  /\ p \in t.active \union {NoItem}
           /\ Iterating(t, p, NamesOf(t), IF p = NoItem THEN <<>> ELSE <<t.value[p].name>>)
<1>1. /\ t.cap \in Nat /\ t.active \in SUBSET Slots(t) /\ t.active \in SUBSET Nat
      /\ t.size = Cardinality(t.active)
  BY DEF ObjTable, WellFormed, HomesFit, TableType, SizeCounts, Slots
<1>2. t.size = 0 <=> t.active = {}
  BY <1>1, SlotsFinite, FS_EmptySet
<1>3. CASE t.active = {}
  <2>1. p = NoItem /\ NamesOf(t) = {}
    BY <1>3 DEF IterFirst, NamesOf, MembersOf
  <2> QED
    BY <2>1 DEF Iterating
<1>4. CASE t.active # {}
  <2>1. \E q \in t.active : \A s \in t.active : q <= s
    BY <1>1, <1>4, LeastNumber
  <2>2. p \in t.active /\ \A s \in t.active : p <= s
    BY <1>2, <1>4, <2>1 DEF IterFirst
  <2>3. p # NoItem
    BY <1>1, <2>2 DEF NoItem
  <2> DEFINE names == <<t.value[p].name>>
  <2>4. DOMAIN names = {1} /\ names[1] = t.value[p].name
    OBVIOUS
  <2> HIDE DEF names
  <2>5. \A i \in DOMAIN names : \E s \in t.active : s <= p /\ t.value[s].name = names[i]
    BY <1>1, <2>2, <2>4
  <2>6. ASSUME NEW n \in NamesOf(t)
        PROVE  \/ \E i \in DOMAIN names : names[i] = n
               \/ \E s \in t.active : s > p /\ t.value[s].name = n
    <3>1. PICK s \in t.active : t.value[s].name = n
      BY DEF NamesOf, MembersOf
    <3>2. s = p \/ s > p
      BY <1>1, <2>2
    <3> QED
      BY <2>4, <3>1, <3>2
  <2>7. Iterating(t, p, NamesOf(t), names)
    BY <2>3, <2>4, <2>5, <2>6 DEF Iterating
  <2> QED
    BY <2>2, <2>3, <2>7 DEF names
<1> QED
  BY <1>3, <1>4

\* It goes on with the next member, or is over.
LEMMA IteratingNext ==
    ASSUME NEW t, ObjTable(t), NEW p \in t.active, NEW st,
           NEW names \in Seq(Names), Iterating(t, p, st, names), NEW q, q = IterNext(t, p)
    PROVE  /\ q \in t.active \union {NoItem}
           /\ Iterating(t, q, st, IF q = NoItem THEN names ELSE Append(names, t.value[q].name))
<1> DEFINE later == { s \in t.active : s > p }
<1>1. t.active \in SUBSET Nat /\ p \in Nat /\ p # NoItem
  BY DEF ObjTable, WellFormed, TableType, Slots, NoItem
<1>2. CASE later = {}
  <2>1. q = NoItem
    BY <1>2 DEF IterNext
  <2>2. \A n \in st : \E i \in DOMAIN names : names[i] = n
    BY <1>2 DEF Iterating
  <2> QED
    BY <2>1, <2>2 DEF Iterating
<1>3. CASE later # {}
  <2>1. \E m \in later : \A s \in later : m <= s
    BY <1>1, <1>3, LeastNumber
  <2>2. \E m \in later : \A s \in later : s >= m
    <3>1. later \subseteq Nat
      BY <1>1
    <3> QED
      BY <2>1, <3>1
  <2>3. q \in later /\ \A s \in later : q <= s
    <3>1. q = CHOOSE s \in later : \A r \in later : s <= r
      BY <1>3 DEF IterNext
    <3> QED
      BY <2>1, <3>1
  <2>4. q \in t.active /\ q > p /\ q \in Nat /\ q # NoItem
    BY <1>1, <2>3 DEF NoItem
  <2> DEFINE new == Append(names, t.value[q].name)
             l == Len(names)
  <2>5. /\ l \in Nat /\ DOMAIN names = 1 .. l /\ DOMAIN new = 1 .. l + 1
        /\ new[l + 1] = t.value[q].name /\ \A i \in 1 .. l : new[i] = names[i]
    OBVIOUS
  <2> HIDE DEF new, l
  <2>6. ASSUME NEW i \in 1 .. l
        PROVE  \E s \in t.active : s <= p /\ t.value[s].name = new[i]
    BY <1>1, <2>5 DEF Iterating
  <2>7. ASSUME NEW i \in 1 .. l PROVE new[i] # new[l + 1]
    <3>1. PICK s \in t.active : s <= p /\ t.value[s].name = new[i]
      BY <2>6
    <3>2. s # q
      BY <1>1, <2>4, <3>1
    <3> QED
      BY <2>4, <2>5, <3>1, <3>2 DEF ObjTable, Distinct
  <2>8. ASSUME NEW i \in DOMAIN new, NEW j \in DOMAIN new, new[i] = new[j] PROVE i = j
    <3>1. CASE i \in 1 .. l /\ j \in 1 .. l
      BY <2>5, <2>8, <3>1 DEF Iterating
    <3>2. CASE i = l + 1 /\ j \in 1 .. l
      BY <2>7, <2>8, <3>2
    <3>3. CASE j = l + 1 /\ i \in 1 .. l
      BY <2>7, <2>8, <3>3
    <3> QED
      BY <2>5, <3>1, <3>2, <3>3
  <2>9. ASSUME NEW i \in DOMAIN new
        PROVE  \E s \in t.active : s <= q /\ t.value[s].name = new[i]
    <3>1. CASE i \in 1 .. l
      <4>1. PICK s \in t.active : s <= p /\ t.value[s].name = new[i]
        BY <2>6, <3>1
      <4>2. s <= q
        BY <1>1, <2>4, <4>1
      <4> QED
        BY <4>1, <4>2
    <3>2. CASE i = l + 1
      BY <2>4, <2>5, <3>2
    <3> QED
      BY <2>5, <3>1, <3>2
  <2>10. ASSUME NEW n \in st
         PROVE  \/ \E i \in DOMAIN new : new[i] = n
                \/ \E s \in t.active : s > q /\ t.value[s].name = n
    <3>1. CASE \E i \in DOMAIN names : names[i] = n
      BY <2>5, <3>1
    <3>2. CASE \E s \in t.active : s > p /\ t.value[s].name = n
      <4>1. PICK s \in t.active : s > p /\ t.value[s].name = n
        BY <3>2
      <4>2. s = q \/ s > q
        BY <1>1, <2>3, <2>4, <4>1
      <4>3. l + 1 \in DOMAIN new
        BY <2>5
      <4> QED
        BY <2>5, <4>1, <4>2, <4>3
    <3> QED
      BY <3>1, <3>2 DEF Iterating
  <2>11. Iterating(t, q, st, new)
    BY <2>4, <2>8, <2>9, <2>10 DEF Iterating
  <2> QED
    BY <2>4, <2>11 DEF new
<1> QED
  BY <1>2, <1>3

-----------------------------------------------------------------------------
(***************************************************************************)
(* The object through its life                                             *)
(***************************************************************************)

\* A value is the object's exactly when a member holds it.
Owning(t, who) == \A v \in Vals : who[v] = "object" <=> \E mem \in MembersOf(t) : mem.val = v

Word == 0 .. 2 ^ WordWidth - 1

ObjInv ==
    /\ ObjTable(dict) /\ dict.cap \in Word
    /\ owner \in [Vals -> {"client", "object", "freed"}] /\ Owning(dict, owner)
    /\ blocks = Cardinality(dict.active)
    /\ ret \in Vals \union {NULL, 0, -1}
    /\ iter \in dict.active \union {NoItem} /\ start \subseteq Names /\ seen \in Seq(Names)
    /\ Iterating(dict, iter, start, seen)

\* Zero and the initial capacity fit the word.
LEMMA WordIs == Word \subseteq Nat /\ 0 \in Word /\ ICap \in Word /\ ICap # 0
BY CapAssumption DEF Word

\* A new object has no members.
LEMMA EmptyObject ==
    ASSUME NEW c \in Word
    PROVE  /\ ObjTable(Empty(c)) /\ WellFormed(Empty(c), Members)
           /\ Empty(c).cap = c /\ Empty(c).active = {}
           /\ MembersOf(Empty(c)) = {} /\ Cardinality(Empty(c).active) = 0
<1>1. c \in Nat /\ (c # 0 => \A k \in Keys : Home(k, c) \in 0 .. c - 1)
  BY WordIs, HomeAssumption DEF Word
<1>2. WellFormed(Empty(c), Members)
  BY <1>1, EmptyWellFormed
<1>3. Empty(c).cap = c /\ Empty(c).active = {}
  BY EmptyFields
<1> QED
  BY <1>2, <1>3, FS_EmptySet DEF ObjTable, Sound, Distinct, Unshared, MembersOf

\* No member holds a value that is the client's.
LEMMA ClientsValue ==
    ASSUME ObjInv, NEW v \in Vals, owner[v] = "client"
    PROVE  \A mem \in MembersOf(dict) : mem.val # v
BY DEF ObjInv, Owning

\* No member has a name that the lookup does not find.
LEMMA NewName ==
    ASSUME ObjInv, NEW n \in Names, ~Has(dict, n)
    PROVE  \A mem \in MembersOf(dict) : mem.name # n
BY MatchIs DEF ObjInv, MembersOf

\* Members are of the type the table is proved for.
LEMMA MembersTyped ==
    ASSUME NEW t, ObjTable(t)
    PROVE  MembersOf(t) \subseteq Members /\ NamesOf(t) \subseteq Names
BY DEF ObjTable, Sound, MembersOf, NamesOf, Members

\* The object owns one value more when a member with it is added.
LEMMA OwningMore ==
    ASSUME NEW t, NEW who \in [Vals -> {"client", "object", "freed"}], Owning(t, who),
           NEW r, NEW n, NEW v \in Vals,
           MembersOf(r) = MembersOf(t) \union {[name |-> n, val |-> v]}
    PROVE  Owning(r, [who EXCEPT ![v] = "object"])
<1> DEFINE mem == [name |-> n, val |-> v]
<1>1. mem.val = v /\ MembersOf(r) = MembersOf(t) \union {mem}
  OBVIOUS
<1> HIDE DEF mem
<1> SUFFICES ASSUME NEW w \in Vals
             PROVE  [who EXCEPT ![v] = "object"][w] = "object"
                      <=> \E m \in MembersOf(r) : m.val = w
  BY DEF Owning
<1>2. CASE w = v
  BY <1>1, <1>2
<1>3. CASE w # v
  <2>1. [who EXCEPT ![v] = "object"][w] = who[w]
    BY <1>3
  <2>2. (\E m \in MembersOf(r) : m.val = w) <=> (\E m \in MembersOf(t) : m.val = w)
    BY <1>1, <1>3
  <2> QED
    BY <2>1, <2>2 DEF Owning
<1> QED
  BY <1>2, <1>3

\* A call that stores a new member in a table with room.
LEMMA StoredKeeps ==
    ASSUME ObjInv, NEW n \in Names, NEW v \in Vals, owner[v] = "client", ~Has(dict, n),
           NEW t, ObjTable(t), t.cap \in Word, t.cap # 0, t.size # t.cap,
           MembersOf(t) = MembersOf(dict), Cardinality(t.active) = Cardinality(dict.active),
           Stored(n, v, t)
    PROVE  /\ ObjTable(dict') /\ dict'.cap = t.cap
           /\ owner' \in [Vals -> {"client", "object", "freed"}] /\ Owning(dict', owner')
           /\ blocks' = Cardinality(dict'.active) /\ ret' \in Vals \union {NULL, 0, -1}
           /\ \A s \in t.active : s \in dict'.active /\ dict'.value[s] = t.value[s]
<1>1. \A mem \in MembersOf(t) : mem.name # n /\ mem.val # v
  BY ClientsValue, NewName
<1>2. /\ dict' = Inserted(t, Hash(n), [name |-> n, val |-> v])
      /\ owner' = [owner EXCEPT ![v] = "object"] /\ blocks' = blocks + 1 /\ ret' = 0
  BY DEF Stored
<1>3. /\ ObjTable(dict') /\ dict'.cap = t.cap
      /\ MembersOf(dict') = MembersOf(t) \union {[name |-> n, val |-> v]}
      /\ Cardinality(dict'.active) = Cardinality(t.active) + 1
      /\ \A s \in t.active : s \in dict'.active /\ dict'.value[s] = t.value[s]
  BY <1>1, <1>2, StoredIs
<1>4. owner \in [Vals -> {"client", "object", "freed"}] /\ Owning(t, owner)
  BY DEF ObjInv, Owning
<1>5. Owning(dict', owner')
  BY <1>2, <1>3, <1>4, OwningMore
<1>6. owner' \in [Vals -> {"client", "object", "freed"}]
  BY <1>2, <1>4
<1>7. blocks' = Cardinality(dict'.active)
  BY <1>2, <1>3 DEF ObjInv
<1> QED
  BY <1>2, <1>3, <1>5, <1>6, <1>7

\* A set that inserts a block.
LEMMA InsertStep ==
    ASSUME ObjInv, NEW n \in Names, NEW v \in Vals, SetInserts(n, v)
    PROVE  ObjInv'
<1>1. /\ dict.cap # 0 /\ owner[v] = "client" /\ ~Has(dict, n) /\ dict.size # dict.cap
      /\ Stored(n, v, dict) /\ iter' = iter /\ start' = start /\ seen' = seen
  BY DEF SetInserts, Exists, iteration
<1>2. ObjTable(dict) /\ dict.cap \in Word
  BY DEF ObjInv
<1>3. /\ ObjTable(dict') /\ dict'.cap = dict.cap
      /\ owner' \in [Vals -> {"client", "object", "freed"}] /\ Owning(dict', owner')
      /\ blocks' = Cardinality(dict'.active) /\ ret' \in Vals \union {NULL, 0, -1}
      /\ \A s \in dict.active : s \in dict'.active /\ dict'.value[s] = dict.value[s]
  BY <1>1, <1>2, StoredKeeps
<1>4. Iterating(dict', iter, start, seen)
  BY <1>3, IteratingStays DEF ObjInv
<1> QED
  BY <1>1, <1>2, <1>3, <1>4 DEF ObjInv

\* The larger table has the same members, and room.
LEMMA GrownTable ==
    ASSUME ObjInv, NEW n \in Names, NEW v \in Vals, SetGrows(n, v)
    PROVE  LET t == Rehashed(dict, Doubled(dict))
           IN  /\ ObjTable(t) /\ t.cap \in Word /\ t.cap # 0 /\ t.size # t.cap
               /\ MembersOf(t) = MembersOf(dict)
               /\ Cardinality(t.active) = Cardinality(dict.active)
<1> DEFINE c == Doubled(dict)
           t == Rehashed(dict, c)
<1>1. dict.cap # 0 /\ dict.size = dict.cap /\ c # 0 /\ c >= dict.cap
  BY DEF SetGrows, Exists, CanGrow
<1>2. ObjTable(dict) /\ dict.cap \in Nat \ {0} /\ c \in Word /\ c \in Nat \ {0}
  <2>1. dict.cap \in Nat
    BY WordIs DEF ObjInv
  <2>2. 2 ^ WordWidth \in Nat \ {0}
    BY CapAssumption
  <2>3. \A a \in Nat, m \in Nat \ {0} : a % m \in 0 .. m - 1
    OBVIOUS
  <2>4. dict.cap * 2 \in Nat
    BY <2>1
  <2>5. c \in Word
    BY <2>2, <2>3, <2>4 DEF Doubled, Word
  <2>6. c \in Nat
    BY <2>5, WordIs
  <2> HIDE DEF c
  <2> QED
    BY <1>1, <2>1, <2>5, <2>6 DEF ObjInv
<1>3. WellFormed(t, Members) /\ t.cap = c /\ Fitted(dict, t, dict.cap)
  BY <1>1, <1>2, EmptyObject, RehashedIs DEF ObjTable
<1>4. /\ ObjTable(t) /\ MembersOf(t) = MembersOf(dict)
      /\ Cardinality(t.active) = Cardinality(dict.active)
  BY <1>2, <1>3, SamePairs
<1>5. t.size # t.cap
  <2>1. t.size = dict.size
    BY <1>2, <1>3, <1>4 DEF ObjTable, WellFormed, SizeCounts
  <2>2. c # dict.cap
    <3>1. 2 ^ WordWidth \in Nat \ {0} /\ dict.cap \in 0 .. 2 ^ WordWidth - 1
      BY CapAssumption DEF ObjInv, Word
    <3> QED
      BY <1>2, <3>1 DEF Doubled
  <2> QED
    BY <1>1, <1>3, <2>1, <2>2
<1> QED
  BY <1>2, <1>3, <1>4, <1>5

\* A set that grows the table first.
LEMMA GrowStep ==
    ASSUME ObjInv, NEW n \in Names, NEW v \in Vals, SetGrows(n, v)
    PROVE  ObjInv'
<1> DEFINE t == Rehashed(dict, Doubled(dict))
<1>1. /\ owner[v] = "client" /\ ~Has(dict, n)
      /\ Stored(n, v, t) /\ iter' = NoItem /\ start' = {} /\ seen' = <<>>
  BY DEF SetGrows
<1>2. /\ ObjTable(t) /\ t.cap \in Word /\ t.cap # 0 /\ t.size # t.cap
      /\ MembersOf(t) = MembersOf(dict)
      /\ Cardinality(t.active) = Cardinality(dict.active)
  BY GrownTable
<1> HIDE DEF t
<1>3. /\ ObjTable(dict') /\ dict'.cap = t.cap
      /\ owner' \in [Vals -> {"client", "object", "freed"}] /\ Owning(dict', owner')
      /\ blocks' = Cardinality(dict'.active) /\ ret' \in Vals \union {NULL, 0, -1}
  BY <1>1, <1>2, StoredKeeps
<1>4. Iterating(dict', NoItem, {}, <<>>) /\ <<>> \in Seq(Names)
  BY DEF Iterating
<1> QED
  BY <1>1, <1>2, <1>3, <1>4 DEF ObjInv

\* The name is there: the new value is the object's, the old one is freed.
LEMMA ReplaceStep ==
    ASSUME ObjInv, NEW n \in Names, NEW v \in Vals, SetReplaces(n, v)
    PROVE  ObjInv'
<1> DEFINE q == MatchSlot(dict, n)
           old == dict.value[q].val
<1>1. /\ owner[v] = "client" /\ Has(dict, n)
      /\ dict' = [dict EXCEPT !.value[q] = [name |-> n, val |-> v]]
      /\ owner' = [owner EXCEPT ![v] = "object", ![old] = "freed"]
      /\ ret' = 0 /\ blocks' = blocks /\ iter' = iter /\ start' = start /\ seen' = seen
  BY DEF SetReplaces, iteration
<1>2. ObjTable(dict) /\ q \in dict.active /\ dict.value[q].name = n
  BY <1>1, MatchIs DEF ObjInv
<1>3. \A mem \in MembersOf(dict) : mem.val # v
  BY <1>1, ClientsValue
<1>4. old \in Vals /\ old # v
  <2>1. dict.value[q] \in MembersOf(dict)
    BY <1>2 DEF MembersOf
  <2>2. dict.value[q] \in Members
    BY <2>1, <1>2, MembersTyped
  <2> QED
    BY <1>3, <2>1, <2>2 DEF Members
<1> HIDE DEF q, old
<1>5. /\ ObjTable(dict') /\ dict'.cap = dict.cap /\ dict'.active = dict.active
      /\ dict'.value[q] = [name |-> n, val |-> v]
      /\ \A s \in dict.active : s # q => dict'.value[s] = dict.value[s]
  <2>1. Overwrites(dict, dict', q, n, v)
    BY <1>1 DEF Overwrites
  <2> QED
    BY <1>2, <1>3, <2>1, OverwrittenIs
<1>6. /\ owner' \in [Vals -> {"client", "object", "freed"}]
      /\ owner'[v] = "object" /\ owner'[old] = "freed"
      /\ \A w \in Vals : w # v /\ w # old => owner'[w] = owner[w]
  BY <1>1, <1>4 DEF ObjInv
<1>7. ASSUME NEW w \in Vals
      PROVE  owner'[w] = "object" <=> \E s \in dict.active : dict'.value[s].val = w
  <2>0. owner[w] = "object" <=> \E s \in dict.active : dict.value[s].val = w
    BY DEF ObjInv, Owning, MembersOf
  <2>1. CASE w = v
    BY <1>2, <1>5, <1>6, <2>1
  <2>2. CASE w = old
    <3>1. \A s \in dict.active : s # q => dict.value[s].val # old
      BY <1>2 DEF ObjTable, Unshared, old
    <3> QED
      BY <1>4, <1>5, <1>6, <2>2, <3>1
  <2>3. CASE w # v /\ w # old
    <3>1. dict.value[q].val # w /\ dict'.value[q].val # w
      BY <1>5, <2>3 DEF old
    <3>2. (\E s \in dict.active : dict'.value[s].val = w)
            <=> (\E s \in dict.active : dict.value[s].val = w)
      BY <1>5, <3>1
    <3> QED
      BY <1>6, <2>0, <2>3, <3>2
  <2> QED
    BY <2>1, <2>2, <2>3
<1>8. Owning(dict', owner')
  BY <1>5, <1>7 DEF Owning, MembersOf
<1>9. Iterating(dict', iter, start, seen)
  <2>1. \A s \in dict.active : s \in dict'.active /\ dict'.value[s].name = dict.value[s].name
    BY <1>2, <1>5
  <2> QED
    BY <2>1, IteratingStays DEF ObjInv
<1> QED
  BY <1>1, <1>5, <1>6, <1>8, <1>9 DEF ObjInv

\* A set that fails changes nothing but its result.
LEMMA FailStep ==
    ASSUME ObjInv, NEW n, NEW v, SetFails(n, v) \/ SetRefused(n, v)
    PROVE  ObjInv'
BY DEF ObjInv, SetFails, SetRefused, iteration

\* A lookup.
LEMMA LookupStep ==
    ASSUME ObjInv, NEW n \in Names, j2ValueObjectItem(n)
    PROVE  ObjInv'
<1>1. /\ ret' = IF Has(dict, n) THEN dict.value[MatchSlot(dict, n)].val ELSE NULL
      /\ UNCHANGED <<dict, owner, blocks, iter, start, seen>>
  BY DEF j2ValueObjectItem, iteration
<1>2. ret' \in Vals \union {NULL, 0, -1}
  <2>1. ASSUME Has(dict, n) PROVE ret' \in Vals
    <3>1. MatchSlot(dict, n) \in dict.active
      BY <2>1, MatchIs DEF ObjInv
    <3>2. dict.value[MatchSlot(dict, n)] \in Members
      BY <3>1 DEF ObjInv, ObjTable, Sound
    <3> QED
      BY <1>1, <2>1, <3>2 DEF Members
  <2> QED
    BY <1>1, <2>1
<1> QED
  BY <1>1, <1>2 DEF ObjInv

\* The two calls of an iteration.
LEMMA IterStep ==
    ASSUME ObjInv, j2ValueObjectIterFirst \/ j2ValueObjectIterNext
    PROVE  ObjInv'
<1>1. UNCHANGED <<dict, owner, blocks>> /\ ret' = NULL
  BY DEF j2ValueObjectIterFirst, j2ValueObjectIterNext
<1>2. ASSUME NEW q \in dict.active PROVE dict.value[q].name \in Names
  BY DEF ObjInv, ObjTable, Sound, Members
<1>3. CASE j2ValueObjectIterFirst
  <2>1. /\ iter' = IterFirst(dict) /\ start' = NamesOf(dict)
        /\ seen' = IF iter' = NoItem THEN <<>> ELSE <<dict.value[iter'].name>>
    BY <1>3 DEF j2ValueObjectIterFirst
  <2>2. ObjTable(dict)
    BY DEF ObjInv
  <2>3. iter' \in dict.active \union {NoItem} /\ Iterating(dict, iter', start', seen')
    BY <2>1, <2>2, IteratingFirst
  <2>4. seen' \in Seq(Names)
    <3>1. ASSUME NEW nm \in Names PROVE <<nm>> \in Seq(Names)
      OBVIOUS
    <3> QED
      BY <1>2, <2>1, <2>3, <3>1
  <2>5. start' \subseteq Names
    BY <2>1, <2>2, MembersTyped
  <2> QED
    BY <1>1, <2>3, <2>4, <2>5 DEF ObjInv
<1>4. CASE j2ValueObjectIterNext
  <2>1. /\ iter # NoItem /\ iter' = IterNext(dict, iter) /\ start' = start
        /\ seen' = IF iter' = NoItem THEN seen ELSE Append(seen, dict.value[iter'].name)
    BY <1>4 DEF j2ValueObjectIterNext, Give
  <2>2. /\ ObjTable(dict) /\ iter \in dict.active /\ seen \in Seq(Names)
        /\ Iterating(dict, iter, start, seen)
    BY <2>1 DEF ObjInv
  <2>3. iter' \in dict.active \union {NoItem} /\ Iterating(dict, iter', start, seen')
    BY <2>1, <2>2, IteratingNext
  <2>4. seen' \in Seq(Names)
    BY <1>2, <2>1, <2>2, <2>3
  <2> QED
    BY <1>1, <2>1, <2>3, <2>4 DEF ObjInv
<1> QED
  BY <1>3, <1>4

\* j2Cleanup of the object.
LEMMA CleanupStep ==
    ASSUME ObjInv, j2Cleanup
    PROVE  ObjInv'
<1> DEFINE gone == { dict.value[s].val : s \in Visited(dict) }
<1>1. /\ owner' = [v \in Vals |-> IF v \in gone THEN "freed" ELSE owner[v]]
      /\ blocks' = blocks - Cardinality(Visited(dict))
      /\ dict' = Empty(0) /\ ret' = NULL
      /\ iter' = NoItem /\ start' = {} /\ seen' = <<>>
  BY DEF j2Cleanup, NoTable
<1>2. /\ dict.cap \in Nat /\ dict.active \in SUBSET Slots(dict) /\ SizeCounts(dict)
  BY DEF ObjInv, ObjTable, WellFormed, HomesFit, TableType
<1>3. Visited(dict) = dict.active
  BY <1>2, VisitsAll
<1>4. /\ ObjTable(dict') /\ dict'.cap \in Word /\ MembersOf(dict') = {}
      /\ Cardinality(dict'.active) = 0
  BY <1>1, WordIs, EmptyObject
<1>5. owner' \in [Vals -> {"client", "object", "freed"}]
  BY <1>1 DEF ObjInv
<1>6. \A v \in Vals : owner[v] = "object" => v \in gone
  BY <1>3 DEF ObjInv, Owning, MembersOf
<1> HIDE DEF gone
<1>7. Owning(dict', owner')
  BY <1>1, <1>4, <1>6 DEF Owning
<1>8. blocks' = 0
  BY <1>1, <1>2, <1>3, SlotsFinite DEF ObjInv
<1>9. Iterating(dict', NoItem, {}, <<>>) /\ <<>> \in Seq(Names)
  BY DEF Iterating
<1> QED
  BY <1>1, <1>4, <1>5, <1>7, <1>8, <1>9 DEF ObjInv

\* j2InitObject.
LEMMA CreateStep ==
    ASSUME ObjInv, j2InitObject
    PROVE  ObjInv'
<1>1. /\ dict.cap = 0 /\ dict' = Empty(ICap) /\ ret' = NULL
      /\ UNCHANGED <<owner, blocks, iter, start, seen>>
  BY DEF j2InitObject, Exists, iteration
<1>2. dict.active = {}
  BY <1>1 DEF ObjInv, ObjTable, WellFormed, TableType, Slots
<1>3. MembersOf(dict) = {}
  BY <1>2 DEF MembersOf
<1>4. /\ ObjTable(dict') /\ dict'.cap \in Word /\ MembersOf(dict') = {}
      /\ dict'.active = {}
  BY <1>1, WordIs, EmptyObject
<1>5. Owning(dict', owner')
  BY <1>1, <1>3, <1>4 DEF Owning, ObjInv
<1>6. Iterating(dict', iter, start, seen)
  BY <1>2, IteratingStays DEF ObjInv
<1> QED
  BY <1>1, <1>2, <1>4, <1>5, <1>6 DEF ObjInv

\* A new value of the client.
LEMMA NewValueStep ==
    ASSUME ObjInv, NEW v \in Vals, NewValue(v)
    PROVE  ObjInv'
<1>1. /\ owner[v] = "freed" /\ owner' = [owner EXCEPT ![v] = "client"]
      /\ UNCHANGED <<dict, blocks, ret, iter, start, seen>>
  BY DEF NewValue, iteration
<1>2. owner' \in [Vals -> {"client", "object", "freed"}]
  BY <1>1 DEF ObjInv
<1>3. \A w \in Vals : owner'[w] = "object" <=> owner[w] = "object"
  BY <1>1 DEF ObjInv
<1>4. Owning(dict', owner')
  BY <1>1, <1>3 DEF ObjInv, Owning
<1> QED
  BY <1>1, <1>2, <1>4 DEF ObjInv

\* Every step keeps the invariant.
LEMMA ObjStep ==
    ASSUME ObjInv, [Next]_vars
    PROVE  ObjInv'
<1>1. ASSUME NEW n \in Names, NEW v \in Vals, j2ValueObjectItemSet(n, v) PROVE ObjInv'
  BY <1>1, FailStep, ReplaceStep, InsertStep, GrowStep DEF j2ValueObjectItemSet
<1>2. CASE UNCHANGED vars
  BY <1>2 DEF vars, iteration, ObjInv
<1> QED
  BY <1>1, <1>2, CreateStep, CleanupStep, LookupStep, IterStep, NewValueStep DEF Next

\* It holds of an object that is not there yet.
LEMMA ObjInit == Init => ObjInv
<1> SUFFICES ASSUME Init PROVE ObjInv
  OBVIOUS
<1>1. /\ dict = Empty(0) /\ owner = [v \in Vals |-> "client"] /\ blocks = 0 /\ ret = NULL
      /\ iter = NoItem /\ start = {} /\ seen = <<>>
  BY DEF Init, NoTable
<1>2. /\ ObjTable(dict) /\ dict.cap \in Word /\ MembersOf(dict) = {}
      /\ Cardinality(dict.active) = 0
  BY <1>1, WordIs, EmptyObject
<1>3. Owning(dict, owner)
  BY <1>1, <1>2 DEF Owning
<1>4. Iterating(dict, NoItem, {}, <<>>) /\ <<>> \in Seq(Names)
  BY DEF Iterating
<1> QED
  BY <1>1, <1>2, <1>3, <1>4 DEF ObjInv

\* The invariant of an object, from which the theorems below follow.
LEMMA ObjCorrect == Spec => []ObjInv
<1>1. Init => ObjInv
  BY ObjInit
<1>2. ObjInv /\ [Next]_vars => ObjInv'
  BY ObjStep
<1> QED
  BY <1>1, <1>2, PTL DEF Spec

\* The state of an object keeps its types, with indices that are slots.
THEOREM TypeTheorem == Spec => []TypeOK
<1>1. ObjInv => TypeOK
  <2> SUFFICES ASSUME ObjInv PROVE TypeOK
    OBVIOUS
  <2>1. TableType(dict, Members) /\ dict.active \subseteq Slots(dict) /\ dict.cap \in Nat
    BY DEF ObjInv, ObjTable, WellFormed, TableType, HomesFit
  <2>2. Cardinality(dict.active) \in Nat
    BY <2>1, SlotsFinite
  <2> QED
    BY <2>1, <2>2 DEF ObjInv, TypeOK
<1> QED
  BY <1>1, ObjCorrect, PTL

\* The walk over a hash, which dereferences every item it is promised, gives the
\* members of the hash and as many as there are, however the table came about.
THEOREM WalkTheorem == Spec => []WalkIsSafe
<1>1. ObjInv => WalkIsSafe
  <2> SUFFICES ASSUME ObjInv, NEW h \in Keys
               PROVE  /\ \A i \in DOMAIN Walk(dict, h) : Walk(dict, h)[i] \in Holding(dict, h)
                      /\ Len(Walk(dict, h)) = Cardinality(Holding(dict, h))
    BY DEF WalkIsSafe
  <2>1. /\ Walk(dict, h) \in Seq(Holding(dict, h))
        /\ Len(Walk(dict, h)) = Cardinality(Holding(dict, h))
    BY WalkIs DEF ObjInv, ObjTable
  <2> QED
    BY <2>1
<1> QED
  BY <1>1, ObjCorrect, PTL

\* No two members have one name, through collisions, replacement and growth.
THEOREM NamesTheorem == Spec => []NamesUnique
<1>1. ObjInv => NamesUnique
  <2> SUFFICES ASSUME ObjInv PROVE Cardinality(NamesOf(dict)) = Cardinality(dict.active)
    BY DEF NamesUnique
  <2> DEFINE f == [s \in dict.active |-> dict.value[s].name]
  <2>1. IsFiniteSet(dict.active)
    BY SlotsFinite DEF ObjInv, ObjTable, WellFormed, HomesFit, TableType
  <2>2. NamesOf(dict) = { dict.value[s].name : s \in dict.active }
    BY DEF NamesOf, MembersOf
  <2>3. f \in Bijection(dict.active, NamesOf(dict))
    BY <2>2 DEF ObjInv, ObjTable, Distinct, Bijection, Injection, Surjection, IsInjective
  <2> QED
    BY <2>1, <2>3, FS_Bijection DEF ExistsBijection
<1> QED
  BY <1>1, ObjCorrect, PTL

\* The object owns a value exactly while a member holds it, and one member does.
THEOREM OwnTheorem == Spec => []OwnsWhatItHolds
<1>1. ObjInv => OwnsWhatItHolds
  <2> SUFFICES ASSUME ObjInv, NEW v \in Vals
               PROVE  Cardinality({ s \in dict.active : dict.value[s].val = v })
                        = IF owner[v] = "object" THEN 1 ELSE 0
    BY DEF OwnsWhatItHolds
  <2> DEFINE S == { s \in dict.active : dict.value[s].val = v }
  <2>1. owner[v] = "object" <=> S # {}
    BY DEF ObjInv, Owning, MembersOf
  <2>2. \A s, r \in S : s = r
    BY DEF ObjInv, ObjTable, Unshared
  <2>3. CASE S = {}
    BY <2>1, <2>3, FS_EmptySet
  <2>4. CASE S # {}
    <3>1. PICK s : S = {s}
      BY <2>2, <2>4
    <3> QED
      BY <2>1, <3>1, FS_Singleton
  <2> QED
    BY <2>3, <2>4
<1> QED
  BY <1>1, ObjCorrect, PTL

\* There is a key-value block for each member and no other.
THEOREM BlockTheorem == Spec => []NoBlockLeaks
<1>1. ObjInv => NoBlockLeaks
  BY DEF ObjInv, NoBlockLeaks
<1> QED
  BY <1>1, ObjCorrect, PTL

\* An iteration that sets interrupt misses no member and repeats none.
THEOREM IterationTheorem == Spec => []IterationComplete
<1>1. ObjInv => IterationComplete
  BY DEF ObjInv, Iterating, IterationComplete
<1> QED
  BY <1>1, ObjCorrect, PTL

-----------------------------------------------------------------------------
(***************************************************************************)
(* The object implements a map.                                            *)
(***************************************************************************)

\* What a name maps to in a table.
Value(t, n) ==
    IF \E mem \in MembersOf(t) : mem.name = n
    THEN (CHOOSE mem \in MembersOf(t) : mem.name = n).val
    ELSE NULL

\* A lookup returns the value of the member with the name.
LEMMA LookupIsValue == \A n : Lookup(n) = Value(dict, n)
BY DEF Lookup, Value

\* A value is a member's, and the only one with its name.
LEMMA ValueIs ==
    ASSUME NEW t, Distinct(t), NEW mem \in MembersOf(t)
    PROVE  Value(t, mem.name) = mem.val
<1>1. PICK s \in t.active : t.value[s] = mem
  BY DEF MembersOf
<1>2. ASSUME NEW other \in MembersOf(t), other.name = mem.name PROVE other = mem
  <2>1. PICK r \in t.active : t.value[r] = other
    BY DEF MembersOf
  <2> QED
    BY <1>1, <1>2, <2>1 DEF Distinct
<1>3. (CHOOSE other \in MembersOf(t) : other.name = mem.name) = mem
  BY <1>2
<1> QED
  BY <1>3 DEF Value

\* Tables with the same members but for one name map the other names alike.
LEMMA ValueSame ==
    ASSUME NEW t, Distinct(t), NEW r, Distinct(r), NEW n,
           \A mem : mem.name = n => (mem \in MembersOf(t) <=> mem \in MembersOf(r))
    PROVE  Value(t, n) = Value(r, n)
<1>1. CASE \E mem \in MembersOf(t) : mem.name = n
  <2>1. PICK mem \in MembersOf(t) : mem.name = n
    BY <1>1
  <2>2. mem \in MembersOf(r)
    BY <2>1
  <2> QED
    BY <2>1, <2>2, ValueIs
<1>2. CASE ~\E mem \in MembersOf(t) : mem.name = n
  BY <1>2 DEF Value
<1> QED
  BY <1>1, <1>2

\* A table that has a new member for n, and otherwise the members it had with
\* other names, binds n to the new value.
LEMMA ValueBound ==
    ASSUME NEW t, Distinct(t), NEW r, Distinct(r), NEW n \in Names, NEW v,
           [name |-> n, val |-> v] \in MembersOf(r),
           \A mem : mem.name # n => (mem \in MembersOf(t) <=> mem \in MembersOf(r))
    PROVE  [o \in Names |-> Value(r, o)] = [[o \in Names |-> Value(t, o)] EXCEPT ![n] = v]
<1>1. Value(r, n) = v
  <2> DEFINE mem == [name |-> n, val |-> v]
  <2>1. mem \in MembersOf(r) /\ mem.name = n /\ mem.val = v
    OBVIOUS
  <2> HIDE DEF mem
  <2> QED
    BY <2>1, ValueIs
<1>2. ASSUME NEW o \in Names, o # n PROVE Value(r, o) = Value(t, o)
  <2>1. \A mem : mem.name = o => (mem \in MembersOf(r) <=> mem \in MembersOf(t))
    BY <1>2
  <2> QED
    BY <2>1, ValueSame
<1> QED
  BY <1>1, <1>2

\* No name has a value in an object without members.
LEMMA EmptyValue ==
    ASSUME NEW t, MembersOf(t) = {}
    PROVE  [o \in Names |-> Value(t, o)] = [o \in Names |-> NULL]
BY DEF Value

\* The map of the object.
Bindings(t) == [n \in Names |-> Value(t, n)]

\* The refinement mapping, in the state before a step ...
LEMMA MapBefore == [n \in Names |-> Lookup(n)] = Bindings(dict)
BY DEF Lookup, Value, Bindings

\* ... and after it.
LEMMA MapAfter == [n \in Names |-> Lookup(n)]' = Bindings(dict')
BY DEF Lookup, Value, Bindings

\* A set that returns 0 is a set of the map.
LEMMA MapSets ==
    ASSUME ObjInv, ObjInv', NEW n \in Names, NEW v \in Vals, dict.cap # 0,
           SetReplaces(n, v) \/ SetInserts(n, v) \/ SetGrows(n, v)
    PROVE  Map!Set(n, v)
<1> DEFINE mem == [name |-> n, val |-> v]
<1>1. Distinct(dict) /\ Distinct(dict') /\ ObjTable(dict)
  BY DEF ObjInv, ObjTable
<1>2. /\ mem \in MembersOf(dict')
      /\ \A other : other.name # n => (other \in MembersOf(dict) <=> other \in MembersOf(dict'))
      /\ dict'.cap # 0
  <2>1. CASE SetReplaces(n, v)
    <3> DEFINE q == MatchSlot(dict, n)
    <3>1. owner[v] = "client" /\ Has(dict, n)
          /\ dict' = [dict EXCEPT !.value[q] = [name |-> n, val |-> v]]
      BY <2>1 DEF SetReplaces
    <3>2. q \in dict.active /\ dict.value[q].name = n
      BY <1>1, <3>1, MatchIs
    <3>3. \A other \in MembersOf(dict) : other.val # v
      BY <3>1, ClientsValue
    <3> HIDE DEF q
    <3>4. Overwrites(dict, dict', q, n, v)
      BY <3>1 DEF Overwrites
    <3>5. /\ dict'.cap = dict.cap /\ dict'.active = dict.active
          /\ dict'.value[q] = [name |-> n, val |-> v]
          /\ \A s \in dict.active : s # q => dict'.value[s] = dict.value[s]
      BY <1>1, <3>2, <3>3, <3>4, OverwrittenIs
    <3>6. mem.name = n /\ dict'.value[q] = mem
      BY <3>5
    <3> HIDE DEF mem
    <3>7. mem \in MembersOf(dict')
      BY <3>2, <3>5, <3>6 DEF MembersOf
    <3>8. ASSUME NEW other, other.name # n
          PROVE  other \in MembersOf(dict) <=> other \in MembersOf(dict')
      <4>1. \A s \in dict.active : dict.value[s] = other <=> dict'.value[s] = other
        BY <3>2, <3>5, <3>6, <3>8
      <4> QED
        BY <3>5, <4>1 DEF MembersOf
    <3> QED
      BY <3>5, <3>7, <3>8
  <2>2. ASSUME NEW t, ObjTable(t), t.cap # 0, t.size # t.cap, MembersOf(t) = MembersOf(dict),
               owner[v] = "client", ~Has(dict, n), Stored(n, v, t)
        PROVE  /\ mem \in MembersOf(dict')
               /\ \A other : other.name # n =>
                    (other \in MembersOf(dict) <=> other \in MembersOf(dict'))
               /\ dict'.cap # 0
    <3>1. \A other \in MembersOf(t) : other.name # n /\ other.val # v
      BY <2>2, ClientsValue, NewName
    <3>2. dict' = Inserted(t, Hash(n), [name |-> n, val |-> v])
      BY <2>2 DEF Stored
    <3>3. dict'.cap = t.cap /\ MembersOf(dict') = MembersOf(t) \union {mem}
      BY <2>2, <3>1, <3>2, StoredIs
    <3>4. mem.name = n
      OBVIOUS
    <3> HIDE DEF mem
    <3> QED
      BY <2>2, <3>3, <3>4
  <2>3. CASE SetInserts(n, v)
    <3>1. dict.size # dict.cap /\ owner[v] = "client" /\ ~Has(dict, n) /\ Stored(n, v, dict)
      BY <2>3 DEF SetInserts
    <3> QED
      BY <1>1, <2>2, <3>1
  <2>4. CASE SetGrows(n, v)
    <3>1. /\ owner[v] = "client" /\ ~Has(dict, n)
          /\ Stored(n, v, Rehashed(dict, Doubled(dict)))
      BY <2>4 DEF SetGrows
    <3>2. /\ ObjTable(Rehashed(dict, Doubled(dict))) /\ Rehashed(dict, Doubled(dict)).cap # 0
          /\ Rehashed(dict, Doubled(dict)).size # Rehashed(dict, Doubled(dict)).cap
          /\ MembersOf(Rehashed(dict, Doubled(dict))) = MembersOf(dict)
      BY <2>4, GrownTable
    <3> QED
      BY <2>2, <3>1, <3>2
  <2> QED
    BY <2>1, <2>3, <2>4
<1>3. Bindings(dict') = [Bindings(dict) EXCEPT ![n] = v]
  BY <1>1, <1>2, ValueBound DEF Bindings
<1>4. ret' = 0
  BY DEF SetReplaces, SetInserts, SetGrows, Stored
<1> QED
  BY <1>2, <1>3, <1>4, MapBefore, MapAfter DEF Map!Set, Exists

\* Every step is one of the map, or a stutter.
LEMMA MapStep ==
    ASSUME ObjInv, ObjInv', [Next]_vars
    PROVE  [Map!Next]_(Map!mapVars)
<1>1. CASE j2InitObject
  <2>1. dict.cap = 0 /\ dict' = Empty(ICap) /\ ret' = NULL
    BY <1>1 DEF j2InitObject, Exists
  <2>2. MembersOf(dict') = {} /\ dict'.cap # 0
    BY <2>1, WordIs, EmptyObject
  <2>3. Bindings(dict') = [n \in Names |-> NULL]
    BY <2>2, EmptyValue DEF Bindings
  <2>4. Map!Create
    BY <2>1, <2>2, <2>3, MapAfter DEF Map!Create, Map!Unbound, Exists
  <2> QED
    BY <2>4 DEF Map!Next
<1>2. CASE j2Cleanup
  <2>1. dict.cap # 0 /\ dict' = Empty(0) /\ ret' = NULL
    BY <1>2 DEF j2Cleanup, Exists, NoTable
  <2>2. MembersOf(dict') = {} /\ dict'.cap = 0
    BY <2>1, WordIs, EmptyObject
  <2>3. Bindings(dict') = [n \in Names |-> NULL]
    BY <2>2, EmptyValue DEF Bindings
  <2>4. Map!Destroy
    BY <2>1, <2>2, <2>3, MapAfter DEF Map!Destroy, Map!Unbound, Exists
  <2> QED
    BY <2>4 DEF Map!Next
<1>3. ASSUME NEW n \in Names, NEW v \in Vals, j2ValueObjectItemSet(n, v)
      PROVE  Map!Next
  <2>1. CASE SetReplaces(n, v) \/ SetInserts(n, v) \/ SetGrows(n, v)
    <3>1. dict.cap # 0
      BY <2>1 DEF SetReplaces, SetInserts, SetGrows, Exists
    <3>2. Map!Set(n, v)
      BY <2>1, <3>1, MapSets
    <3> QED
      BY <3>2 DEF Map!Next
  <2>2. CASE SetFails(n, v) \/ SetRefused(n, v)
    <3>1. dict.cap # 0 /\ dict' = dict /\ ret' = -1
      BY <2>2 DEF SetFails, SetRefused, Exists
    <3>2. Map!Refuse
      BY <3>1, MapBefore, MapAfter DEF Map!Refuse, Exists
    <3> QED
      BY <3>2 DEF Map!Next
  <2> QED
    BY <1>3, <2>1, <2>2 DEF j2ValueObjectItemSet
<1>4. ASSUME NEW n \in Names, j2ValueObjectItem(n)
      PROVE  Map!Next
  <2>1. /\ dict.cap # 0 /\ dict' = dict
        /\ ret' = IF Has(dict, n) THEN dict.value[MatchSlot(dict, n)].val ELSE NULL
    BY <1>4 DEF j2ValueObjectItem, Exists
  <2>2. ret' = Value(dict, n)
    <3>1. ObjTable(dict) /\ Distinct(dict)
      BY DEF ObjInv, ObjTable
    <3>2. CASE Has(dict, n)
      <4> DEFINE mem == dict.value[MatchSlot(dict, n)]
      <4>1. mem \in MembersOf(dict) /\ mem.name = n
        BY <3>1, <3>2, MatchIs DEF MembersOf
      <4>2. ret' = mem.val
        BY <2>1, <3>2
      <4> HIDE DEF mem
      <4> QED
        BY <3>1, <4>1, <4>2, ValueIs
    <3>3. CASE ~Has(dict, n)
      <4>1. ~\E mem \in MembersOf(dict) : mem.name = n
        BY <3>1, <3>3, MatchIs DEF MembersOf
      <4> QED
        BY <2>1, <3>3, <4>1 DEF Value
    <3> QED
      BY <3>2, <3>3
  <2>3. Bindings(dict)[n] = Value(dict, n)
    BY DEF Bindings
  <2>4. Map!Item(n)
    BY <2>1, <2>2, <2>3, MapBefore, MapAfter DEF Map!Item, Exists
  <2> QED
    BY <2>4 DEF Map!Next
<1>5. CASE j2ValueObjectIterFirst \/ j2ValueObjectIterNext
  <2>1. dict' = dict /\ ret' = NULL
    BY <1>5 DEF j2ValueObjectIterFirst, j2ValueObjectIterNext
  <2>2. Map!Look
    BY <2>1, MapBefore, MapAfter DEF Map!Look, Exists
  <2> QED
    BY <2>2 DEF Map!Next
<1>6. CASE UNCHANGED vars \/ \E v \in Vals : NewValue(v)
  <2>1. dict' = dict /\ ret' = ret
    BY <1>6 DEF vars, iteration, NewValue
  <2> QED
    BY <2>1, MapBefore, MapAfter DEF Map!mapVars, Exists
<1> QED
  BY <1>1, <1>2, <1>3, <1>4, <1>5, <1>6 DEF Next

\* The first state is the map's.
LEMMA MapInit == Init => Map!Init
<1> SUFFICES ASSUME Init PROVE Map!Init
  OBVIOUS
<1>1. dict = Empty(0) /\ ret = NULL
  BY DEF Init, NoTable
<1>2. MembersOf(dict) = {} /\ dict.cap = 0
  BY <1>1, WordIs, EmptyObject
<1>3. Bindings(dict) = [n \in Names |-> NULL]
  BY <1>2, EmptyValue DEF Bindings
<1> QED
  BY <1>1, <1>2, <1>3, MapBefore DEF Map!Init, Map!Unbound, Exists

\* An object is a map: a set that returns 0 binds its name and no other, one that
\* returns -1 changes nothing, a lookup gives what was set last.
THEOREM MapTheorem == Spec => ImplementsMap
<1>1. Init => Map!Init
  BY MapInit
<1>2. ObjInv /\ ObjInv' /\ [Next]_vars => [Map!Next]_(Map!mapVars)
  BY MapStep
<1> QED
  BY <1>1, <1>2, ObjCorrect, PTL DEF Spec, ImplementsMap, Map!Spec
=============================================================================
