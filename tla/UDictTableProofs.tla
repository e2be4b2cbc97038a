--------------------------- MODULE UDictTableProofs ---------------------------
(***************************************************************************)
(* Lemmas about the hash table's operators, for every capacity and every   *)
(* hash function that gives a slot: what a probe finds, and that udInsert  *)
(* and udReset keep a table well formed.                                   *)
(***************************************************************************)
EXTENDS UDictTable, NatLemmas, FiniteSetTheorems

-----------------------------------------------------------------------------
(***************************************************************************)
(* Probing                                                                 *)
(***************************************************************************)

\* The two passes of a probe meet every slot at a time of its own.
LEMMA StepsOrder ==
    ASSUME NEW t, t.cap \in Nat \ {0}, NEW h \in Slots(t),
           NEW p \in Slots(t), NEW s \in Slots(t)
    PROVE  /\ Steps(t, h, p) \in 0 .. t.cap - 1
           /\ Steps(t, h, s) \in 0 .. t.cap - 1
           /\ Steps(t, h, p) = Steps(t, h, s) <=> p = s
BY DEF Steps, Slots

\* A probe meets one of the slots it looks for first.
LEMMA FirstFromIs ==
    ASSUME NEW t, t.cap \in Nat \ {0}, NEW h \in Slots(t),
           NEW S \in SUBSET Slots(t), S # {}
    PROVE  /\ FirstFrom(t, h, S) \in S
           /\ \A s \in S : Steps(t, h, FirstFrom(t, h, S)) <= Steps(t, h, s)
<1> DEFINE T == { Steps(t, h, s) : s \in S }
<1>1. T \in SUBSET Nat /\ T # {}
  BY StepsOrder
<1>2. PICK m \in T : \A n \in T : m <= n
  BY <1>1, LeastNumber
<1>3. \E p \in S : \A s \in S : Steps(t, h, p) <= Steps(t, h, s)
  BY <1>2
<1> QED
  BY <1>3 DEF FirstFrom

\* And no other one.
LEMMA FirstFromOnly ==
    ASSUME NEW t, t.cap \in Nat \ {0}, NEW h \in Slots(t),
           NEW S \in SUBSET Slots(t),
           NEW p \in S, \A s \in S : Steps(t, h, p) <= Steps(t, h, s)
    PROVE  FirstFrom(t, h, S) = p
<1> DEFINE q == FirstFrom(t, h, S)
<1>1. q \in S /\ \A s \in S : Steps(t, h, q) <= Steps(t, h, s)
  BY FirstFromIs
<1> HIDE DEF q
<1>2. Steps(t, h, p) <= Steps(t, h, q) /\ Steps(t, h, q) <= Steps(t, h, p)
  BY <1>1
<1>3. /\ Steps(t, h, p) \in 0 .. t.cap - 1 /\ Steps(t, h, q) \in 0 .. t.cap - 1
      /\ Steps(t, h, p) = Steps(t, h, q) <=> p = q
  BY <1>1, StepsOrder
<1>4. p = q
  BY <1>2, <1>3
<1> QED
  BY <1>4 DEF q

-----------------------------------------------------------------------------
(***************************************************************************)
(* Well-formed tables                                                      *)
(***************************************************************************)

\* A table has the fields of `struct udict_t`.
IsTable(t) ==
    t = [cap |-> t.cap, size |-> t.size, active |-> t.active,
         key |-> t.key, value |-> t.value, dups |-> t.dups]

\* Every key has a home in a table that has a slot.
HomesFit(t) ==
    /\ t.cap \in Nat
    /\ t.cap # 0 => \A k \in Keys : HomeOf(t, k) \in Slots(t)

WellFormed(t, Values) ==
    /\ IsTable(t)
    /\ HomesFit(t)
    /\ TableType(t, Values)
    /\ SizeCounts(t)
    /\ Reachable(t)
    /\ DupsCount(t)

\* Every set of slots is finite.
LEMMA SlotsFinite ==
    ASSUME NEW t, t.cap \in Nat, NEW S \in SUBSET Slots(t)
    PROVE  /\ IsFiniteSet(Slots(t)) /\ Cardinality(Slots(t)) = t.cap
           /\ IsFiniteSet(S) /\ Cardinality(S) \in Nat
           /\ Cardinality(S) <= t.cap
           /\ Cardinality(S) = t.cap => S = Slots(t)
<1>1. IsFiniteSet(Slots(t)) /\ Cardinality(Slots(t)) = t.cap
  <2>1. 0 \in Int /\ t.cap - 1 \in Int
    OBVIOUS
  <2>2. /\ IsFiniteSet(0 .. t.cap - 1)
        /\ Cardinality(0 .. t.cap - 1) = IF 0 > t.cap - 1 THEN 0 ELSE (t.cap - 1) - 0 + 1
    BY <2>1, FS_Interval
  <2> QED
    BY <2>2 DEF Slots
<1> QED
  BY <1>1, FS_Subset, FS_CardinalityType

\* A table is full when its size says so, and only then.
LEMMA FullMeansNoneFree ==
    ASSUME NEW t, t.cap \in Nat, t.active \subseteq Slots(t), SizeCounts(t)
    PROVE  t.size = t.cap <=> Free(t) = {}
<1>1. t.size = t.cap => t.active = Slots(t)
  BY SlotsFinite DEF SizeCounts
<1>2. t.active = Slots(t) => t.size = t.cap
  BY SlotsFinite DEF SizeCounts
<1> QED
  BY <1>1, <1>2 DEF Free

\* An empty table is well formed.
LEMMA EmptyFields ==
    ASSUME NEW c
    PROVE  /\ Empty(c).cap = c
           /\ Empty(c).size = 0
           /\ Empty(c).active = {}
           /\ Empty(c).key = [s \in 0 .. c - 1 |-> 0]
           /\ Empty(c).value = [s \in 0 .. c - 1 |-> NULL]
           /\ Empty(c).dups = [s \in 0 .. c - 1 |-> 0]
           /\ IsTable(Empty(c))
BY DEF Empty, IsTable

\* So it is well formed.
LEMMA EmptyWellFormed ==
    ASSUME NEW c \in Nat, NEW Values,
           c # 0 => \A k \in Keys : Home(k, c) \in 0 .. c - 1
    PROVE  WellFormed(Empty(c), Values)
<1> DEFINE t == Empty(c)
<1>1. /\ t.cap = c /\ t.size = 0 /\ t.active = {}
      /\ t.key = [s \in 0 .. c - 1 |-> 0]
      /\ t.value = [s \in 0 .. c - 1 |-> NULL]
      /\ t.dups = [s \in 0 .. c - 1 |-> 0]
      /\ IsTable(t)
  BY EmptyFields
<1> HIDE DEF t
<1>2. HomesFit(t)
  BY <1>1 DEF HomesFit, HomeOf, Slots
<1>3. TableType(t, Values)
  BY <1>1 DEF TableType, Slots
<1>4. SizeCounts(t)
  BY <1>1, FS_EmptySet DEF SizeCounts
<1>5. Reachable(t)
  BY <1>1 DEF Reachable
<1>6. DupsCount(t)
  BY <1>1 DEF DupsCount, Slots
<1>7. WellFormed(t, Values)
  BY <1>1, <1>2, <1>3, <1>4, <1>5, <1>6 DEF WellFormed
<1> QED
  BY <1>7 DEF t

-----------------------------------------------------------------------------
(***************************************************************************)
(* A pair that lands in a free slot                                        *)
(***************************************************************************)

\* Probes depend on the capacity only.
LEMMA SameProbes ==
    ASSUME NEW t, NEW r, r.cap = t.cap
    PROVE  /\ Slots(r) = Slots(t)
           /\ \A k : HomeOf(r, k) = HomeOf(t, k)
           /\ \A h, p : Steps(r, h, p) = Steps(t, h, p)
           /\ \A h, p : Passed(r, h, p) = Passed(t, h, p)
BY DEF Slots, HomeOf, Steps, Passed

\* p is the free slot a probe for k meets first.
Lands(t, k, p) ==
    /\ p \in Free(t)
    /\ \A s \in Free(t) : Steps(t, HomeOf(t, k), p) <= Steps(t, HomeOf(t, k), s)

\* Where k lands, the probe has passed active slots only, and every pair with
\* the key.
LEMMA LandsBehind ==
    ASSUME NEW t, NEW Values, WellFormed(t, Values), NEW k \in Keys, NEW p, Lands(t, k, p)
    PROVE  /\ t.cap \in Nat \ {0} /\ p \in Slots(t) /\ p \notin t.active
           /\ HomeOf(t, k) \in Slots(t)
           /\ Passed(t, HomeOf(t, k), p) \subseteq t.active
           /\ \A s \in Slots(t) : s \in Passed(t, HomeOf(t, k), p) /\ t.key[s] = k
                                    <=> s \in Holding(t, k)
<1> DEFINE h == HomeOf(t, k)
<1>1. t.cap \in Nat \ {0} /\ p \in Slots(t) /\ p \notin t.active /\ h \in Slots(t)
  <2>1. p \in Slots(t) /\ p \notin t.active /\ t.cap \in Nat
    BY DEF Lands, Free, WellFormed, HomesFit
  <2>2. t.cap # 0
    BY <2>1 DEF Slots
  <2> QED
    BY <2>1, <2>2 DEF WellFormed, HomesFit
<1>2. ASSUME NEW s \in Passed(t, h, p) PROVE s \in t.active
  <2>1. s \in Slots(t) /\ Steps(t, h, s) < Steps(t, h, p)
    BY DEF Passed
  <2>2. Steps(t, h, s) \in Nat /\ Steps(t, h, p) \in Nat
    BY <1>1, <2>1, StepsOrder
  <2>3. s \in Free(t) => Steps(t, h, p) <= Steps(t, h, s)
    BY DEF Lands
  <2>4. s \notin Free(t)
    BY <2>1, <2>2, <2>3
  <2> QED
    BY <2>1, <2>4 DEF Free
<1>3. ASSUME NEW s \in Holding(t, k) PROVE s \in Passed(t, h, p)
  <2>1. s \in t.active /\ s \in Slots(t) /\ t.key[s] = k
    BY DEF Holding, WellFormed, TableType
  <2>2. Passed(t, h, s) \subseteq t.active
    BY <2>1 DEF WellFormed, Reachable
  <2>3. ~(Steps(t, h, p) < Steps(t, h, s))
    BY <1>1, <2>2 DEF Passed
  <2>4. s # p
    BY <1>1, <2>1
  <2>5. /\ Steps(t, h, s) \in 0 .. t.cap - 1 /\ Steps(t, h, p) \in 0 .. t.cap - 1
        /\ Steps(t, h, p) = Steps(t, h, s) <=> p = s
    BY <1>1, <2>1, StepsOrder
  <2>6. Steps(t, h, s) < Steps(t, h, p)
    BY <1>1, <2>3, <2>4, <2>5
  <2> QED
    BY <2>1, <2>6 DEF Passed
<1>4. ASSUME NEW s \in Slots(t), s \in Passed(t, h, p), t.key[s] = k
      PROVE  s \in Holding(t, k)
  BY <1>2, <1>4 DEF Holding
<1>5. ASSUME NEW s \in Holding(t, k) PROVE t.key[s] = k
  BY DEF Holding
<1> HIDE DEF h
<1> QED
  BY <1>1, <1>2, <1>3, <1>4, <1>5 DEF h

\* The table after a pair landed in p, whatever the duplicate counts.
Landed(t, r, k, p) ==
    /\ r.cap = t.cap
    /\ r.size = t.size + 1
    /\ r.active = t.active \union {p}
    /\ r.key = [t.key EXCEPT ![p] = k]

\* A new pair in its slot leaves types and count right.
LEMMA LandedHolds ==
    ASSUME NEW t, NEW Values, WellFormed(t, Values), NEW k \in Keys, NEW p, Lands(t, k, p),
           NEW r, Landed(t, r, k, p)
    PROVE  /\ r.active \subseteq Slots(r)
           /\ r.key \in [Slots(r) -> Keys \union {0}]
           /\ \A s \in r.active : r.key[s] \in Keys
           /\ r.size \in 0 .. r.cap
           /\ SizeCounts(r)
<1>1. t.cap \in Nat \ {0} /\ p \in Slots(t) /\ p \notin t.active
  BY LandsBehind
<1>2. /\ r.cap = t.cap /\ r.size = t.size + 1 /\ r.active = t.active \union {p}
      /\ r.key = [t.key EXCEPT ![p] = k] /\ Slots(r) = Slots(t)
  BY SameProbes DEF Landed
<1>3. TableType(t, Values) /\ SizeCounts(t)
  BY DEF WellFormed
<1>4. r.active \subseteq Slots(r)
  BY <1>1, <1>2, <1>3 DEF TableType
<1>5. r.key \in [Slots(r) -> Keys \union {0}] /\ \A s \in r.active : r.key[s] \in Keys
  BY <1>1, <1>2, <1>3 DEF TableType
<1>6. SizeCounts(r)
  <2>1. IsFiniteSet(t.active)
    BY <1>1, <1>3, SlotsFinite DEF TableType
  <2>2. Cardinality(t.active \union {p}) = Cardinality(t.active) + 1
    BY <1>1, <2>1, FS_AddElement
  <2> QED
    BY <1>2, <1>3, <2>2 DEF SizeCounts
<1>7. r.size \in 0 .. r.cap
  <2>1. r.cap \in Nat
    BY <1>1, <1>2
  <2>2. Cardinality(r.active) \in Nat /\ Cardinality(r.active) <= r.cap
    BY <1>4, <2>1, SlotsFinite
  <2> QED
    BY <1>6, <2>1, <2>2 DEF SizeCounts
<1> QED
  BY <1>4, <1>5, <1>6, <1>7

\* No probe gets stuck before a pair that could be found until then, nor before
\* the pair that landed.
LEMMA LandedReachable ==
    ASSUME NEW t, NEW Values, WellFormed(t, Values), NEW k \in Keys, NEW p, Lands(t, k, p),
           NEW r, Landed(t, r, k, p)
    PROVE  Reachable(r)
<1>1. /\ p \in Slots(t) /\ p \notin t.active
      /\ Passed(t, HomeOf(t, k), p) \subseteq t.active
  BY LandsBehind
<1>2. /\ r.active = t.active \union {p} /\ r.key = [t.key EXCEPT ![p] = k]
      /\ \A j : HomeOf(r, j) = HomeOf(t, j)
      /\ \A h, q : Passed(r, h, q) = Passed(t, h, q)
  BY SameProbes DEF Landed
<1>3. t.active \subseteq Slots(t) /\ DOMAIN t.key = Slots(t)
  BY DEF WellFormed, TableType
<1>4. ASSUME NEW q \in r.active
      PROVE  Passed(r, HomeOf(r, r.key[q]), q) \subseteq r.active
  <2>1. CASE q = p
    BY <1>1, <1>2, <1>3, <2>1
  <2>2. CASE q # p
    <3>1. q \in t.active /\ r.key[q] = t.key[q]
      BY <1>2, <1>3, <2>2
    <3>2. Passed(t, HomeOf(t, t.key[q]), q) \subseteq t.active
      BY <3>1 DEF WellFormed, Reachable
    <3> QED
      BY <1>2, <3>1, <3>2
  <2> QED
    BY <2>1, <2>2
<1> QED
  BY <1>4 DEF Reachable

\* The pair that landed is the last of its key; the pairs with its key have one
\* more behind them, the others as many as before.
LEMMA LandedDuplicates ==
    ASSUME NEW t, NEW Values, WellFormed(t, Values), NEW k \in Keys, NEW p, Lands(t, k, p),
           NEW r, Landed(t, r, k, p)
    PROVE  /\ LaterDuplicates(r, p) = {}
           /\ \A q \in t.active :
                LaterDuplicates(r, q) = IF q \in Holding(t, k)
                                        THEN LaterDuplicates(t, q) \union {p}
                                        ELSE LaterDuplicates(t, q)
<1>1. /\ t.cap \in Nat \ {0} /\ p \in Slots(t) /\ p \notin t.active
      /\ HomeOf(t, k) \in Slots(t)
      /\ \A s \in Slots(t) : s \in Passed(t, HomeOf(t, k), p) /\ t.key[s] = k
                               <=> s \in Holding(t, k)
  BY LandsBehind
<1>2. /\ r.active = t.active \union {p} /\ r.key = [t.key EXCEPT ![p] = k]
      /\ \A j : HomeOf(r, j) = HomeOf(t, j)
      /\ \A h, q : Steps(r, h, q) = Steps(t, h, q)
  BY SameProbes DEF Landed
<1>3. t.active \subseteq Slots(t) /\ DOMAIN t.key = Slots(t)
  BY DEF WellFormed, TableType
<1>4. \A s \in Slots(t) : r.key[s] = IF s = p THEN k ELSE t.key[s]
  BY <1>1, <1>2, <1>3
<1>5. \A j : Holding(r, j) = IF j = k THEN Holding(t, k) \union {p} ELSE Holding(t, j)
  BY <1>1, <1>2, <1>3, <1>4 DEF Holding
<1>6. ASSUME NEW s \in Holding(t, k)
      PROVE  Steps(t, HomeOf(t, k), s) < Steps(t, HomeOf(t, k), p)
  <2>1. s \in Slots(t)
    BY <1>3 DEF Holding
  <2>2. s \in Passed(t, HomeOf(t, k), p)
    BY <1>1, <2>1
  <2> QED
    BY <2>2 DEF Passed
<1>7. ASSUME NEW s \in Slots(t)
      PROVE  Steps(t, HomeOf(t, k), s) \in Nat
  BY <1>1, StepsOrder
<1>8. LaterDuplicates(r, p) = {}
  <2>1. r.key[p] = k
    BY <1>1, <1>4
  <2>2. ASSUME NEW s \in Holding(r, k)
        PROVE  ~(Steps(t, HomeOf(t, k), s) > Steps(t, HomeOf(t, k), p))
    <3>1. CASE s = p
      BY <1>1, <1>7, <3>1
    <3>2. CASE s # p
      <4>1. s \in Holding(t, k) /\ s \in Slots(t)
        BY <1>3, <1>5, <3>2 DEF Holding
      <4> QED
        BY <1>1, <1>6, <1>7, <4>1
    <3> QED
      BY <3>1, <3>2
  <2> QED
    BY <1>2, <2>1, <2>2 DEF LaterDuplicates
<1>9. ASSUME NEW q \in t.active, q \in Holding(t, k)
      PROVE  LaterDuplicates(r, q) = LaterDuplicates(t, q) \union {p}
  <2>1. r.key[q] = k /\ t.key[q] = k
    BY <1>1, <1>3, <1>4, <1>9 DEF Holding
  <2>2. /\ LaterDuplicates(t, q)
             = { s \in Holding(t, k) : Steps(t, HomeOf(t, k), s) > Steps(t, HomeOf(t, k), q) }
        /\ LaterDuplicates(r, q)
             = { s \in Holding(t, k) \union {p} :
                   Steps(t, HomeOf(t, k), s) > Steps(t, HomeOf(t, k), q) }
    BY <1>2, <1>5, <2>1 DEF LaterDuplicates
  <2>3. Steps(t, HomeOf(t, k), p) > Steps(t, HomeOf(t, k), q)
    BY <1>1, <1>3, <1>6, <1>7, <1>9
  <2> QED
    BY <2>2, <2>3
<1>10. ASSUME NEW q \in t.active, q \notin Holding(t, k)
       PROVE  LaterDuplicates(r, q) = LaterDuplicates(t, q)
  <2>1. r.key[q] = t.key[q] /\ t.key[q] # k
    BY <1>1, <1>3, <1>4, <1>10 DEF Holding
  <2> QED
    BY <1>2, <1>5, <2>1 DEF LaterDuplicates
<1> QED
  BY <1>8, <1>9, <1>10

-----------------------------------------------------------------------------
(***************************************************************************)
(* udInsert                                                                *)
(***************************************************************************)

\* A table that is not full gives the pair the first free slot, a full one none.
LEMMA InsertSlotIs ==
    ASSUME NEW t, NEW Values, WellFormed(t, Values), t.cap # 0, NEW k \in Keys
    PROVE  IF t.size = t.cap THEN InsertSlot(t, k) = NoItem
           ELSE Lands(t, k, InsertSlot(t, k)) /\ InsertSlot(t, k) # NoItem
<1>1. /\ t.cap \in Nat \ {0} /\ HomeOf(t, k) \in Slots(t)
      /\ t.active \subseteq Slots(t) /\ SizeCounts(t)
  BY DEF WellFormed, HomesFit, TableType
<1>2. CASE t.size = t.cap
  BY <1>2 DEF InsertSlot
<1>3. CASE t.size # t.cap
  <2>1. Free(t) # {} /\ Free(t) \subseteq Slots(t)
    BY <1>1, <1>3, FullMeansNoneFree DEF Free
  <2>2. InsertSlot(t, k) = FirstFrom(t, HomeOf(t, k), Free(t))
    BY <1>3 DEF InsertSlot
  <2>3. Lands(t, k, InsertSlot(t, k))
    BY <1>1, <2>1, <2>2, FirstFromIs DEF Lands
  <2>4. InsertSlot(t, k) \in Slots(t)
    BY <2>1, <2>3 DEF Lands
  <2> QED
    BY <1>3, <2>3, <2>4 DEF Slots, NoItem
<1> QED
  BY <1>2, <1>3

\* The fields after udInsert.
LEMMA InsertedFields ==
    ASSUME NEW t, IsTable(t), NEW k, NEW v, NEW p, p = InsertSlot(t, k), p # NoItem
    PROVE  /\ IsTable(Inserted(t, k, v))
           /\ Landed(t, Inserted(t, k, v), k, p)
           /\ Inserted(t, k, v).value = [t.value EXCEPT ![p] = v]
           /\ Inserted(t, k, v).dups = [s \in Slots(t) |->
                                          IF CountsAt(t, k, p, s)
                                          THEN t.dups[s] + 1 ELSE t.dups[s]]
<1> DEFINE d == [s \in Slots(t) |-> IF CountsAt(t, k, p, s)
                                    THEN t.dups[s] + 1 ELSE t.dups[s]]
           r == [cap |-> t.cap, size |-> t.size + 1, active |-> t.active \union {p},
                 key |-> [t.key EXCEPT ![p] = k], value |-> [t.value EXCEPT ![p] = v],
                 dups |-> d]
<1>1. Inserted(t, k, v) = [t EXCEPT !.size = t.size + 1,
                                    !.active = t.active \union {p},
                                    !.key = [t.key EXCEPT ![p] = k],
                                    !.value = [t.value EXCEPT ![p] = v],
                                    !.dups = d]
  BY DEF Inserted
<1> HIDE DEF d
<1>2. Inserted(t, k, v) = r
  BY <1>1 DEF IsTable
<1>3. /\ r.cap = t.cap /\ r.size = t.size + 1 /\ r.active = t.active \union {p}
      /\ r.key = [t.key EXCEPT ![p] = k] /\ r.value = [t.value EXCEPT ![p] = v]
      /\ r.dups = d
  OBVIOUS
<1>4. IsTable(r)
  BY DEF IsTable
<1> HIDE DEF r
<1> QED
  BY <1>2, <1>3, <1>4 DEF Landed, d

\* udInsert keeps a table well formed, its duplicate counts included.
LEMMA InsertKeeps ==
    ASSUME NEW t, NEW Values, WellFormed(t, Values), t.cap # 0,
           NEW k \in Keys, NEW v \in Values \union {NULL}
    PROVE  WellFormed(Inserted(t, k, v), Values)
<1> DEFINE p == InsertSlot(t, k)
           r == Inserted(t, k, v)
<1>1. CASE p = NoItem
  BY <1>1 DEF Inserted
<1>2. CASE p # NoItem
  <2>1. Lands(t, k, p)
    BY <1>2, InsertSlotIs
  <2>2. /\ IsTable(r) /\ Landed(t, r, k, p)
        /\ r.value = [t.value EXCEPT ![p] = v]
        /\ r.dups = [s \in Slots(t) |-> IF CountsAt(t, k, p, s)
                                        THEN t.dups[s] + 1 ELSE t.dups[s]]
    BY <1>2, InsertedFields DEF WellFormed
  <2> HIDE DEF p, r
  <2>3. /\ t.cap \in Nat \ {0} /\ p \in Slots(t) /\ p \notin t.active
        /\ \A s \in Slots(t) : CountsAt(t, k, p, s) <=> s \in Holding(t, k)
    BY <2>1, LandsBehind DEF CountsAt
  <2>4. r.cap = t.cap /\ r.active = t.active \union {p} /\ Slots(r) = Slots(t)
    BY <2>2, SameProbes DEF Landed
  <2>5. /\ t.value \in [Slots(t) -> Values \union {NULL}]
        /\ t.dups \in [Slots(t) -> Nat] /\ t.active \subseteq Slots(t)
    BY DEF WellFormed, TableType
  <2>6. TableType(r, Values)
    <3>1. r.value \in [Slots(r) -> Values \union {NULL}] /\ r.dups \in [Slots(r) -> Nat]
      BY <2>2, <2>3, <2>4, <2>5
    <3> QED
      BY <2>1, <2>2, <3>1, LandedHolds DEF TableType
  <2>7. SizeCounts(r) /\ Reachable(r)
    BY <2>1, <2>2, LandedHolds, LandedReachable
  <2>8. HomesFit(r)
    BY <2>4, SameProbes DEF WellFormed, HomesFit
  <2>9. DupsCount(r)
    <3>1. ASSUME NEW q \in Slots(t)
          PROVE  r.dups[q] = IF q \in r.active
                             THEN Cardinality(LaterDuplicates(r, q)) ELSE 0
      <4>1. t.dups[q] = IF q \in t.active THEN Cardinality(LaterDuplicates(t, q)) ELSE 0
        BY DEF WellFormed, DupsCount
      <4>2. r.dups[q] = IF q \in Holding(t, k) THEN t.dups[q] + 1 ELSE t.dups[q]
        BY <2>2, <2>3
      <4>3. CASE q = p
        <5>1. q \notin Holding(t, k)
          BY <2>3, <4>3 DEF Holding
        <5>2. LaterDuplicates(r, q) = {}
          BY <2>1, <2>2, <4>3, LandedDuplicates
        <5> QED
          BY <2>3, <2>4, <4>1, <4>2, <4>3, <5>1, <5>2, FS_EmptySet
      <4>4. CASE q \in t.active /\ q \in Holding(t, k)
        <5>1. LaterDuplicates(r, q) = LaterDuplicates(t, q) \union {p}
          BY <2>1, <2>2, <4>4, LandedDuplicates
        <5>2. LaterDuplicates(t, q) \subseteq t.active
          BY DEF LaterDuplicates, Holding
        <5>3. IsFiniteSet(LaterDuplicates(t, q)) /\ p \notin LaterDuplicates(t, q)
          BY <2>3, <2>5, <5>2, SlotsFinite
        <5>4. Cardinality(LaterDuplicates(r, q)) = Cardinality(LaterDuplicates(t, q)) + 1
          BY <5>1, <5>3, FS_AddElement
        <5> QED
          BY <2>4, <4>1, <4>2, <4>4, <5>4
      <4>5. CASE q \in t.active /\ q \notin Holding(t, k)
        BY <2>1, <2>2, <2>4, <4>1, <4>2, <4>5, LandedDuplicates
      <4>6. CASE q \notin t.active /\ q # p
        <5>1. q \notin Holding(t, k) /\ q \notin r.active
          BY <2>4, <4>6 DEF Holding
        <5> QED
          BY <4>1, <4>2, <4>6, <5>1
      <4> QED
        BY <4>3, <4>4, <4>5, <4>6
    <3> QED
      BY <2>4, <3>1 DEF DupsCount
  <2>10. WellFormed(r, Values)
    BY <2>2, <2>6, <2>7, <2>8, <2>9 DEF WellFormed
  <2> QED
    BY <2>10 DEF r
<1> QED
  BY <1>1, <1>2

-----------------------------------------------------------------------------
(***************************************************************************)
(* Looking for a key                                                       *)
(***************************************************************************)

\* A probe for k that stops at all stops at the first pair with the key when
\* there is one, and otherwise where a pair with the key would land.
LEMMA ProbeStops ==
    ASSUME NEW t, NEW Values, WellFormed(t, Values), t.cap # 0, NEW k \in Keys,
           Stops(t, k) # {}, NEW p, p = FirstFrom(t, HomeOf(t, k), Stops(t, k))
    PROVE  /\ p \in Slots(t)
           /\ p \in t.active => /\ p \in Holding(t, k)
                                /\ Passed(t, HomeOf(t, k), p) \cap Holding(t, k) = {}
           /\ p \notin t.active => Lands(t, k, p) /\ Holding(t, k) = {}
<1> DEFINE h == HomeOf(t, k)
<1>1. /\ t.cap \in Nat \ {0} /\ h \in Slots(t) /\ t.active \subseteq Slots(t)
      /\ Holding(t, k) \subseteq t.active /\ Free(t) = Slots(t) \ t.active
      /\ Stops(t, k) = Free(t) \union Holding(t, k)
  BY DEF WellFormed, HomesFit, TableType, Holding, Free, Stops
<1> HIDE DEF h
<1>2. p \in Stops(t, k) /\ \A s \in Stops(t, k) : Steps(t, h, p) <= Steps(t, h, s)
  BY <1>1, FirstFromIs DEF h
<1>3. \A s \in Slots(t) : Steps(t, h, s) \in Nat
  BY <1>1, StepsOrder
<1>4. ASSUME p \in t.active
      PROVE  p \in Holding(t, k) /\ Passed(t, h, p) \cap Holding(t, k) = {}
  BY <1>1, <1>2, <1>3, <1>4 DEF Passed
<1>5. ASSUME p \notin t.active
      PROVE  Lands(t, k, p) /\ Holding(t, k) = {}
  <2>1. Lands(t, k, p)
    BY <1>1, <1>2, <1>5 DEF Lands, h
  <2>2. ASSUME NEW s \in Holding(t, k) PROVE FALSE
    <3>1. s \in Passed(t, h, p) /\ s \in Slots(t)
      BY <1>1, <2>1, LandsBehind DEF h
    <3> QED
      BY <1>1, <1>2, <1>3, <3>1 DEF Passed
  <2> QED
    BY <2>1, <2>2
<1> QED
  BY <1>1, <1>2, <1>4, <1>5 DEF h

\* udFind finds the first pair with the key, and nothing only where there is
\* none.
LEMMA FindSlotIs ==
    ASSUME NEW t, NEW Values, WellFormed(t, Values), t.cap # 0, NEW k \in Keys
    PROVE  /\ FindSlot(t, k) = NoItem <=> Holding(t, k) = {}
           /\ FindSlot(t, k) # NoItem =>
                /\ FindSlot(t, k) \in Holding(t, k)
                /\ Passed(t, HomeOf(t, k), FindSlot(t, k)) \cap Holding(t, k) = {}
<1> DEFINE p == FirstFrom(t, HomeOf(t, k), Stops(t, k))
<1>1. CASE Stops(t, k) = {}
  BY <1>1 DEF FindSlot, Stops
<1>2. CASE Stops(t, k) # {}
  <2>1. /\ p \in Slots(t)
        /\ p \in t.active => /\ p \in Holding(t, k)
                             /\ Passed(t, HomeOf(t, k), p) \cap Holding(t, k) = {}
        /\ p \notin t.active => Holding(t, k) = {}
    BY <1>2, ProbeStops
  <2>2. FindSlot(t, k) = IF p \notin t.active THEN NoItem ELSE p
    BY <1>2 DEF FindSlot
  <2> HIDE DEF p
  <2>3. p # NoItem
    BY <2>1 DEF Slots, NoItem
  <2> QED
    BY <2>1, <2>2, <2>3
<1> QED
  BY <1>1, <1>2

-----------------------------------------------------------------------------
(***************************************************************************)
(* udReset                                                                 *)
(***************************************************************************)

\* udReset picks the first pair with the key, or else the slot where one lands.
LEMMA ResetSlotIs ==
    ASSUME NEW t, NEW Values, WellFormed(t, Values), t.cap # 0, NEW k \in Keys,
           NEW p, p = ResetSlot(t, k), p # NoItem
    PROVE  /\ p \in Slots(t)
           /\ p \in t.active => /\ p \in Holding(t, k)
                                /\ Passed(t, HomeOf(t, k), p) \cap Holding(t, k) = {}
           /\ p \notin t.active => Lands(t, k, p) /\ Holding(t, k) = {}
<1>1. Stops(t, k) # {} /\ p = FirstFrom(t, HomeOf(t, k), Stops(t, k))
  BY DEF ResetSlot
<1> QED
  BY <1>1, ProbeStops

\* The table after udReset wrote the pair into slot p.
ResetTo(t, r, k, v, p) ==
    /\ IsTable(r)
    /\ r.cap = t.cap
    /\ r.size = ReplacedSize(t, p)
    /\ r.active = t.active \union {p}
    /\ r.key = [t.key EXCEPT ![p] = k]
    /\ r.value = [t.value EXCEPT ![p] = v]
    /\ r.dups = t.dups

\* The fields after udReset.
LEMMA ReplacedFields ==
    ASSUME NEW t, IsTable(t), NEW k, NEW v, NEW p, p = ResetSlot(t, k), p # NoItem
    PROVE  ResetTo(t, Replaced(t, k, v), k, v, p)
<1> DEFINE n == ReplacedSize(t, p)
           r == [cap |-> t.cap, size |-> n, active |-> t.active \union {p},
                 key |-> [t.key EXCEPT ![p] = k], value |-> [t.value EXCEPT ![p] = v],
                 dups |-> t.dups]
<1>1. Replaced(t, k, v) = [t EXCEPT !.size = n,
                                    !.active = t.active \union {p},
                                    !.key = [t.key EXCEPT ![p] = k],
                                    !.value = [t.value EXCEPT ![p] = v]]
  BY DEF Replaced
<1> HIDE DEF n
<1>2. Replaced(t, k, v) = r
  BY <1>1 DEF IsTable
<1>3. /\ r.cap = t.cap /\ r.size = n /\ r.active = t.active \union {p}
      /\ r.key = [t.key EXCEPT ![p] = k] /\ r.value = [t.value EXCEPT ![p] = v]
      /\ r.dups = t.dups
  OBVIOUS
<1>4. IsTable(r)
  BY DEF IsTable
<1> HIDE DEF r
<1> QED
  BY <1>2, <1>3, <1>4 DEF n, ResetTo

\* udReset keeps a table well formed although it counts no duplicates: it adds
\* a pair only where there is none with its key.
LEMMA ResetKeeps ==
    ASSUME NEW t, NEW Values, WellFormed(t, Values), t.cap # 0,
           NEW k \in Keys, NEW v \in Values
    PROVE  WellFormed(Replaced(t, k, v), Values)
<1> DEFINE p == ResetSlot(t, k)
           r == Replaced(t, k, v)
<1>1. CASE p = NoItem
  BY <1>1 DEF Replaced
<1>2. CASE p # NoItem
  <2>1. /\ p \in Slots(t)
        /\ p \in t.active => p \in Holding(t, k)
        /\ p \notin t.active => Lands(t, k, p) /\ Holding(t, k) = {}
    BY <1>2, ResetSlotIs
  <2>2. /\ IsTable(r) /\ r.cap = t.cap
        /\ r.size = ReplacedSize(t, p) /\ r.active = t.active \union {p}
        /\ r.key = [t.key EXCEPT ![p] = k]
        /\ r.value = [t.value EXCEPT ![p] = v] /\ r.dups = t.dups
    <3>1. IsTable(t)
      BY DEF WellFormed
    <3>2. ResetTo(t, r, k, v, p)
      BY <1>2, <3>1, ReplacedFields
    <3> HIDE DEF p, r
    <3> QED
      BY <3>2 DEF ResetTo
  <2> HIDE DEF p, r
  <2>3. /\ Slots(r) = Slots(t) /\ HomesFit(r)
        /\ \A j : HomeOf(r, j) = HomeOf(t, j)
        /\ \A h, q : Steps(r, h, q) = Steps(t, h, q)
        /\ \A h, q : Passed(r, h, q) = Passed(t, h, q)
    BY <2>2, SameProbes DEF WellFormed, HomesFit
  <2>4. TableType(t, Values) /\ SizeCounts(t) /\ Reachable(t) /\ DupsCount(t)
    BY DEF WellFormed
  <2>5. r.value \in [Slots(r) -> Values \union {NULL}] /\ r.dups \in [Slots(r) -> Nat]
    BY <2>1, <2>2, <2>3, <2>4 DEF TableType
  <2>6. ASSUME p \in t.active PROVE WellFormed(r, Values)
    <3>1. r.active = t.active /\ r.size = t.size
      BY <2>2, <2>6 DEF ReplacedSize
    <3>2. r.key = t.key
      <4>1. t.key[p] = k /\ t.key \in [Slots(t) -> Keys \union {0}]
        BY <2>1, <2>4, <2>6 DEF Holding, TableType
      <4> QED
        BY <2>1, <2>2, <4>1
    <3>3. TableType(r, Values)
      BY <2>2, <2>3, <2>4, <2>5, <3>1, <3>2 DEF TableType
    <3>4. SizeCounts(r) /\ Reachable(r)
      BY <2>3, <2>4, <3>1, <3>2 DEF SizeCounts, Reachable
    <3>5. \A q : LaterDuplicates(r, q) = LaterDuplicates(t, q)
      BY <2>3, <3>1, <3>2 DEF LaterDuplicates, Holding
    <3>6. DupsCount(r)
      BY <2>2, <2>3, <2>4, <3>1, <3>5 DEF DupsCount
    <3> QED
      BY <2>2, <2>3, <3>3, <3>4, <3>6 DEF WellFormed
  <2>7. ASSUME p \notin t.active PROVE WellFormed(r, Values)
    <3>1. Lands(t, k, p) /\ Landed(t, r, k, p)
      BY <2>1, <2>2, <2>7 DEF Landed, ReplacedSize
    <3>2. TableType(r, Values)
      BY <2>5, <3>1, LandedHolds DEF TableType
    <3>3. SizeCounts(r) /\ Reachable(r)
      BY <3>1, LandedHolds, LandedReachable
    <3>4. /\ LaterDuplicates(r, p) = {}
          /\ \A q \in t.active : LaterDuplicates(r, q) = LaterDuplicates(t, q)
      BY <2>1, <2>7, <3>1, LandedDuplicates
    <3>5. DupsCount(r)
      <4>1. ASSUME NEW q \in Slots(t)
            PROVE  r.dups[q] = IF q \in r.active
                               THEN Cardinality(LaterDuplicates(r, q)) ELSE 0
        <5>1. t.dups[q] = IF q \in t.active THEN Cardinality(LaterDuplicates(t, q)) ELSE 0
          BY <2>4 DEF DupsCount
        <5>2. CASE q = p
          BY <2>2, <2>7, <3>4, <5>1, <5>2, FS_EmptySet
        <5>3. CASE q # p
          BY <2>2, <3>4, <5>1, <5>3
        <5> QED
          BY <5>2, <5>3
      <4> QED
        BY <2>3, <4>1 DEF DupsCount
    <3> QED
      BY <2>2, <2>3, <3>2, <3>3, <3>5 DEF WellFormed
  <2>8. WellFormed(r, Values)
    BY <2>6, <2>7
  <2> QED
    BY <2>8 DEF r
<1> QED
  BY <1>1, <1>2

-----------------------------------------------------------------------------
(***************************************************************************)
(* udNext                                                                  *)
(***************************************************************************)

\* The slot after the last one is the first.
LEMMA NextIndex ==
    ASSUME NEW c \in Nat \ {0}, NEW p \in 0 .. c - 1
    PROVE  (p + 1) % c = IF p + 1 = c THEN 0 ELSE p + 1
<1>1. ASSUME NEW x \in Int, x = p + 1
      PROVE  x % c = IF x = c THEN 0 ELSE x
  <2> DEFINE q == x \div c
             r == x % c
  <2>1. q \in Int /\ r \in Int /\ x = c * q + r /\ 0 <= r /\ r < c
    OBVIOUS
  <2> QED
    BY <1>1, <2>1
<1> QED
  BY <1>1

\* A probe that begins behind slot p meets the slots that come after p in the
\* probe from h first, in the same order, and then the others.
LEMMA StepsFromNext ==
    ASSUME NEW t, t.cap \in Nat \ {0}, NEW h \in Slots(t),
           NEW p \in Slots(t), NEW s \in Slots(t)
    PROVE  /\ (p + 1) % t.cap \in Slots(t)
           /\ Steps(t, (p + 1) % t.cap, s)
                = IF Steps(t, h, s) > Steps(t, h, p)
                  THEN Steps(t, h, s) - Steps(t, h, p) - 1
                  ELSE Steps(t, h, s) - Steps(t, h, p) - 1 + t.cap
<1> DEFINE n == (p + 1) % t.cap
           c == t.cap
<1>1. n = IF p + 1 = c THEN 0 ELSE p + 1
  BY NextIndex DEF Slots
<1>2. c \in Nat \ {0} /\ h \in 0 .. c - 1 /\ p \in 0 .. c - 1 /\ s \in 0 .. c - 1
  BY DEF Slots
<1>3. /\ Steps(t, n, s) = IF s >= n THEN s - n ELSE s - n + c
      /\ Steps(t, h, s) = IF s >= h THEN s - h ELSE s - h + c
      /\ Steps(t, h, p) = IF p >= h THEN p - h ELSE p - h + c
  BY DEF Steps
<1>4. n \in Slots(t)
  BY <1>1, <1>2 DEF Slots
<1> HIDE DEF n, c
<1>5. Steps(t, n, s) = IF Steps(t, h, s) > Steps(t, h, p)
                       THEN Steps(t, h, s) - Steps(t, h, p) - 1
                       ELSE Steps(t, h, s) - Steps(t, h, p) - 1 + c
  <2>1. CASE p + 1 = c
    BY <1>1, <1>2, <1>3, <2>1
  <2>2. CASE p + 1 # c
    BY <1>1, <1>2, <1>3, <2>2
  <2> QED
    BY <2>1, <2>2
<1> QED
  BY <1>4, <1>5 DEF n, c

\* udNext leads from a pair to the next one with its key in probe order, and
\* stops behind the last one.
LEMMA NextSlotIs ==
    ASSUME NEW t, NEW Values, WellFormed(t, Values), NEW p \in t.active
    PROVE  /\ LaterDuplicates(t, p) \subseteq Holding(t, t.key[p])
           /\ NextSlot(t, p) = IF LaterDuplicates(t, p) = {} THEN NoItem
                               ELSE FirstFrom(t, HomeOf(t, t.key[p]), LaterDuplicates(t, p))
           /\ NextSlot(t, p) # NoItem => NextSlot(t, p) \in LaterDuplicates(t, p)
<1> DEFINE k == t.key[p]
           h == HomeOf(t, k)
           n == (p + 1) % t.cap
           L == LaterDuplicates(t, p)
<1>1. /\ t.active \subseteq Slots(t) /\ p \in Slots(t) /\ k \in Keys
      /\ t.cap \in Nat \ {0} /\ h \in Slots(t)
  <2>1. t.active \subseteq Slots(t) /\ p \in Slots(t) /\ k \in Keys /\ t.cap \in Nat
    BY DEF WellFormed, TableType, HomesFit
  <2>2. t.cap # 0
    BY <2>1 DEF Slots
  <2> QED
    BY <2>1, <2>2 DEF WellFormed, HomesFit
<1>2. L = { s \in Holding(t, k) : Steps(t, h, s) > Steps(t, h, p) }
  BY DEF LaterDuplicates
<1>3. /\ L \subseteq Holding(t, k) /\ Holding(t, k) \subseteq t.active
      /\ L \subseteq Slots(t)
  BY <1>1, <1>2 DEF Holding
<1>4. IsFiniteSet(L) /\ (t.dups[p] = 0 <=> L = {})
  <2>1. t.dups[p] = Cardinality(L) /\ IsFiniteSet(L)
    BY <1>1, <1>3, SlotsFinite DEF WellFormed, DupsCount
  <2> QED
    BY <2>1, FS_EmptySet
<1> HIDE DEF L
<1>5. CASE L = {}
  <2>1. NextSlot(t, p) = NoItem
    BY <1>4, <1>5 DEF NextSlot, Left
  <2> QED
    BY <1>3, <1>5, <2>1 DEF L
<1>6. CASE L # {}
  <2> DEFINE q == FirstFrom(t, h, L)
  <2>1. NextSlot(t, p) = FirstFrom(t, n, Stops(t, k))
    BY <1>4, <1>6 DEF NextSlot, Left
  <2>2. q \in L /\ \A s \in L : Steps(t, h, q) <= Steps(t, h, s)
    BY <1>1, <1>3, <1>6, FirstFromIs
  <2> HIDE DEF q, h, n
  <2>3. /\ n \in Slots(t)
        /\ \A s \in Slots(t) :
             Steps(t, n, s) = IF Steps(t, h, s) > Steps(t, h, p)
                              THEN Steps(t, h, s) - Steps(t, h, p) - 1
                              ELSE Steps(t, h, s) - Steps(t, h, p) - 1 + t.cap
    BY <1>1, StepsFromNext DEF n
  <2>4. /\ q \in Slots(t) /\ q \in Holding(t, k) /\ q \in t.active /\ t.key[q] = k
        /\ Steps(t, h, q) > Steps(t, h, p)
    BY <1>2, <1>3, <2>2 DEF Holding
  <2>5. \A s \in Slots(t) : Steps(t, h, s) \in 0 .. t.cap - 1
    BY <1>1, StepsOrder
  <2>6. ASSUME NEW s \in Stops(t, k), Steps(t, h, s) > Steps(t, h, p)
        PROVE  s \in Slots(t) /\ Steps(t, h, q) <= Steps(t, h, s)
    <3>1. CASE s \in Holding(t, k)
      BY <1>2, <1>3, <2>2, <2>6, <3>1
    <3>2. CASE s \in Free(t)
      <4>1. Passed(t, h, q) \subseteq t.active
        BY <2>4 DEF WellFormed, Reachable, h
      <4>2. s \in Slots(t) /\ ~(Steps(t, h, s) < Steps(t, h, q))
        BY <3>2, <4>1 DEF Passed, Free
      <4> QED
        BY <2>4, <2>5, <4>2
    <3> QED
      BY <3>1, <3>2 DEF Stops
  <2>7. ASSUME NEW s \in Stops(t, k)
        PROVE  Steps(t, n, q) <= Steps(t, n, s)
    <3>1. s \in Slots(t)
      BY <1>1, <1>3 DEF Stops, Free
    <3> QED
      BY <1>1, <2>3, <2>4, <2>5, <2>6, <3>1
  <2>8. q \in Stops(t, k) /\ Stops(t, k) \subseteq Slots(t)
    BY <1>1, <1>3, <2>4 DEF Stops, Free
  <2>9. FirstFrom(t, n, Stops(t, k)) = q
    BY <1>1, <2>3, <2>7, <2>8, FirstFromOnly
  <2> QED
    BY <1>3, <1>6, <2>1, <2>2, <2>9 DEF L, q, h
<1> QED
  BY <1>5, <1>6

\* From udFind, udNext enumerates the pairs of every key.
LEMMA EnumeratesLemma ==
    ASSUME NEW t, NEW Values, WellFormed(t, Values)
    PROVE  Enumerates(t)
<1> SUFFICES ASSUME NEW k \in Keys
             PROVE  /\ FindSlot(t, k) = NoItem <=> Holding(t, k) = {}
                    /\ FindSlot(t, k) # NoItem =>
                         /\ FindSlot(t, k) \in Holding(t, k)
                         /\ Passed(t, HomeOf(t, k), FindSlot(t, k)) \cap Holding(t, k) = {}
                    /\ \A p \in Holding(t, k) :
                         IF LaterDuplicates(t, p) = {} THEN NextSlot(t, p) = NoItem
                         ELSE NextSlot(t, p) = FirstFrom(t, HomeOf(t, k), LaterDuplicates(t, p))
  BY DEF Enumerates
<1>1. ASSUME NEW p \in Holding(t, k)
      PROVE  IF LaterDuplicates(t, p) = {} THEN NextSlot(t, p) = NoItem
             ELSE NextSlot(t, p) = FirstFrom(t, HomeOf(t, k), LaterDuplicates(t, p))
  <2>1. p \in t.active /\ t.key[p] = k
    BY DEF Holding
  <2> QED
    BY <2>1, NextSlotIs
<1>2. CASE t.cap # 0
  BY <1>1, <1>2, FindSlotIs
<1>3. CASE t.cap = 0
  <2>1. Holding(t, k) = {} /\ Stops(t, k) = {}
    <3>1. Slots(t) = {} /\ t.active \subseteq Slots(t)
      BY <1>3 DEF Slots, WellFormed, TableType
    <3> QED
      BY <3>1 DEF Holding, Stops, Free
  <2>2. FindSlot(t, k) = NoItem
    BY <2>1 DEF FindSlot
  <2> QED
    BY <2>1, <2>2
<1> QED
  BY <1>2, <1>3

-----------------------------------------------------------------------------
(***************************************************************************)
(* Iteration and cleanup                                                   *)
(***************************************************************************)

\* An iterator gives a pair, or nothing.
LEMMA IteratorsGivePairs ==
    ASSUME NEW t, t.cap \in Nat, t.active \subseteq Slots(t), NEW p
    PROVE  {IterFirst(t), IterNext(t, p), IterLast(t)} \subseteq t.active \union {NoItem}
<1> DEFINE later == { s \in t.active : s > p }
<1>1. ASSUME NEW S \in SUBSET t.active, S # {}
      PROVE  \E m \in S : \A n \in S : m <= n
  <2>1. S \in SUBSET Nat
    BY DEF Slots
  <2> QED
    BY <1>1, <2>1, LeastNumber
<1>2. IterFirst(t) \in t.active \union {NoItem}
  <2>1. t.active # {} => \E m \in t.active : \A n \in t.active : m <= n
    BY <1>1
  <2> QED
    BY <2>1 DEF IterFirst
<1>3. IterNext(t, p) \in t.active \union {NoItem}
  <2>1. later # {} => \E m \in later : \A n \in later : m <= n
    BY <1>1
  <2>2. IterNext(t, p) = IF later = {} THEN NoItem
                         ELSE CHOOSE m \in later : \A n \in later : m <= n
    BY DEF IterNext
  <2> QED
    BY <2>1, <2>2
<1>4. IterLast(t) \in t.active \union {NoItem}
  <2>1. t.active # {} => \E m \in t.active : \A n \in t.active : n <= m
    BY GreatestNumber DEF Slots
  <2>2. \A m, n \in t.active : n <= m <=> m >= n
    BY DEF Slots
  <2>3. t.active # {} => \E m \in t.active : \A n \in t.active : m >= n
    BY <2>1, <2>2
  <2> QED
    BY <2>3 DEF IterLast
<1> QED
  BY <1>2, <1>3, <1>4

\* udCleanupDeep, which stops after `size` pairs, visits all of them.
LEMMA VisitsAll ==
    ASSUME NEW t, t.cap \in Nat, t.active \subseteq Slots(t), SizeCounts(t)
    PROVE  Visited(t) = t.active
<1>1. ASSUME NEW p \in t.active
      PROVE  Cardinality({ s \in t.active : s <= p }) <= t.size
  <2>1. IsFiniteSet(t.active) /\ { s \in t.active : s <= p } \in SUBSET t.active
    BY SlotsFinite
  <2> QED
    BY <2>1, FS_Subset DEF SizeCounts
<1> QED
  BY <1>1 DEF Visited

\* A write through an item handle changes a value only.
LEMMA SetValueKeeps ==
    ASSUME NEW t, NEW Values, WellFormed(t, Values), NEW p \in Slots(t), NEW v \in Values
    PROVE  /\ WellFormed([t EXCEPT !.value[p] = v], Values)
           /\ [t EXCEPT !.value[p] = v].cap = t.cap
           /\ [t EXCEPT !.value[p] = v].active = t.active
           /\ [t EXCEPT !.value[p] = v].key = t.key
           /\ [t EXCEPT !.value[p] = v].value = [t.value EXCEPT ![p] = v]
<1> DEFINE f == [t.value EXCEPT ![p] = v]
           r == [cap |-> t.cap, size |-> t.size, active |-> t.active,
                 key |-> t.key, value |-> f, dups |-> t.dups]
<1>1. [t EXCEPT !.value[p] = v] = r
  BY DEF WellFormed, IsTable
<1>2. f \in [Slots(t) -> Values \union {NULL}]
  BY DEF WellFormed, TableType
<1> HIDE DEF f
<1>3. /\ r.cap = t.cap /\ r.size = t.size /\ r.active = t.active /\ r.key = t.key
      /\ r.value = f /\ r.dups = t.dups /\ IsTable(r)
  BY DEF IsTable
<1> HIDE DEF r
<1>4. /\ Slots(r) = Slots(t)
      /\ \A j : HomeOf(r, j) = HomeOf(t, j)
      /\ \A h, q : Steps(r, h, q) = Steps(t, h, q)
      /\ \A h, q : Passed(r, h, q) = Passed(t, h, q)
  BY <1>3, SameProbes
<1>5. HomesFit(r) /\ TableType(r, Values) /\ SizeCounts(r) /\ Reachable(r)
  BY <1>2, <1>3, <1>4
  DEF WellFormed, HomesFit, TableType, SizeCounts, Reachable
<1>6. \A q : LaterDuplicates(r, q) = LaterDuplicates(t, q)
  BY <1>3, <1>4 DEF LaterDuplicates, Holding
<1>7. DupsCount(r)
  BY <1>3, <1>4, <1>6 DEF WellFormed, DupsCount
<1>8. WellFormed(r, Values)
  BY <1>3, <1>5, <1>7 DEF WellFormed
<1> QED
  BY <1>1, <1>3, <1>8
-----------------------------------------------------------------------------
(***************************************************************************)
(* udRehash: the first i slots of t have been moved into r.                *)
(***************************************************************************)
Moved(t, i) == { s \in t.active : s < i }

\* The slots of S that hold a pair in t.
Having(t, S, k, v) == { s \in S : t.key[s] = k /\ t.value[s] = v }

Fitted(t, r, i) ==
    /\ r.size = Cardinality(Moved(t, i))
    /\ \A k, v :
         Cardinality(Having(r, r.active, k, v)) = Cardinality(Having(t, Moved(t, i), k, v))

\* What udRehash has moved after one slot more.
LEMMA MovedNext ==
    ASSUME NEW t, t.cap \in Nat, t.active \subseteq Slots(t), NEW i \in Slots(t)
    PROVE  /\ i \notin Moved(t, i)
           /\ Moved(t, i + 1) = IF i \in t.active THEN Moved(t, i) \union {i} ELSE Moved(t, i)
<1>1. \A s \in t.active : s < i + 1 <=> s < i \/ s = i
  BY DEF Slots
<1>2. i \notin Moved(t, i)
  BY DEF Moved, Slots
<1> QED
  BY <1>1, <1>2 DEF Moved

\* What a set of slots counts after one more slot was added.
LEMMA HavingNext ==
    ASSUME NEW t, t.cap \in Nat, NEW S \in SUBSET Slots(t), NEW p \in Slots(t), p \notin S,
           NEW k, NEW v
    PROVE  Cardinality(Having(t, S \union {p}, k, v))
             = IF t.key[p] = k /\ t.value[p] = v THEN Cardinality(Having(t, S, k, v)) + 1
               ELSE Cardinality(Having(t, S, k, v))
<1>1. Having(t, S, k, v) \in SUBSET Slots(t) /\ p \notin Having(t, S, k, v)
  BY DEF Having
<1>2. IsFiniteSet(Having(t, S, k, v))
  BY <1>1, SlotsFinite
<1>3. Having(t, S \union {p}, k, v) = IF t.key[p] = k /\ t.value[p] = v
                                     THEN Having(t, S, k, v) \union {p}
                                     ELSE Having(t, S, k, v)
  BY DEF Having
<1> QED
  BY <1>1, <1>2, <1>3, FS_AddElement

\* There is room for one more, so udInsert finds a slot.
LEMMA RoomLeft ==
    ASSUME NEW Values, NEW t, WellFormed(t, Values), NEW r, WellFormed(r, Values), r.cap >= t.cap,
           NEW i \in t.active, r.size = Cardinality(Moved(t, i))
    PROVE  r.size # r.cap
<1>1. t.cap \in Nat /\ r.cap \in Nat /\ t.active \in SUBSET Slots(t) /\ i \in Slots(t)
  BY DEF WellFormed, HomesFit, TableType
<1>2. Moved(t, i) \in SUBSET t.active /\ i \notin Moved(t, i)
  BY <1>1, MovedNext DEF Moved
<1>3. /\ IsFiniteSet(Moved(t, i)) /\ IsFiniteSet(t.active)
      /\ Cardinality(t.active) \in Nat /\ Cardinality(t.active) <= t.cap
  BY <1>1, <1>2, SlotsFinite
<1>4. Cardinality(Moved(t, i)) + 1 <= Cardinality(t.active)
  <2>1. Moved(t, i) \union {i} \subseteq t.active
    BY <1>2
  <2>2. Cardinality(Moved(t, i) \union {i}) = Cardinality(Moved(t, i)) + 1
    BY <1>2, <1>3, FS_AddElement
  <2>3. Cardinality(Moved(t, i) \union {i}) <= Cardinality(t.active)
    BY <1>3, <2>1, FS_Subset
  <2> QED
    BY <2>2, <2>3
<1>5. Cardinality(Moved(t, i)) \in Nat
  BY <1>3, FS_CardinalityType
<1> QED
  BY <1>1, <1>3, <1>4, <1>5

\* The pair is in its slot afterwards.
LEMMA InsertedPair ==
    ASSUME NEW t, IsTable(t), NEW k, NEW v, InsertSlot(t, k) # NoItem,
           NEW r, r = Inserted(t, k, v)
    PROVE  /\ Landed(t, r, k, InsertSlot(t, k))
           /\ r.value = [t.value EXCEPT ![InsertSlot(t, k)] = v]
<1> DEFINE p == InsertSlot(t, k)
<1>1. /\ IsTable(Inserted(t, k, v)) /\ Landed(t, Inserted(t, k, v), k, p)
      /\ Inserted(t, k, v).value = [t.value EXCEPT ![p] = v]
      /\ Inserted(t, k, v).dups = [s \in Slots(t) |->
                                          IF CountsAt(t, k, p, s)
                                          THEN t.dups[s] + 1 ELSE t.dups[s]]
  BY InsertedFields
<1> QED
  BY <1>1

\* An insert keeps the capacity.
LEMMA InsertCap ==
    ASSUME NEW t, NEW Values, WellFormed(t, Values), NEW k, NEW v
    PROVE  Inserted(t, k, v).cap = t.cap
<1>1. CASE InsertSlot(t, k) = NoItem
  BY <1>1 DEF Inserted
<1>2. CASE InsertSlot(t, k) # NoItem
  <2>1. IsTable(t)
    BY DEF WellFormed
  <2>2. Landed(t, Inserted(t, k, v), k, InsertSlot(t, k))
    BY <1>2, <2>1, InsertedPair
  <2> QED
    BY <2>2 DEF Landed
<1> QED
  BY <1>1, <1>2

\* Nothing has been moved into a new table.
LEMMA NothingMoved ==
    ASSUME NEW t, t.active \subseteq Slots(t), NEW c
    PROVE  Fitted(t, Empty(c), 0)
<1>1. Moved(t, 0) = {}
  BY DEF Moved, Slots
<1>2. Empty(c).size = 0 /\ Empty(c).active = {}
  BY EmptyFields
<1>3. \A k, v : Having(Empty(c), {}, k, v) = {} /\ Having(t, {}, k, v) = {}
  BY DEF Having
<1>4. Cardinality({}) = 0
  BY FS_EmptySet
<1> QED
  BY <1>1, <1>2, <1>3, <1>4 DEF Fitted

\* One more slot moved.
LEMMA MoveFits ==
    ASSUME NEW Values, NEW t, WellFormed(t, Values), NEW r, WellFormed(r, Values),
           r.cap # 0, r.cap >= t.cap, NEW i \in Slots(t), Fitted(t, r, i),
           NEW n, n = IF i \in t.active THEN Inserted(r, t.key[i], t.value[i]) ELSE r
    PROVE  Fitted(t, n, i + 1)
<1>1. /\ t.cap \in Nat /\ r.cap \in Nat
      /\ t.active \in SUBSET Slots(t) /\ r.active \in SUBSET Slots(r)
  BY DEF WellFormed, HomesFit, TableType
<1>2. CASE i \notin t.active
  BY <1>1, <1>2, MovedNext DEF Fitted
<1>3. CASE i \in t.active
  <2> DEFINE j == t.key[i]
             w == t.value[i]
             p == InsertSlot(r, j)
  <2>1. j \in Keys /\ w \in Values \union {NULL}
    BY <1>3 DEF WellFormed, TableType
  <2>2. Lands(r, j, p) /\ p # NoItem
    BY <1>3, <2>1, RoomLeft, InsertSlotIs DEF Fitted
  <2>3. Landed(r, n, j, p) /\ n.value = [r.value EXCEPT ![p] = w]
    <3>1. n = Inserted(r, j, w) /\ IsTable(r)
      BY <1>3 DEF WellFormed
    <3> QED
      BY <2>2, <3>1, InsertedPair
  <2>4. p \in Slots(r) /\ p \notin r.active
    BY <2>1, <2>2, LandsBehind
  <2>5. DOMAIN r.key = Slots(r) /\ DOMAIN r.value = Slots(r)
    BY DEF WellFormed, TableType
  <2>6. /\ i \notin Moved(t, i) /\ Moved(t, i + 1) = Moved(t, i) \union {i}
        /\ Moved(t, i) \in SUBSET Slots(t)
    BY <1>1, <1>3, MovedNext DEF Moved
  <2> HIDE DEF j, w, p
  <2>7. /\ n.cap = r.cap /\ n.size = r.size + 1 /\ n.active = r.active \union {p}
        /\ n.key[p] = j /\ n.value[p] = w
        /\ \A s \in r.active : n.key[s] = r.key[s] /\ n.value[s] = r.value[s]
    BY <1>1, <2>3, <2>4, <2>5 DEF Landed
  <2>8. n.size = Cardinality(Moved(t, i + 1))
    BY <1>1, <2>6, <2>7, SlotsFinite, FS_AddElement DEF Fitted
  <2>9. ASSUME NEW k, NEW v
        PROVE  Cardinality(Having(n, n.active, k, v))
                 = Cardinality(Having(t, Moved(t, i + 1), k, v))
    <3>1. Having(n, r.active, k, v) = Having(r, r.active, k, v)
      BY <2>7 DEF Having
    <3>2. n.cap \in Nat /\ r.active \in SUBSET Slots(n) /\ p \in Slots(n)
      BY <1>1, <2>4, <2>7 DEF Slots
    <3>3. Cardinality(Having(n, n.active, k, v))
            = IF j = k /\ w = v THEN Cardinality(Having(r, r.active, k, v)) + 1
              ELSE Cardinality(Having(r, r.active, k, v))
      BY <2>4, <2>7, <3>1, <3>2, HavingNext
    <3>4. Cardinality(Having(t, Moved(t, i + 1), k, v))
            = IF j = k /\ w = v THEN Cardinality(Having(t, Moved(t, i), k, v)) + 1
              ELSE Cardinality(Having(t, Moved(t, i), k, v))
      BY <1>1, <2>6, HavingNext DEF j, w
    <3> QED
      BY <3>3, <3>4 DEF Fitted
  <2> QED
    BY <2>8, <2>9 DEF Fitted
<1> QED
  BY <1>2, <1>3
===============================================================================
