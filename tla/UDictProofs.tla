----------------------------- MODULE UDictProofs -----------------------------
(***************************************************************************)
(* Proofs about a dictionary through its life, for every set of keys,      *)
(* values and capacities and every hash function that gives a slot.        *)
(***************************************************************************)
EXTENDS UDict, UDictTableProofs, SequenceTheorems

\* The inductive invariant: both tables are well formed at every moment, udRehash
\* fills a table that is no smaller, and the client's handle names a pair.
DictInv ==
    /\ ud.cap \in Caps \union {0} /\ nhash.cap \in Caps \union {0}
    /\ WellFormed(ud, Values) /\ WellFormed(nhash, Values)
    /\ ind \in 0 .. ud.cap
    /\ Rehashing => ud.cap # 0 /\ nhash.cap >= ud.cap /\ visited = {}
    /\ ~Rehashing => ind = 0
    /\ it \in ud.active \union {NoItem}
    /\ ret \in Values \union {NULL}
    /\ visited \subseteq Nat

\* Capacities are numbers.
LEMMA CapsAreNumbers == Caps \union {0} \subseteq Nat
BY CapsAssumption

\* calloc gives a well-formed table.
LEMMA NewTable ==
    ASSUME NEW c \in Caps \union {0}
    PROVE  WellFormed(Empty(c), Values) /\ Empty(c).cap = c /\ Empty(c).active = {}
<1>1. c \in Nat /\ (c # 0 => \A k \in Keys : Home(k, c) \in 0 .. c - 1)
  BY CapsAreNumbers, HomeAssumption
<1> QED
  BY <1>1, EmptyWellFormed, EmptyFields

\* No table is a well-formed one without slots.
LEMMA NoTableIs == WellFormed(NoTable, Values) /\ NoTable.cap = 0 /\ NoTable.active = {}
BY NewTable DEF NoTable

\* Where udInsert and udReset put a pair it is active afterwards, and so is every
\* other pair, under the key it had.
LEMMA InsertStays ==
    ASSUME NEW t, WellFormed(t, Values), t.cap # 0, NEW k \in Keys, NEW v
    PROVE  /\ Inserted(t, k, v).cap = t.cap
           /\ InsertSlot(t, k) \in Inserted(t, k, v).active \union {NoItem}
           /\ \A p \in t.active : /\ p \in Inserted(t, k, v).active
                                  /\ Inserted(t, k, v).key[p] = t.key[p]
<1> DEFINE q == InsertSlot(t, k)
           r == Inserted(t, k, v)
<1>1. CASE q = NoItem
  BY <1>1 DEF Inserted
<1>2. CASE q # NoItem
  <2>1. Landed(t, r, k, q)
    BY <1>2, InsertedFields DEF WellFormed
  <2>2. q \in Slots(t) /\ q \notin t.active
    BY <1>2, InsertSlotIs, LandsBehind
  <2>3. DOMAIN t.key = Slots(t) /\ t.active \subseteq Slots(t)
    BY DEF WellFormed, TableType
  <2> HIDE DEF q, r
  <2>4. /\ r.cap = t.cap /\ q \in r.active
        /\ \A p \in t.active : p \in r.active /\ r.key[p] = t.key[p]
    BY <2>1, <2>2, <2>3 DEF Landed
  <2> QED
    BY <2>4 DEF q, r
<1> QED
  BY <1>1, <1>2

\* udReset moves no pair.
LEMMA ResetStays ==
    ASSUME NEW t, WellFormed(t, Values), t.cap # 0, NEW k \in Keys, NEW v
    PROVE  /\ Replaced(t, k, v).cap = t.cap
           /\ ResetSlot(t, k) \in Replaced(t, k, v).active \union {NoItem}
           /\ \A p \in t.active : /\ p \in Replaced(t, k, v).active
                                  /\ Replaced(t, k, v).key[p] = t.key[p]
<1> DEFINE q == ResetSlot(t, k)
           r == Replaced(t, k, v)
<1>1. CASE q = NoItem
  BY <1>1 DEF Replaced
<1>2. CASE q # NoItem
  <2>1. ResetTo(t, r, k, v, q)
    BY <1>2, ReplacedFields DEF WellFormed
  <2>2. q \in Slots(t) /\ (q \in t.active => t.key[q] = k)
    BY <1>2, ResetSlotIs DEF Holding
  <2>3. DOMAIN t.key = Slots(t) /\ t.active \subseteq Slots(t)
    BY DEF WellFormed, TableType
  <2> HIDE DEF q, r
  <2>4. /\ r.cap = t.cap /\ q \in r.active
        /\ \A p \in t.active : p \in r.active /\ r.key[p] = t.key[p]
    BY <2>1, <2>2, <2>3 DEF ResetTo
  <2> QED
    BY <2>4 DEF q, r
<1> QED
  BY <1>1, <1>2

-----------------------------------------------------------------------------
\* A call that hands the client an item.
LEMMA TakeKeeps ==
    ASSUME DictInv, NEW p \in ud.active \union {NoItem}, TakeItem(p)
    PROVE  DictInv'
BY DEF DictInv, TakeItem, Quiet, rehash, Rehashing

\* Every item handed out names a pair.
LEMMA TakenItems ==
    ASSUME DictInv, Ready
    PROVE  /\ \A k \in Keys : FindSlot(ud, k) \in ud.active \union {NoItem}
           /\ it # NoItem => NextSlot(ud, it) \in ud.active \union {NoItem}
           /\ {IterFirst(ud), IterNext(ud, it), IterLast(ud)} \subseteq ud.active \union {NoItem}
<1>1. ud.cap # 0 /\ WellFormed(ud, Values)
  BY DEF Ready, DictInv
<1>2. ASSUME NEW k \in Keys PROVE FindSlot(ud, k) \in ud.active \union {NoItem}
  BY <1>1, FindSlotIs DEF Holding
<1>3. ASSUME it # NoItem PROVE NextSlot(ud, it) \in ud.active \union {NoItem}
  <2>1. it \in ud.active
    BY <1>3 DEF DictInv
  <2> QED
    BY <1>1, <2>1, NextSlotIs DEF Holding
<1>4. {IterFirst(ud), IterNext(ud, it), IterLast(ud)} \subseteq ud.active \union {NoItem}
  <2>1. ud.cap \in Nat /\ ud.active \subseteq Slots(ud)
    BY <1>1 DEF WellFormed, HomesFit, TableType
  <2> QED
    BY <2>1, IteratorsGivePairs
<1> QED
  BY <1>2, <1>3, <1>4

\* udRehash moves one pair, or passes a free slot.
LEMMA MoveKeeps ==
    ASSUME DictInv, RehashMove
    PROVE  DictInv'
<1>1. /\ Rehashing /\ ind < ud.cap /\ ind' = ind + 1
      /\ UNCHANGED <<ud, it, ret, visited>>
      /\ nhash' = IF ind \in ud.active THEN Inserted(nhash, ud.key[ind], ud.value[ind])
                  ELSE nhash
  BY DEF RehashMove
<1>2. WellFormed(nhash', Values) /\ nhash'.cap = nhash.cap
  <2>1. CASE ind \in ud.active
    <3>1. ud.key[ind] \in Keys /\ ud.value[ind] \in Values \union {NULL}
      BY <2>1 DEF DictInv, WellFormed, TableType
    <3>2. nhash.cap # 0 /\ WellFormed(nhash, Values)
      BY <1>1 DEF Rehashing, DictInv
    <3> QED
      BY <1>1, <2>1, <3>1, <3>2, InsertKeeps, InsertStays
  <2>2. CASE ind \notin ud.active
    BY <1>1, <2>2 DEF DictInv
  <2> QED
    BY <2>1, <2>2
<1>3. ind' \in 0 .. ud.cap
  <2>1. ind \in 0 .. ud.cap /\ ud.cap \in Nat
    BY CapsAreNumbers DEF DictInv
  <2> QED
    BY <1>1, <2>1
<1> QED
  BY <1>1, <1>2, <1>3 DEF DictInv, Rehashing

\* A call that leaves the new table of udRehash alone and keeps ud well formed.
LEMMA CallKeeps ==
    ASSUME DictInv, ~Rehashing, UNCHANGED rehash,
           WellFormed(ud', Values), ud'.cap \in Caps \union {0},
           it' \in ud'.active \union {NoItem}, ret' \in Values \union {NULL},
           visited' \subseteq Nat
    PROVE  DictInv'
<1>1. nhash' = nhash /\ ind' = 0
  BY DEF DictInv, rehash
<1>2. 0 \in 0 .. ud'.cap
  BY CapsAreNumbers
<1> QED
  BY <1>1, <1>2 DEF DictInv, Rehashing

\* Every call keeps the invariant.
LEMMA DictStep ==
    ASSUME DictInv, [Next]_vars
    PROVE  DictInv'
<1>1. ASSUME NEW c \in Caps, udInit(c) PROVE DictInv'
  <2>1. ud.cap = 0 /\ ud' = Empty(c) /\ it' = it /\ ret' = NULL /\ visited' = {}
        /\ UNCHANGED rehash
    BY <1>1 DEF udInit, Quiet
  <2>2. it = NoItem /\ ~Rehashing
    <3>1. ud.active = {}
      BY <2>1 DEF DictInv, WellFormed, TableType, Slots
    <3>2. it = NoItem
      BY <3>1 DEF DictInv
    <3>3. ~Rehashing
      BY <2>1 DEF DictInv
    <3> QED
      BY <3>2, <3>3
  <2>3. WellFormed(ud', Values) /\ ud'.cap = c
    BY <2>1, NewTable
  <2> QED
    BY <2>1, <2>2, <2>3, CallKeeps
<1>2. ASSUME NEW c \in Caps, RehashBegin(c) PROVE DictInv'
  <2>1. /\ ud.cap # 0 /\ c >= ud.cap /\ nhash' = Empty(c) /\ ind' = 0
        /\ ret' = NULL /\ visited' = {} /\ UNCHANGED <<ud, it>>
    BY <1>2 DEF RehashBegin, Ready, RehashAllowed, Quiet
  <2>2. WellFormed(nhash', Values) /\ nhash'.cap = c
    BY <2>1, NewTable
  <2>3. c # 0 /\ 0 \in 0 .. ud.cap
    <3>1. c \in Nat \ {0}
      BY CapsAssumption
    <3>2. ud.cap \in Nat
      BY CapsAreNumbers DEF DictInv
    <3> QED
      BY <3>1, <3>2
  <2> QED
    BY <2>1, <2>2, <2>3 DEF DictInv, Rehashing
<1>3. ASSUME NEW k \in Keys, NEW v \in Values, udInsert(k, v) PROVE DictInv'
  <2>1. /\ ud.cap # 0 /\ ~Rehashing /\ ud' = Inserted(ud, k, v) /\ UNCHANGED rehash
        /\ it' \in {it, InsertSlot(ud, k)} /\ ret' = NULL /\ visited' = {}
    BY <1>3 DEF udInsert, Ready, Quiet
  <2>2. WellFormed(ud, Values) /\ ud.cap \in Caps \union {0} /\ it \in ud.active \union {NoItem}
    BY DEF DictInv
  <2>3. WellFormed(ud', Values)
    BY <2>1, <2>2, InsertKeeps
  <2>4. /\ ud'.cap = ud.cap /\ InsertSlot(ud, k) \in ud'.active \union {NoItem}
        /\ \A p \in ud.active : p \in ud'.active
    BY <2>1, <2>2, InsertStays
  <2>5. it' \in ud'.active \union {NoItem}
    BY <2>1, <2>2, <2>4
  <2> QED
    BY <2>1, <2>2, <2>3, <2>4, <2>5, CallKeeps
<1>4. ASSUME NEW k \in Keys, NEW v \in Values, udReset(k, v) PROVE DictInv'
  <2>1. /\ ud.cap # 0 /\ ~Rehashing /\ ud' = Replaced(ud, k, v) /\ UNCHANGED rehash
        /\ it' \in {it, ResetSlot(ud, k)} /\ ret' = NULL /\ visited' = {}
    BY <1>4 DEF udReset, Ready, Quiet
  <2>2. WellFormed(ud, Values) /\ ud.cap \in Caps \union {0} /\ it \in ud.active \union {NoItem}
    BY DEF DictInv
  <2>3. WellFormed(ud', Values)
    BY <2>1, <2>2, ResetKeeps
  <2>4. /\ ud'.cap = ud.cap /\ ResetSlot(ud, k) \in ud'.active \union {NoItem}
        /\ \A p \in ud.active : p \in ud'.active
    BY <2>1, <2>2, ResetStays
  <2>5. it' \in ud'.active \union {NoItem}
    BY <2>1, <2>2, <2>4
  <2> QED
    BY <2>1, <2>2, <2>3, <2>4, <2>5, CallKeeps
<1>5. ASSUME NEW k \in Keys, udGet(k) PROVE DictInv'
  <2>1. /\ Ready /\ ret' = GetValue(ud, k) /\ visited' = {} /\ UNCHANGED <<ud, rehash, it>>
    BY <1>5 DEF udGet
  <2>2. /\ WellFormed(ud, Values) /\ ud.cap \in Caps \union {0}
        /\ it \in ud.active \union {NoItem}
    BY DEF DictInv
  <2>3. FindSlot(ud, k) \in ud.active \union {NoItem}
    BY <2>1, TakenItems
  <2>4. ud.value \in [Slots(ud) -> Values \union {NULL}] /\ ud.active \subseteq Slots(ud)
    BY <2>2 DEF WellFormed, TableType
  <2>5. ret' \in Values \union {NULL}
    BY <2>1, <2>3, <2>4 DEF GetValue
  <2> QED
    BY <2>1, <2>2, <2>5, CallKeeps DEF Ready
<1>6. ASSUME NEW k \in Keys, udFind(k) PROVE DictInv'
  <2>1. TakeItem(FindSlot(ud, k)) /\ Ready
    BY <1>6 DEF udFind, TakeItem
  <2> QED
    BY <2>1, TakenItems, TakeKeeps
<1>7. ASSUME NEW v \in Values, udSetValue(v) PROVE DictInv'
  <2>1. /\ ~Rehashing /\ it # NoItem /\ ud' = [ud EXCEPT !.value[it] = v]
        /\ ret' = NULL /\ visited' = {} /\ it' = it /\ UNCHANGED rehash
    BY <1>7 DEF udSetValue, Ready, Quiet
  <2>2. /\ WellFormed(ud, Values) /\ ud.cap \in Caps \union {0} /\ it \in ud.active
    BY <2>1 DEF DictInv
  <2>3. it \in Slots(ud)
    BY <2>2 DEF WellFormed, TableType
  <2>4. WellFormed(ud', Values) /\ ud'.cap = ud.cap /\ ud'.active = ud.active
    BY <2>1, <2>2, <2>3, SetValueKeeps
  <2> QED
    BY <2>1, <2>2, <2>4, CallKeeps
<1>8. CASE udNext
  <2>1. it # NoItem /\ TakeItem(NextSlot(ud, it)) /\ Ready
    BY <1>8 DEF udNext, TakeItem
  <2> QED
    BY <2>1, TakenItems, TakeKeeps
<1>9. CASE udIterFirst \/ udIterNext \/ udIterLast
  <2>1. Ready /\ \E p \in {IterFirst(ud), IterNext(ud, it), IterLast(ud)} : TakeItem(p)
    BY <1>9 DEF udIterFirst, udIterNext, udIterLast, TakeItem
  <2> QED
    BY <2>1, TakenItems, TakeKeeps
<1>10. CASE udCleanup \/ udCleanupDeep
  <2>1. /\ ud' = NoTable /\ it' = NoItem /\ ret' = NULL /\ UNCHANGED rehash /\ ~Rehashing
        /\ visited' \in {{}, Visited(ud)}
    BY <1>10 DEF udCleanup, udCleanupDeep, Quiet, Ready
  <2>2. ud.active \subseteq Slots(ud) /\ ud.cap \in Nat
    BY CapsAreNumbers DEF DictInv, WellFormed, TableType
  <2>3. Visited(ud) \subseteq Nat
    BY <2>2 DEF Visited, Slots
  <2> QED
    BY <2>1, <2>3, NoTableIs, CallKeeps
<1>11. CASE RehashMove
  BY <1>11, MoveKeeps
<1>12. CASE RehashEnd
  <2>1. /\ Rehashing /\ ind = ud.cap /\ ud' = nhash /\ nhash' = NoTable /\ ind' = 0
        /\ it' = NoItem /\ UNCHANGED <<ret, visited>>
    BY <1>12 DEF RehashEnd
  <2>2. ind' \in 0 .. ud'.cap
    BY <2>1, CapsAreNumbers DEF DictInv
  <2> QED
    BY <2>1, <2>2, NoTableIs DEF DictInv, Rehashing
<1>13. CASE UNCHANGED vars
  BY <1>13 DEF DictInv, vars, Rehashing
<1> QED
  BY <1>1, <1>2, <1>3, <1>4, <1>5, <1>6, <1>7, <1>8, <1>9, <1>10, <1>11, <1>12, <1>13
     DEF Next

\* It holds when there is no dictionary.
LEMMA DictInit == Init => DictInv
<1> SUFFICES ASSUME Init PROVE DictInv
  OBVIOUS
<1>1. ud = NoTable /\ nhash = NoTable /\ ind = 0 /\ it = NoItem /\ ret = NULL /\ visited = {}
  BY DEF Init
<1>2. ~Rehashing /\ 0 \in 0 .. 0
  BY <1>1, NoTableIs DEF Rehashing
<1> QED
  BY <1>1, <1>2, NoTableIs DEF DictInv

\* The invariant of the dictionary, from which the theorems below follow.
LEMMA DictCorrect == Spec => []DictInv
<1>1. Init => DictInv
  BY DictInit
<1>2. DictInv /\ [Next]_vars => DictInv'
  BY DictStep
<1> QED
  BY <1>1, <1>2, PTL DEF Spec

\* Every call of udict.h leaves the table, the handle and the loop index of
\* udRehash in their ranges.
THEOREM TypeTheorem == Spec => []TypeOK
<1>1. DictInv => TypeOK
  <2> SUFFICES ASSUME DictInv PROVE TypeOK
    OBVIOUS
  <2>1. TableType(ud, Values) /\ TableType(nhash, Values)
    BY DEF DictInv, WellFormed
  <2>2. it \in Slots(ud) \union {NoItem}
    BY <2>1 DEF DictInv, TableType
  <2> QED
    BY <2>1, <2>2 DEF DictInv, TypeOK
<1> QED
  BY <1>1, DictCorrect, PTL

\* No sequence of calls, a rehash included, puts a free slot between the home of
\* a key and a pair that holds it, so no lookup gives up too early.
THEOREM ReachableTheorem == Spec => []EveryPairReachable
<1>1. DictInv => EveryPairReachable
  BY DEF DictInv, EveryPairReachable, WellFormed
<1> QED
  BY <1>1, DictCorrect, PTL

\* The size field counts the pairs, as the probe loops and udCleanupDeep rely on.
THEOREM SizeTheorem == Spec => []SizeIsExact
<1>1. DictInv => SizeIsExact
  BY DEF DictInv, SizeIsExact, WellFormed
<1> QED
  BY <1>1, DictCorrect, PTL

\* The duplicate counts are exact, so udFind and udNext give every pair of a key
\* in probe order, whatever was inserted, replaced or rehashed before.
THEOREM DuplicatesTheorem == Spec => []DuplicatesEnumerated
<1>1. DictInv => DuplicatesEnumerated
  <2> SUFFICES ASSUME DictInv, NEW t \in {ud, nhash}
               PROVE  DupsCount(t) /\ Enumerates(t)
    BY DEF DuplicatesEnumerated
  <2>1. WellFormed(t, Values)
    BY DEF DictInv
  <2> QED
    BY <2>1, EnumeratesLemma DEF WellFormed
<1> QED
  BY <1>1, DictCorrect, PTL

\* A handle the client keeps across calls never names a free slot.
THEOREM HandleTheorem == Spec => []HandleNamesPair
<1>1. DictInv => HandleNamesPair
  BY DEF DictInv, HandleNamesPair
<1> QED
  BY <1>1, DictCorrect, PTL

\* udCleanupDeep, which counts down from size, hands every pair to the cleanup
\* function and nothing else.
THEOREM DeepTheorem == Spec => DeepCleansAll
<1>1. ASSUME DictInv, Next, visited' # {}
      PROVE  visited' = ud.active
  <2>1. udCleanupDeep
    <3>1. CASE RehashMove \/ RehashEnd
      <4>1. Rehashing /\ visited' = visited
        BY <3>1 DEF RehashMove, RehashEnd
      <4> QED
        BY <1>1, <4>1 DEF DictInv
    <3> QED
      BY <1>1, <3>1 DEF Next, udInit, RehashBegin, udInsert, udReset, udGet, udFind, TakeItem,
         udSetValue, udNext, udIterFirst, udIterNext, udIterLast, udCleanup, Quiet
  <2>2. ud.cap \in Nat /\ ud.active \subseteq Slots(ud) /\ SizeCounts(ud)
    BY <1>1, CapsAreNumbers DEF DictInv, WellFormed, TableType
  <2> QED
    BY <2>1, <2>2, VisitsAll DEF udCleanupDeep
<1>2. DictInv /\ [Next]_vars => [visited' # {} => visited' = ud.active]_vars
  BY <1>1
<1> QED
  BY <1>2, DictCorrect, PTL DEF Spec, DeepCleansAll

-----------------------------------------------------------------------------
\* udSetValue changes no key.
LEMMA SetValueStays ==
    ASSUME DictInv, NEW v, udSetValue(v)
    PROVE  ud'.active = ud.active /\ ud'.key = ud.key
BY DEF DictInv, WellFormed, IsTable, udSetValue

\* No call moves a pair or changes its key: udInsert writes a free slot, udReset
\* a free slot or the pair of its own key, and the rest write values only.
THEOREM StayTheorem == Spec => ItemsStay
<1>1. ASSUME DictInv, Next, ud'.cap = ud.cap, ~Rehashing', ~Rehashing, NEW p \in ud.active
      PROVE  p \in ud'.active /\ ud'.key[p] = ud.key[p]
  <2>1. ud.cap # 0
    BY <1>1 DEF DictInv, WellFormed, TableType, Slots
  <2>2. WellFormed(ud, Values)
    BY <1>1 DEF DictInv
  <2>3. ASSUME NEW k \in Keys, NEW v \in Values, udInsert(k, v) \/ udReset(k, v)
        PROVE  p \in ud'.active /\ ud'.key[p] = ud.key[p]
    <3>1. ud' = Inserted(ud, k, v) \/ ud' = Replaced(ud, k, v)
      BY <2>3 DEF udInsert, udReset
    <3> QED
      BY <1>1, <2>1, <2>2, <3>1, InsertStays, ResetStays
  <2>4. ASSUME NEW v \in Values, udSetValue(v)
        PROVE  p \in ud'.active /\ ud'.key[p] = ud.key[p]
    BY <1>1, <2>4, SetValueStays
  <2>5. CASE \E c \in Caps : udInit(c) \/ RehashBegin(c)
    <3>1. CASE \E c \in Caps : udInit(c)
      BY <2>1, <3>1 DEF udInit
    <3>2. CASE \E c \in Caps : RehashBegin(c)
      BY <3>2 DEF RehashBegin
    <3> QED
      BY <2>5, <3>1, <3>2
  <2>6. CASE udCleanup \/ udCleanupDeep
    BY <1>1, <2>1, <2>6, NoTableIs DEF udCleanup, udCleanupDeep
  <2>7. CASE RehashMove \/ RehashEnd
    BY <1>1, <2>7 DEF RehashMove, RehashEnd
  <2>8. CASE \/ \E k \in Keys : udGet(k) \/ udFind(k)
             \/ udNext \/ udIterFirst \/ udIterNext \/ udIterLast
    <3>1. ud' = ud
      BY <2>8 DEF udGet, udFind, udNext, udIterFirst, udIterNext, udIterLast, TakeItem
    <3> QED
      BY <1>1, <3>1
  <2> QED
    BY <1>1, <2>3, <2>4, <2>5, <2>6, <2>7, <2>8 DEF Next
<1>2. DictInv /\ [Next]_vars =>
        [ud'.cap = ud.cap /\ ~Rehashing' /\ ~Rehashing =>
           \A p \in ud.active : p \in ud'.active /\ ud'.key[p] = ud.key[p]]_vars
  BY <1>1
<1> QED
  BY <1>2, DictCorrect, PTL DEF Spec, ItemsStay

-----------------------------------------------------------------------------
\* udRehash copies every pair as often as it is there, and "everything must fit":
\* the insert it does not check never fails.
THEOREM FitTheorem == Spec => []EverythingFits
<1> DEFINE Fits == Rehashing => Fitted(ud, nhash, ind)
<1>1. Init => Fits
  BY NoTableIs DEF Init, Rehashing
<1>2. ASSUME DictInv, Fits, [Next]_vars PROVE Fits'
  <2>1. CASE RehashMove
    <3>1. /\ Rehashing /\ ind < ud.cap /\ ind' = ind + 1 /\ ud' = ud
          /\ nhash' = IF ind \in ud.active THEN Inserted(nhash, ud.key[ind], ud.value[ind])
                      ELSE nhash
      BY <2>1 DEF RehashMove
    <3>2. /\ WellFormed(ud, Values) /\ WellFormed(nhash, Values)
          /\ nhash.cap # 0 /\ nhash.cap >= ud.cap /\ ind \in Slots(ud)
      <4>1. ud.cap \in Nat /\ ind \in 0 .. ud.cap
        BY <1>2, CapsAreNumbers DEF DictInv
      <4> QED
        BY <1>2, <3>1, <4>1 DEF DictInv, Rehashing, Slots
    <3>3. Fitted(ud, nhash', ind + 1)
      BY <1>2, <3>1, <3>2, MoveFits
    <3> QED
      BY <3>1, <3>3
  <2>2. ASSUME NEW c \in Caps, RehashBegin(c) PROVE Fits'
    <3>1. nhash' = Empty(c) /\ ind' = 0 /\ ud' = ud
      BY <2>2 DEF RehashBegin
    <3>2. ud.active \subseteq Slots(ud)
      BY <1>2 DEF DictInv, WellFormed, TableType
    <3>3. Fitted(ud, Empty(c), 0)
      BY <3>2, NothingMoved
    <3> QED
      BY <3>1, <3>3
  <2>3. CASE RehashEnd
    <3>1. ~Rehashing'
      BY <2>3, NoTableIs DEF RehashEnd, Rehashing
    <3> QED
      BY <3>1
  <2>4. CASE UNCHANGED <<nhash, ind>> /\ (ud' = ud \/ ~Rehashing)
    BY <1>2, <2>4 DEF Rehashing
  <2>5. ASSUME Next, ~RehashMove, ~RehashEnd, \A c \in Caps : ~RehashBegin(c)
        PROVE  UNCHANGED <<nhash, ind>> /\ ~Rehashing
    <3>1. ASSUME NEW c \in Caps, udInit(c) PROVE UNCHANGED <<nhash, ind>> /\ ~Rehashing
      BY <1>2, <3>1 DEF udInit, rehash, DictInv
    <3>2. CASE \E c \in Caps : udInit(c)
      BY <3>1, <3>2
    <3> QED
      BY <2>5, <3>2 DEF Next, udInsert, udReset, udGet, udFind, TakeItem, udSetValue, udNext,
         udIterFirst, udIterNext, udIterLast, udCleanup, udCleanupDeep, Ready, rehash
  <2>6. CASE UNCHANGED vars
    <3>1. UNCHANGED <<nhash, ind>> /\ ud' = ud
      BY <2>6 DEF vars
    <3> QED
      BY <2>4, <3>1
  <2> HIDE DEF Fits
  <2>7. CASE Next
    BY <2>1, <2>2, <2>3, <2>4, <2>5, <2>7
  <2> QED
    BY <1>2, <2>6, <2>7
<1>3. Fits => EverythingFits
  <2> SUFFICES ASSUME Rehashing, Fitted(ud, nhash, ind)
               PROVE  LET moved == Moved(ud, ind)
                      IN  /\ nhash.size = Cardinality(moved)
                          /\ \A k \in Keys, v \in Values \union {NULL} :
                               Cardinality({ s \in Holding(nhash, k) : nhash.value[s] = v })
                                 = Cardinality({ s \in moved : ud.key[s] = k /\ ud.value[s] = v })
    BY DEF EverythingFits, Moved
  <2>1. ASSUME NEW k, NEW v
        PROVE  /\ { s \in Holding(nhash, k) : nhash.value[s] = v }
                    = Having(nhash, nhash.active, k, v)
               /\ { s \in Moved(ud, ind) : ud.key[s] = k /\ ud.value[s] = v }
                    = Having(ud, Moved(ud, ind), k, v)
    BY DEF Having, Holding
  <2>2. nhash.size = Cardinality(Moved(ud, ind))
    BY DEF Fitted
  <2>3. ASSUME NEW k \in Keys, NEW v \in Values \union {NULL}
        PROVE  Cardinality({ s \in Holding(nhash, k) : nhash.value[s] = v })
                 = Cardinality({ s \in Moved(ud, ind) : ud.key[s] = k /\ ud.value[s] = v })
    <3>1. Cardinality(Having(nhash, nhash.active, k, v))
            = Cardinality(Having(ud, Moved(ud, ind), k, v))
      BY DEF Fitted
    <3> QED
      BY <2>1, <3>1
  <2> QED
    BY <2>2, <2>3
<1> QED
  BY <1>1, <1>2, <1>3, DictCorrect, PTL DEF Spec

-----------------------------------------------------------------------------
(***************************************************************************)
(* The values of a key, in probe order.  A pair's rank is its place there. *)
(***************************************************************************)
Before(t, k, p) == Passed(t, HomeOf(t, k), p) \cap Holding(t, k)
Rank(t, k, p) == Cardinality(Before(t, k, p)) + 1

\* The slots that hold a key, and how many there are.
LEMMA HoldingIs ==
    ASSUME NEW t, NEW V, WellFormed(t, V), NEW k
    PROVE  /\ t.cap \in Nat
           /\ Holding(t, k) \in SUBSET t.active /\ t.active \in SUBSET Slots(t)
           /\ Holding(t, k) \in SUBSET Slots(t)
           /\ IsFiniteSet(Holding(t, k)) /\ Cardinality(Holding(t, k)) \in Nat
           /\ Holding(t, k) # {} => t.cap \in Nat \ {0}
           /\ k \in Keys /\ Holding(t, k) # {} => HomeOf(t, k) \in Slots(t)
           /\ \A p \in t.active : t.key[p] \in Keys /\ p \in Holding(t, t.key[p])
<1>1. /\ t.cap \in Nat /\ t.active \in SUBSET Slots(t)
      /\ \A p \in t.active : t.key[p] \in Keys
  BY DEF WellFormed, HomesFit, TableType
<1>2. Holding(t, k) \in SUBSET t.active
  BY DEF Holding
<1>3. Holding(t, k) # {} => t.cap # 0
  BY <1>1, <1>2 DEF Slots
<1>4. IsFiniteSet(Holding(t, k)) /\ Cardinality(Holding(t, k)) \in Nat
  BY <1>1, <1>2, SlotsFinite
<1> QED
  BY <1>1, <1>2, <1>3, <1>4 DEF WellFormed, HomesFit, Holding

\* A probe passes a pair, and all that was before it, before a later one.
LEMMA BeforeGrows ==
    ASSUME NEW t, NEW V, WellFormed(t, V), NEW k \in Keys,
           NEW p \in Holding(t, k), NEW q \in Holding(t, k),
           Steps(t, HomeOf(t, k), p) < Steps(t, HomeOf(t, k), q)
    PROVE  Before(t, k, p) \union {p} \subseteq Before(t, k, q)
<1>1. /\ t.cap \in Nat \ {0} /\ HomeOf(t, k) \in Slots(t)
      /\ Holding(t, k) \in SUBSET Slots(t)
  BY HoldingIs
<1>2. \A s \in Slots(t) : Steps(t, HomeOf(t, k), s) \in 0 .. t.cap - 1
  BY <1>1, StepsOrder
<1>3. \A s \in Slots(t) :
        Steps(t, HomeOf(t, k), s) < Steps(t, HomeOf(t, k), p)
          => Steps(t, HomeOf(t, k), s) < Steps(t, HomeOf(t, k), q)
  <2>1. p \in Slots(t) /\ q \in Slots(t)
    BY <1>1
  <2> HIDE DEF Steps
  <2> QED
    BY <1>2, <2>1
<1> QED
  BY <1>1, <1>3 DEF Before, Passed

\* Ranks count from one to the number of pairs, and follow the probe.
LEMMA RankIs ==
    ASSUME NEW t, NEW V, WellFormed(t, V), NEW k \in Keys, NEW p \in Holding(t, k)
    PROVE  /\ IsFiniteSet(Before(t, k, p)) /\ p \notin Before(t, k, p)
           /\ Rank(t, k, p) \in 1 .. Cardinality(Holding(t, k))
           /\ \A q \in Holding(t, k) :
                /\ Steps(t, HomeOf(t, k), p) < Steps(t, HomeOf(t, k), q)
                     => Rank(t, k, p) < Rank(t, k, q)
                /\ Rank(t, k, p) = Rank(t, k, q) => p = q
<1>1. /\ t.cap \in Nat \ {0} /\ HomeOf(t, k) \in Slots(t)
      /\ Holding(t, k) \in SUBSET Slots(t)
      /\ IsFiniteSet(Holding(t, k)) /\ Cardinality(Holding(t, k)) \in Nat
  BY HoldingIs
<1>2. ASSUME NEW q \in Holding(t, k)
      PROVE  /\ Before(t, k, q) \in SUBSET Holding(t, k) /\ q \notin Before(t, k, q)
             /\ IsFiniteSet(Before(t, k, q)) /\ Cardinality(Before(t, k, q)) \in Nat
             /\ Cardinality(Before(t, k, q) \union {q}) = Cardinality(Before(t, k, q)) + 1
  <2>1. Before(t, k, q) \in SUBSET Holding(t, k)
    BY DEF Before
  <2>2. q \notin Before(t, k, q)
    <3>1. Steps(t, HomeOf(t, k), q) \in 0 .. t.cap - 1
      BY <1>1, StepsOrder
    <3> QED
      BY <3>1 DEF Before, Passed
  <2>3. IsFiniteSet(Before(t, k, q)) /\ Cardinality(Before(t, k, q)) \in Nat
    BY <1>1, <2>1, FS_Subset, FS_CardinalityType
  <2> QED
    BY <2>1, <2>2, <2>3, FS_AddElement
<1>3. Rank(t, k, p) \in 1 .. Cardinality(Holding(t, k))
  <2>1. Before(t, k, p) \union {p} \in SUBSET Holding(t, k)
    BY <1>2
  <2>2. Cardinality(Before(t, k, p) \union {p}) <= Cardinality(Holding(t, k))
    BY <1>1, <2>1, FS_Subset
  <2> QED
    BY <1>1, <1>2, <2>2 DEF Rank
<1>4. ASSUME NEW q \in Holding(t, k), NEW r \in Holding(t, k),
             Steps(t, HomeOf(t, k), q) < Steps(t, HomeOf(t, k), r)
      PROVE  Rank(t, k, q) < Rank(t, k, r)
  <2>1. Before(t, k, q) \union {q} \in SUBSET Before(t, k, r)
    BY <1>4, BeforeGrows
  <2>2. Cardinality(Before(t, k, q) \union {q}) <= Cardinality(Before(t, k, r))
    BY <1>2, <2>1, FS_Subset
  <2>3. /\ Cardinality(Before(t, k, q)) \in Nat /\ Cardinality(Before(t, k, r)) \in Nat
        /\ Cardinality(Before(t, k, q) \union {q}) = Cardinality(Before(t, k, q)) + 1
    BY <1>2
  <2>4. Cardinality(Before(t, k, q)) + 1 < Cardinality(Before(t, k, r)) + 1
    BY <2>2, <2>3
  <2> QED
    BY <2>4 DEF Rank
<1>5. ASSUME NEW q \in Holding(t, k), Rank(t, k, p) = Rank(t, k, q)
      PROVE  p = q
  <2>1. /\ Steps(t, HomeOf(t, k), p) \in 0 .. t.cap - 1
        /\ Steps(t, HomeOf(t, k), q) \in 0 .. t.cap - 1
        /\ Steps(t, HomeOf(t, k), p) = Steps(t, HomeOf(t, k), q) <=> p = q
    BY <1>1, StepsOrder
  <2>2. /\ ~(Steps(t, HomeOf(t, k), p) < Steps(t, HomeOf(t, k), q))
        /\ ~(Steps(t, HomeOf(t, k), q) < Steps(t, HomeOf(t, k), p))
    <3>1. Cardinality(Before(t, k, p)) \in Nat /\ Cardinality(Before(t, k, q)) \in Nat
      BY <1>2
    <3>2. Rank(t, k, p) \in Nat /\ Rank(t, k, q) \in Nat
      BY <3>1 DEF Rank
    <3> QED
      BY <1>4, <1>5, <3>2
  <2> QED
    BY <2>1, <2>2
<1> QED
  BY <1>2, <1>3, <1>4, <1>5

\* Every number up to the count of pairs is the rank of one.
LEMMA RankOnto ==
    ASSUME NEW t, NEW V, WellFormed(t, V), NEW k \in Keys,
           NEW i \in 1 .. Cardinality(Holding(t, k))
    PROVE  \E p \in Holding(t, k) : Rank(t, k, p) = i
<1> DEFINE n == Cardinality(Holding(t, k))
           f == [p \in Holding(t, k) |-> Rank(t, k, p)]
<1>1. IsFiniteSet(Holding(t, k)) /\ n \in Nat
  BY HoldingIs
<1>2. f \in Injection(Holding(t, k), 1 .. n)
  BY RankIs DEF Injection, IsInjective
<1>3. IsFiniteSet(1 .. n) /\ Cardinality(1 .. n) = n
  BY <1>1, FS_Interval
<1>4. f \in Surjection(Holding(t, k), 1 .. n)
  BY <1>2, <1>3, FS_Injection
<1> QED
  BY <1>4 DEF Surjection

\* ValuesOf lists the values of a key by rank.
LEMMA ValuesAre ==
    ASSUME NEW t, NEW V, WellFormed(t, V), NEW k \in Keys
    PROVE  /\ ValuesOf(t, k) \in Seq(V \union {NULL})
           /\ Len(ValuesOf(t, k)) = Cardinality(Holding(t, k))
           /\ DOMAIN ValuesOf(t, k) = 1 .. Cardinality(Holding(t, k))
           /\ \A p \in Holding(t, k) : ValuesOf(t, k)[Rank(t, k, p)] = t.value[p]
<1> DEFINE n == Cardinality(Holding(t, k))
           nth(i) == CHOOSE p \in Holding(t, k) :
                       Cardinality(Passed(t, HomeOf(t, k), p) \cap Holding(t, k)) = i - 1
           e(i) == t.value[nth(i)]
<1>1. n \in Nat /\ Holding(t, k) \in SUBSET Slots(t)
      /\ t.value \in [Slots(t) -> V \union {NULL}]
  BY HoldingIs DEF WellFormed, TableType
<1>2. ASSUME NEW p \in Holding(t, k)
      PROVE  Cardinality(Passed(t, HomeOf(t, k), p) \cap Holding(t, k)) = Rank(t, k, p) - 1
  <2>1. IsFiniteSet(Before(t, k, p))
    BY RankIs
  <2>2. Cardinality(Before(t, k, p)) \in Nat
    BY <2>1, FS_CardinalityType
  <2>3. Cardinality(Before(t, k, p)) = Rank(t, k, p) - 1
    BY <2>2 DEF Rank
  <2> QED
    BY <2>3 DEF Before
<1>3. \A p \in Holding(t, k), i \in 1 .. n :
        Cardinality(Passed(t, HomeOf(t, k), p) \cap Holding(t, k)) = i - 1
          <=> Rank(t, k, p) = i
  <2>1. \A p \in Holding(t, k) : Rank(t, k, p) \in Nat
    BY RankIs
  <2> QED
    BY <1>2, <2>1
<1>4. ASSUME NEW i \in 1 .. n
      PROVE  nth(i) \in Holding(t, k) /\ Rank(t, k, nth(i)) = i
  <2>1. \E p \in Holding(t, k) : Rank(t, k, p) = i
    BY RankOnto
  <2> QED
    BY <1>3, <2>1
<1>5. ValuesOf(t, k) = [i \in 1 .. n |-> e(i)]
  BY DEF ValuesOf
<1> HIDE DEF nth
<1>6. \A i \in 1 .. n : e(i) \in V \union {NULL}
  BY <1>1, <1>4
<1>7. \A p \in Holding(t, k) : Rank(t, k, p) \in 1 .. n /\ nth(Rank(t, k, p)) = p
  <2> SUFFICES ASSUME NEW p \in Holding(t, k)
               PROVE  Rank(t, k, p) \in 1 .. n /\ nth(Rank(t, k, p)) = p
    OBVIOUS
  <2>1. Rank(t, k, p) \in 1 .. n
    BY RankIs
  <2>2. /\ nth(Rank(t, k, p)) \in Holding(t, k)
        /\ Rank(t, k, nth(Rank(t, k, p))) = Rank(t, k, p)
    BY <1>4, <2>1
  <2> QED
    BY <2>1, <2>2, RankIs
<1>8. \A p \in Holding(t, k) : e(Rank(t, k, p)) = t.value[p]
  BY <1>7
<1> HIDE DEF e, n
<1>9. [i \in 1 .. n |-> e(i)] \in Seq(V \union {NULL})
  BY <1>1, <1>6, IsASeq
<1>10. /\ ValuesOf(t, k) \in Seq(V \union {NULL}) /\ Len(ValuesOf(t, k)) = n
       /\ DOMAIN ValuesOf(t, k) = 1 .. n
  BY <1>1, <1>5, <1>9, LenProperties
<1>11. \A p \in Holding(t, k) : ValuesOf(t, k)[Rank(t, k, p)] = e(Rank(t, k, p))
  BY <1>5, <1>7
<1> QED
  BY <1>8, <1>10, <1>11 DEF n

\* A sequence with the value of each pair at the pair's rank is ValuesOf.
LEMMA ValuesFit ==
    ASSUME NEW t, NEW V, WellFormed(t, V), NEW k \in Keys,
           NEW s \in Seq(V \union {NULL}), Len(s) = Cardinality(Holding(t, k)),
           \A p \in Holding(t, k) : s[Rank(t, k, p)] = t.value[p]
    PROVE  ValuesOf(t, k) = s
<1>1. /\ ValuesOf(t, k) \in Seq(V \union {NULL})
      /\ Len(ValuesOf(t, k)) = Cardinality(Holding(t, k))
      /\ \A p \in Holding(t, k) : ValuesOf(t, k)[Rank(t, k, p)] = t.value[p]
  BY ValuesAre
<1>2. ASSUME NEW i \in 1 .. Cardinality(Holding(t, k))
      PROVE  ValuesOf(t, k)[i] = s[i]
  <2>1. PICK p \in Holding(t, k) : Rank(t, k, p) = i
    BY RankOnto
  <2> QED
    BY <1>1, <2>1
<1> QED
  BY <1>1, <1>2, SeqEqual

\* Tables with the same pairs of a key rank them alike.
LEMMA SameRanks ==
    ASSUME NEW t, NEW r, NEW k, r.cap = t.cap, Holding(r, k) = Holding(t, k)
    PROVE  \A p : Rank(r, k, p) = Rank(t, k, p)
BY SameProbes DEF Rank, Before

\* Nothing changes for a key whose pairs stay as they are.
LEMMA SameValues ==
    ASSUME NEW t, NEW r, NEW V, WellFormed(t, V), WellFormed(r, V), NEW k \in Keys,
           r.cap = t.cap, Holding(r, k) = Holding(t, k),
           \A p \in Holding(t, k) : r.value[p] = t.value[p]
    PROVE  ValuesOf(r, k) = ValuesOf(t, k)
<1>1. /\ ValuesOf(t, k) \in Seq(V \union {NULL})
      /\ Len(ValuesOf(t, k)) = Cardinality(Holding(t, k))
      /\ \A p \in Holding(t, k) : ValuesOf(t, k)[Rank(t, k, p)] = t.value[p]
  BY ValuesAre
<1>2. \A p \in Holding(r, k) : ValuesOf(t, k)[Rank(r, k, p)] = r.value[p]
  BY <1>1, SameRanks
<1> QED
  BY <1>1, <1>2, ValuesFit

\* Writing the value of a pair replaces the one of its rank.
LEMMA ChangedValue ==
    ASSUME NEW t, NEW r, NEW V, WellFormed(t, V), WellFormed(r, V), NEW k \in Keys,
           r.cap = t.cap, Holding(r, k) = Holding(t, k),
           NEW p \in Holding(t, k), NEW v \in V \union {NULL}, r.value = [t.value EXCEPT ![p] = v]
    PROVE  ValuesOf(r, k) = [ValuesOf(t, k) EXCEPT ![Rank(t, k, p)] = v]
<1> DEFINE s == ValuesOf(t, k)
           c == [s EXCEPT ![Rank(t, k, p)] = v]
<1>1. /\ s \in Seq(V \union {NULL})
      /\ Len(s) = Cardinality(Holding(t, k))
      /\ \A q \in Holding(t, k) : s[Rank(t, k, q)] = t.value[q]
  BY ValuesAre
<1>2. \A q \in Holding(t, k) : /\ Rank(t, k, q) \in 1 .. Len(s)
                               /\ Rank(t, k, p) = Rank(t, k, q) => p = q
  BY <1>1, RankIs
<1> HIDE DEF s
<1>3. /\ c \in Seq(V \union {NULL}) /\ Len(c) = Len(s)
      /\ \A j \in 1 .. Len(s) : c[j] = IF j = Rank(t, k, p) THEN v ELSE s[j]
  BY <1>1, <1>2, ExceptSeq
<1>4. \A q \in Holding(t, k) : r.value[q] = IF q = p THEN v ELSE t.value[q]
  <2>1. DOMAIN t.value = Slots(t) /\ Holding(t, k) \in SUBSET Slots(t)
    BY HoldingIs DEF WellFormed, TableType
  <2> QED
    BY <2>1
<1> HIDE DEF c
<1>5. \A q \in Holding(t, k) : c[Rank(t, k, q)] = r.value[q]
  BY <1>1, <1>2, <1>3, <1>4
<1>6. \A q \in Holding(r, k) : c[Rank(r, k, q)] = r.value[q]
  BY <1>5, SameRanks
<1>7. Len(c) = Cardinality(Holding(r, k))
  BY <1>1, <1>3
<1>8. ValuesOf(r, k) = c
  <2>1. c \in Seq(V \union {NULL})
    BY <1>3
  <2> QED
    BY ONLY WellFormed(r, V), k \in Keys, <1>6, <1>7, <2>1, ValuesFit
<1> QED
  BY <1>8 DEF c, s

\* A pair behind all others of its key appends its value.
LEMMA AppendedValue ==
    ASSUME NEW t, NEW r, NEW V, WellFormed(t, V), WellFormed(r, V), NEW k \in Keys,
           r.cap = t.cap, NEW p \in Slots(t), p \notin Holding(t, k),
           Holding(t, k) \subseteq Passed(t, HomeOf(t, k), p),
           Holding(r, k) = Holding(t, k) \union {p},
           NEW v \in V \union {NULL}, r.value = [t.value EXCEPT ![p] = v]
    PROVE  /\ ValuesOf(r, k) = Append(ValuesOf(t, k), v)
           /\ Rank(r, k, p) = Len(ValuesOf(t, k)) + 1
           /\ \A q \in Holding(t, k) : Rank(r, k, q) = Rank(t, k, q)
<1> DEFINE s == ValuesOf(t, k)
           a == Append(s, v)
           h == HomeOf(t, k)
<1>1. /\ s \in Seq(V \union {NULL})
      /\ Len(s) = Cardinality(Holding(t, k))
      /\ \A q \in Holding(t, k) : s[Rank(t, k, q)] = t.value[q]
  BY ValuesAre
<1>2. IsFiniteSet(Holding(t, k)) /\ Cardinality(Holding(t, k)) \in Nat
      /\ Holding(t, k) \in SUBSET Slots(t)
  BY HoldingIs
<1>3. Cardinality(Holding(r, k)) = Len(s) + 1
  <2>1. Cardinality(Holding(t, k) \union {p}) = Cardinality(Holding(t, k)) + 1
    BY <1>2, FS_AddElement
  <2> QED
    BY <1>1, <2>1
<1>4. Before(r, k, p) = Holding(t, k)
  <2>1. p \notin Passed(t, h, p)
    <3>1. HomeOf(t, k) \in Slots(t) /\ t.cap \in Nat \ {0}
      BY HoldingIs, SameProbes
    <3>2. Steps(t, h, p) \in 0 .. t.cap - 1
      BY <3>1, StepsOrder
    <3> QED
      BY <3>2 DEF Passed
  <2>2. Before(r, k, p) = Passed(t, h, p) \cap Holding(r, k)
    BY SameProbes DEF Before
  <2> QED
    BY <2>1, <2>2
<1>5. ASSUME NEW q \in Holding(t, k)
      PROVE  Before(r, k, q) = Before(t, k, q)
  <2>1. HomeOf(t, k) \in Slots(t) /\ t.cap \in Nat \ {0} /\ q \in Slots(t)
    BY HoldingIs
  <2>2. Steps(t, h, p) \in 0 .. t.cap - 1 /\ Steps(t, h, q) \in 0 .. t.cap - 1
    BY <2>1, StepsOrder
  <2>3. Steps(t, h, q) < Steps(t, h, p)
    BY DEF Passed
  <2>4. p \notin Passed(t, h, q)
    BY <2>2, <2>3 DEF Passed
  <2>5. Before(r, k, q) = Passed(t, h, q) \cap Holding(r, k)
    BY SameProbes DEF Before
  <2> QED
    BY <2>4, <2>5 DEF Before
<1>6. /\ Rank(r, k, p) = Len(s) + 1
      /\ \A q \in Holding(t, k) : Rank(r, k, q) = Rank(t, k, q)
  BY <1>1, <1>4, <1>5 DEF Rank
<1>7. \A q \in Holding(t, k) : Rank(t, k, q) \in 1 .. Len(s)
  BY <1>1, RankIs
<1> HIDE DEF s
<1>8. /\ a \in Seq(V \union {NULL}) /\ Len(a) = Len(s) + 1
      /\ \A i \in 1 .. Len(s) : a[i] = s[i]
      /\ a[Len(s) + 1] = v
  BY <1>1, AppendProperties
<1>9. r.value[p] = v /\ \A q \in Holding(t, k) : r.value[q] = t.value[q]
  <2>1. DOMAIN t.value = Slots(t)
    BY DEF WellFormed, TableType
  <2> QED
    BY <1>2, <2>1
<1> HIDE DEF a
<1>10. \A q \in Holding(r, k) : a[Rank(r, k, q)] = r.value[q]
  BY <1>1, <1>6, <1>7, <1>8, <1>9
<1>11. Len(a) = Cardinality(Holding(r, k))
  BY <1>3, <1>8
<1>12. ValuesOf(r, k) = a
  <2>1. a \in Seq(V \union {NULL})
    BY <1>8
  <2> QED
    BY ONLY WellFormed(r, V), k \in Keys, <1>10, <1>11, <2>1, ValuesFit
<1> QED
  BY <1>6, <1>12 DEF a, s

-----------------------------------------------------------------------------
(***************************************************************************)
(* The multimap of a table, and the place a handle names in it.            *)
(***************************************************************************)
Listing(t) == [k \in Keys |-> ValuesOf(t, k)]

PlaceOf(t, p) ==
    IF p \notin t.active THEN <<>> ELSE <<t.key[p], Rank(t, t.key[p], p)>>

Places(t) == UNION { {k} \X (1 .. Cardinality(Holding(t, k))) : k \in Keys }

\* There are as many places as pairs.
LEMMA PlacesAre ==
    ASSUME NEW t, NEW V, WellFormed(t, V)
    PROVE  /\ Cardinality(Places(t)) = t.size
           /\ \A p \in t.active : PlaceOf(t, p) \in Places(t)
<1> DEFINE f == [p \in t.active |-> PlaceOf(t, p)]
<1>1. /\ t.cap \in Nat /\ t.active \in SUBSET Slots(t) /\ SizeCounts(t)
      /\ \A p \in t.active : t.key[p] \in Keys /\ p \in Holding(t, t.key[p])
  BY HoldingIs DEF WellFormed
<1>2. IsFiniteSet(t.active)
  BY <1>1, SlotsFinite
<1>3. ASSUME NEW p \in t.active
      PROVE  PlaceOf(t, p) \in Places(t) /\ PlaceOf(t, p) = <<t.key[p], Rank(t, t.key[p], p)>>
  <2>1. PlaceOf(t, p) = <<t.key[p], Rank(t, t.key[p], p)>>
    BY DEF PlaceOf
  <2>2. Rank(t, t.key[p], p) \in 1 .. Cardinality(Holding(t, t.key[p])) /\ t.key[p] \in Keys
    BY <1>1, RankIs
  <2> QED
    BY <2>1, <2>2 DEF Places
<1>4. ASSUME NEW p \in t.active, NEW q \in t.active, PlaceOf(t, p) = PlaceOf(t, q)
      PROVE  p = q
  <2>1. t.key[p] = t.key[q] /\ Rank(t, t.key[p], p) = Rank(t, t.key[q], q)
    BY <1>3, <1>4
  <2>2. t.key[p] \in Keys /\ p \in Holding(t, t.key[p]) /\ q \in Holding(t, t.key[p])
    BY <1>1, <2>1
  <2> QED
    BY <2>1, <2>2, RankIs
<1>5. ASSUME NEW c \in Places(t)
      PROVE  \E p \in t.active : PlaceOf(t, p) = c
  <2>1. PICK k \in Keys : c \in {k} \X (1 .. Cardinality(Holding(t, k)))
    BY DEF Places
  <2>2. PICK i \in 1 .. Cardinality(Holding(t, k)) : c = <<k, i>>
    BY <2>1
  <2>3. PICK p \in Holding(t, k) : Rank(t, k, p) = i
    BY RankOnto
  <2>4. p \in t.active /\ t.key[p] = k
    BY DEF Holding
  <2> QED
    BY <1>3, <2>2, <2>3, <2>4
<1>6. f \in Bijection(t.active, Places(t))
  BY <1>3, <1>4, <1>5 DEF Bijection, Injection, Surjection, IsInjective
<1>7. Cardinality(Places(t)) = Cardinality(t.active)
  BY <1>2, <1>6, FS_Bijection DEF ExistsBijection
<1> QED
  BY <1>1, <1>3, <1>7 DEF SizeCounts

\* A pair that lands in a free slot is the last of its key.
LEMMA ListingLanded ==
    ASSUME NEW t, NEW r, NEW V, WellFormed(t, V), WellFormed(r, V), NEW k \in Keys, NEW p,
           Lands(t, k, p), Landed(t, r, k, p), NEW v \in V, r.value = [t.value EXCEPT ![p] = v]
    PROVE  /\ Listing(r) = [Listing(t) EXCEPT ![k] = Append(Listing(t)[k], v)]
           /\ PlaceOf(r, p) = <<k, Len(Listing(t)[k]) + 1>>
           /\ \A q : q # p => PlaceOf(r, q) = PlaceOf(t, q)
<1>1. /\ p \in Slots(t) /\ p \notin t.active /\ Holding(t, k) \subseteq Passed(t, HomeOf(t, k), p)
  <2>1. \A s \in Holding(t, k) : s \in Slots(t)
    BY HoldingIs
  <2> QED
    BY <2>1, LandsBehind
<1>2. /\ r.cap = t.cap /\ r.active = t.active \union {p} /\ r.key = [t.key EXCEPT ![p] = k]
      /\ DOMAIN t.key = Slots(t) /\ DOMAIN t.value = Slots(t) /\ t.active \subseteq Slots(t)
  BY DEF Landed, WellFormed, TableType
<1>3. \A s \in t.active : r.key[s] = t.key[s] /\ r.value[s] = t.value[s]
  BY <1>1, <1>2
<1>4. r.key[p] = k
  BY <1>1, <1>2
<1>5. Holding(r, k) = Holding(t, k) \union {p} /\ p \notin Holding(t, k)
  BY <1>1, <1>2, <1>3, <1>4 DEF Holding
<1>6. ASSUME NEW j, j # k
      PROVE  Holding(r, j) = Holding(t, j)
  BY <1>1, <1>2, <1>3, <1>4, <1>6 DEF Holding
<1>7. /\ ValuesOf(r, k) = Append(ValuesOf(t, k), v)
      /\ Rank(r, k, p) = Len(ValuesOf(t, k)) + 1
      /\ \A q \in Holding(t, k) : Rank(r, k, q) = Rank(t, k, q)
  <2>1. v \in V \union {NULL}
    OBVIOUS
  <2> QED
    BY ONLY WellFormed(t, V), WellFormed(r, V), k \in Keys, r.value = [t.value EXCEPT ![p] = v],
            <1>1, <1>2, <1>5, <2>1, AppendedValue
<1>8. ASSUME NEW j \in Keys, j # k
      PROVE  ValuesOf(r, j) = ValuesOf(t, j)
  <2>1. \A q \in Holding(t, j) : r.value[q] = t.value[q]
    BY <1>3 DEF Holding
  <2>2. Holding(r, j) = Holding(t, j)
    BY <1>6, <1>8
  <2> QED
    BY ONLY WellFormed(t, V), WellFormed(r, V), j \in Keys, <1>2, <2>1, <2>2, SameValues
<1>9. Listing(r) = [Listing(t) EXCEPT ![k] = Append(Listing(t)[k], v)]
  BY <1>7, <1>8 DEF Listing
<1>10. PlaceOf(r, p) = <<k, Len(Listing(t)[k]) + 1>>
  BY <1>2, <1>4, <1>7 DEF PlaceOf, Listing
<1>11. ASSUME NEW q, q # p
       PROVE  PlaceOf(r, q) = PlaceOf(t, q)
  <2>1. CASE q \notin t.active
    BY <1>2, <1>11, <2>1 DEF PlaceOf
  <2>2. CASE q \in t.active
    <3>1. q \in r.active /\ r.key[q] = t.key[q]
      BY <1>2, <1>3, <2>2
    <3>2. Rank(r, t.key[q], q) = Rank(t, t.key[q], q)
      <4>1. CASE t.key[q] = k
        BY <1>7, <2>2, <4>1 DEF Holding
      <4>2. CASE t.key[q] # k
        BY <1>2, <1>6, <4>2, SameRanks
      <4> QED
        BY <4>1, <4>2
    <3> QED
      BY <2>2, <3>1, <3>2 DEF PlaceOf
  <2> QED
    BY <2>1, <2>2
<1> QED
  BY <1>9, <1>10, <1>11

\* A pair whose value is written keeps its place, and all others do.
LEMMA ListingChanged ==
    ASSUME NEW t, NEW r, NEW V, WellFormed(t, V), WellFormed(r, V), NEW p \in t.active, NEW v \in V,
           r.cap = t.cap, r.active = t.active, r.key = t.key, r.value = [t.value EXCEPT ![p] = v]
    PROVE  /\ Listing(r) = [Listing(t) EXCEPT ![t.key[p]] =
                              [Listing(t)[t.key[p]] EXCEPT ![Rank(t, t.key[p], p)] = v]]
           /\ \A q : PlaceOf(r, q) = PlaceOf(t, q)
<1> DEFINE k == t.key[p]
<1>1. k \in Keys /\ p \in Holding(t, k) /\ t.active \subseteq Slots(t) /\ DOMAIN t.value = Slots(t)
  BY HoldingIs DEF WellFormed, TableType
<1>2. \A j : Holding(r, j) = Holding(t, j)
  BY DEF Holding
<1>3. ValuesOf(r, k) = [ValuesOf(t, k) EXCEPT ![Rank(t, k, p)] = v]
  <2>1. v \in V \union {NULL} /\ r.cap = t.cap /\ r.value = [t.value EXCEPT ![p] = v]
    OBVIOUS
  <2> HIDE DEF k
  <2> QED
    BY ONLY WellFormed(t, V), WellFormed(r, V), <1>1, <1>2, <2>1, ChangedValue
<1>4. ASSUME NEW j \in Keys, j # k
      PROVE  ValuesOf(r, j) = ValuesOf(t, j)
  <2>1. \A q \in Holding(t, j) : r.value[q] = t.value[q]
    BY <1>1, <1>4 DEF Holding
  <2>2. r.cap = t.cap
    OBVIOUS
  <2> QED
    BY ONLY WellFormed(t, V), WellFormed(r, V), j \in Keys, <1>2, <2>1, <2>2, SameValues
<1>5. Listing(r) = [Listing(t) EXCEPT ![k] = [Listing(t)[k] EXCEPT ![Rank(t, k, p)] = v]]
  BY <1>1, <1>3, <1>4 DEF Listing
<1>6. \A q : PlaceOf(r, q) = PlaceOf(t, q)
  BY <1>2, SameRanks DEF PlaceOf
<1> QED
  BY <1>5, <1>6

-----------------------------------------------------------------------------
(***************************************************************************)
(* The calls are those of the multimap.                                    *)
(***************************************************************************)

\* The refinement mapping, in the state before a step ...
LEMMA MultiBefore ==
    [k \in Keys |-> ValuesOf(ud, k)] = Listing(ud) /\ Cursor = PlaceOf(ud, it)
BY DEF Listing, Cursor, PlaceOf, Rank, Before

\* ... and after it.
LEMMA MultiAfter ==
    [k \in Keys |-> ValuesOf(ud, k)]' = Listing(ud') /\ Cursor' = PlaceOf(ud', it')
BY DEF Listing, ValuesOf, Cursor, PlaceOf, Rank, Before, Passed, Steps, Slots, Holding, HomeOf

\* What a listing holds of one key.
LEMMA ListingIs ==
    ASSUME NEW t, NEW V, WellFormed(t, V), NEW k \in Keys
    PROVE  /\ Listing(t)[k] = ValuesOf(t, k)
           /\ Listing(t)[k] \in Seq(V \union {NULL})
           /\ DOMAIN Listing(t)[k] = 1 .. Cardinality(Holding(t, k))
           /\ Len(Listing(t)[k]) = Cardinality(Holding(t, k))
           /\ Listing(t)[k] = <<>> <=> Holding(t, k) = {}
<1>1. Listing(t)[k] = ValuesOf(t, k)
  BY DEF Listing
<1>2. /\ ValuesOf(t, k) \in Seq(V \union {NULL})
      /\ Len(ValuesOf(t, k)) = Cardinality(Holding(t, k))
      /\ DOMAIN ValuesOf(t, k) = 1 .. Cardinality(Holding(t, k))
  BY ValuesAre
<1>3. Cardinality(Holding(t, k)) = 0 <=> Holding(t, k) = {}
  BY HoldingIs, FS_EmptySet
<1>4. ValuesOf(t, k) = <<>> <=> Len(ValuesOf(t, k)) = 0
  BY <1>2, EmptySeq
<1> QED
  BY <1>1, <1>2, <1>3, <1>4

\* The multimap counts as the dictionary does.
LEMMA SameCardinality == \A S : Multi!Cardinality(S) = Cardinality(S)
BY DEF Multi!Cardinality, Cardinality

\* The multimap is full when the size says so.
LEMMA FullIs ==
    ASSUME DictInv
    PROVE  /\ Multi!Full <=> ud.size = ud.cap
           /\ Multi!Pairs = Places(ud)
<1>1. WellFormed(ud, Values)
  BY DEF DictInv
<1>2. \A k \in Keys : DOMAIN Listing(ud)[k] = 1 .. Cardinality(Holding(ud, k))
  BY <1>1, ListingIs
<1>3. Multi!Pairs = UNION { {k} \X DOMAIN Listing(ud)[k] : k \in Keys }
  BY MultiBefore DEF Multi!Pairs
<1>4. Multi!Pairs = Places(ud)
  BY <1>2, <1>3 DEF Places
<1>5. Cardinality(Places(ud)) = ud.size
  BY <1>1, PlacesAre
<1>6. Multi!Full <=> Cardinality(Multi!Pairs) = ud.cap
  BY SameCardinality DEF Multi!Full
<1> QED
  BY <1>4, <1>5, <1>6

\* A pair that lands is one the multimap adds.
LEMMA MultiAdds ==
    ASSUME DictInv, WellFormed(ud', Values), ud.cap # 0, ud.size # ud.cap,
           NEW k \in Keys, NEW v \in Values, NEW p,
           Lands(ud, k, p), Landed(ud, ud', k, p), ud'.value = [ud.value EXCEPT ![p] = v],
           it' \in {it, p}, ret' = NULL
    PROVE  Multi!Add(k, v)
<1>1. WellFormed(ud, Values) /\ it \in ud.active \union {NoItem} /\ p # NoItem /\ p \notin ud.active
  <2>1. p \in Slots(ud) /\ p \notin ud.active /\ ud.cap \in Nat
    BY LandsBehind DEF DictInv
  <2> QED
    BY <2>1 DEF DictInv, NoItem, Slots
<1>2. /\ Listing(ud') = [Listing(ud) EXCEPT ![k] = Append(Listing(ud)[k], v)]
      /\ PlaceOf(ud', p) = <<k, Len(Listing(ud)[k]) + 1>>
      /\ \A q : q # p => PlaceOf(ud', q) = PlaceOf(ud, q)
  BY <1>1, ListingLanded
<1>3. PlaceOf(ud', it') \in {PlaceOf(ud, it), <<k, Len(Listing(ud)[k]) + 1>>}
  BY <1>1, <1>2
<1>4. ud'.cap = ud.cap
  BY DEF Landed
<1>5. ~Multi!Full
  BY FullIs
<1> QED
  BY <1>2, <1>3, <1>4, <1>5, MultiBefore, MultiAfter DEF Multi!Add

\* A call that finds no slot leaves a full multimap.
LEMMA MultiRefuses ==
    ASSUME DictInv, ud.size = ud.cap, ud' = ud, it' \in {it, NoItem}, ret' = NULL
    PROVE  Multi!Refuse
<1>1. NoItem \notin ud.active
  <2>1. ud.active \subseteq Slots(ud) /\ ud.cap \in Nat
    BY CapsAreNumbers DEF DictInv, WellFormed, TableType
  <2> QED
    BY <2>1 DEF Slots, NoItem
<1>2. PlaceOf(ud', it') \in {PlaceOf(ud, it), <<>>}
  BY <1>1 DEF PlaceOf
<1>3. Multi!Full
  BY FullIs
<1> QED
  BY <1>2, <1>3, MultiBefore, MultiAfter DEF Multi!Refuse, Multi!Nowhere

\* udInsert adds, or refuses where the table is full.
LEMMA MultiInsert ==
    ASSUME DictInv, DictInv', NEW k \in Keys, NEW v \in Values, udInsert(k, v)
    PROVE  Multi!Add(k, v) \/ Multi!Refuse
<1> DEFINE p == InsertSlot(ud, k)
<1>1. ud.cap # 0 /\ ud' = Inserted(ud, k, v) /\ it' \in {it, p} /\ ret' = NULL
  BY DEF udInsert, Ready, Quiet
<1>2. WellFormed(ud, Values) /\ WellFormed(ud', Values)
  BY DEF DictInv
<1>3. CASE ud.size = ud.cap
  <2>1. p = NoItem
    BY <1>1, <1>2, <1>3, InsertSlotIs
  <2>2. ud' = ud
    BY <1>1, <2>1 DEF Inserted
  <2> QED
    BY <1>1, <1>3, <2>1, <2>2, MultiRefuses
<1>4. CASE ud.size # ud.cap
  <2>1. Lands(ud, k, p) /\ p # NoItem
    BY <1>1, <1>2, <1>4, InsertSlotIs
  <2>2. Landed(ud, ud', k, p) /\ ud'.value = [ud.value EXCEPT ![p] = v]
    <3>1. IsTable(ud)
      BY <1>2 DEF WellFormed
    <3> QED
      BY <1>1, <2>1, <3>1, InsertedPair
  <2> HIDE DEF p
  <2> QED
    BY <1>1, <1>2, <1>4, <2>1, <2>2, MultiAdds
<1> QED
  BY <1>3, <1>4

\* udReset replaces the first value of a key, or adds one.
LEMMA MultiReset ==
    ASSUME DictInv, DictInv', NEW k \in Keys, NEW v \in Values, udReset(k, v)
    PROVE  IF Holding(ud, k) # {} THEN Multi!Replace(k, v) ELSE Multi!Add(k, v) \/ Multi!Refuse
<1> DEFINE p == ResetSlot(ud, k)
<1>1. ud.cap # 0 /\ ud' = Replaced(ud, k, v) /\ it' \in {it, p} /\ ret' = NULL
  BY DEF udReset, Ready, Quiet
<1>2. /\ WellFormed(ud, Values) /\ WellFormed(ud', Values)
      /\ ud.cap \in Nat /\ ud.active \subseteq Slots(ud) /\ SizeCounts(ud)
      /\ DOMAIN ud.key = Slots(ud)
  BY CapsAreNumbers DEF DictInv, WellFormed, TableType
<1>3. CASE p = NoItem
  <2>1. Stops(ud, k) = {}
    <3>1. Stops(ud, k) \subseteq Slots(ud)
      BY <1>2 DEF Stops, Free, Holding
    <3>2. NoItem \notin Slots(ud)
      BY DEF NoItem, Slots
    <3>3. Stops(ud, k) # {} => p \in Stops(ud, k)
      <4>1. ud.cap \in Nat \ {0} /\ HomeOf(ud, k) \in Slots(ud)
        BY <1>1, <1>2 DEF WellFormed, HomesFit
      <4> QED
        BY <3>1, <4>1, FirstFromIs DEF ResetSlot
    <3> QED
      BY <1>3, <3>1, <3>2, <3>3
  <2>2. Free(ud) = {} /\ Holding(ud, k) = {}
    BY <2>1 DEF Stops
  <2>3. ud.size = ud.cap
    BY <1>2, <2>2, FullMeansNoneFree
  <2>4. ud' = ud
    BY <1>1, <1>3 DEF Replaced
  <2> QED
    BY <1>1, <1>3, <2>2, <2>3, <2>4, MultiRefuses
<1>4. CASE p # NoItem
  <2>1. /\ p \in Slots(ud)
        /\ p \in ud.active => /\ p \in Holding(ud, k)
                              /\ Passed(ud, HomeOf(ud, k), p) \cap Holding(ud, k) = {}
        /\ p \notin ud.active => Lands(ud, k, p) /\ Holding(ud, k) = {}
    BY <1>1, <1>2, <1>4, ResetSlotIs
  <2>2. ResetTo(ud, ud', k, v, p)
    <3>1. IsTable(ud)
      BY <1>2 DEF WellFormed
    <3> QED
      BY <1>1, <1>4, <3>1, ReplacedFields
  <2> HIDE DEF p
  <2>3. CASE p \in ud.active
    <3>1. ud.key[p] = k
      BY <2>1, <2>3 DEF Holding
    <3>2. /\ ud'.cap = ud.cap /\ ud'.active = ud.active /\ ud'.key = ud.key
          /\ ud'.value = [ud.value EXCEPT ![p] = v]
      <4>1. /\ ud'.cap = ud.cap /\ ud'.active = ud.active \union {p}
            /\ ud'.key = [ud.key EXCEPT ![p] = k] /\ ud'.value = [ud.value EXCEPT ![p] = v]
        BY <2>2 DEF ResetTo
      <4>2. [ud.key EXCEPT ![p] = k] = ud.key
        <5>1. ud.key \in [Slots(ud) -> Keys \union {0}]
          BY <1>2 DEF WellFormed, TableType
        <5> QED
          BY <3>1, <5>1
      <4> QED
        BY <2>3, <4>1, <4>2
    <3>3. Rank(ud, k, p) = 1
      <4>1. Before(ud, k, p) = {}
        BY <2>1, <2>3 DEF Before
      <4> QED
        BY <4>1, FS_EmptySet DEF Rank
    <3>4. /\ Listing(ud') = [Listing(ud) EXCEPT ![k] = [Listing(ud)[k] EXCEPT ![1] = v]]
          /\ \A q : PlaceOf(ud', q) = PlaceOf(ud, q)
      <4>1. /\ Listing(ud') = [Listing(ud) EXCEPT ![ud.key[p]] =
                              [Listing(ud)[ud.key[p]] EXCEPT ![Rank(ud, ud.key[p], p)] = v]]
            /\ \A q : PlaceOf(ud', q) = PlaceOf(ud, q)
        BY <1>2, <2>3, <3>2, ListingChanged
      <4> QED
        BY <3>1, <3>3, <4>1
    <3>5. PlaceOf(ud, p) = <<k, 1>>
      BY <2>3, <3>1, <3>3 DEF PlaceOf
    <3>6. PlaceOf(ud', it') \in {PlaceOf(ud, it), <<k, 1>>}
      BY <1>1, <3>4, <3>5
    <3>7. Holding(ud, k) # {} /\ Listing(ud)[k] # <<>>
      BY <1>2, <2>1, <2>3, ListingIs
    <3>8. Multi!Replace(k, v)
      BY <1>1, <3>2, <3>4, <3>6, <3>7, MultiBefore, MultiAfter DEF Multi!Replace
    <3> QED
      BY <3>7, <3>8
  <2>4. CASE p \notin ud.active
    <3>1. ud.size # ud.cap
      <4>1. Free(ud) # {}
        BY <2>1, <2>4 DEF Free
      <4> QED
        BY <1>2, <4>1, FullMeansNoneFree
    <3>2. Landed(ud, ud', k, p) /\ ud'.value = [ud.value EXCEPT ![p] = v]
      BY <2>2, <2>4 DEF ResetTo, Landed, ReplacedSize
    <3>3. Multi!Add(k, v)
      BY <1>1, <1>2, <2>1, <2>4, <3>1, <3>2, MultiAdds
    <3> QED
      BY <2>1, <2>4, <3>3
  <2> QED
    BY <2>3, <2>4
<1> QED
  BY <1>3, <1>4

\* udFind gives the first pair of a key.
LEMMA FirstPlace ==
    ASSUME NEW t, NEW V, WellFormed(t, V), t.cap # 0, NEW k \in Keys
    PROVE  IF Holding(t, k) = {} THEN FindSlot(t, k) = NoItem
           ELSE /\ FindSlot(t, k) # NoItem
                /\ PlaceOf(t, FindSlot(t, k)) = <<k, 1>>
                /\ Listing(t)[k][1] = t.value[FindSlot(t, k)]
<1> DEFINE p == FindSlot(t, k)
<1>1. CASE Holding(t, k) = {}
  BY <1>1, FindSlotIs
<1>2. CASE Holding(t, k) # {}
  <2>1. p # NoItem /\ p \in Holding(t, k) /\ Passed(t, HomeOf(t, k), p) \cap Holding(t, k) = {}
    BY <1>2, FindSlotIs
  <2> HIDE DEF p
  <2>2. Rank(t, k, p) = 1
    BY <2>1, FS_EmptySet DEF Rank, Before
  <2>3. p \in t.active /\ t.key[p] = k
    BY <2>1 DEF Holding
  <2>4. Listing(t)[k] = ValuesOf(t, k)
    BY DEF Listing
  <2>5. Listing(t)[k][1] = t.value[p]
    BY <2>1, <2>2, <2>4, ValuesAre
  <2>6. PlaceOf(t, p) = <<k, 1>>
    BY <2>2, <2>3 DEF PlaceOf
  <2> QED
    BY <1>2, <2>1, <2>5, <2>6 DEF p
<1> QED
  BY <1>1, <1>2

\* udNext goes on to the next value of the key, and stops behind the last.
LEMMA NextPlace ==
    ASSUME NEW t, NEW V, WellFormed(t, V), NEW p \in t.active
    PROVE  PlaceOf(t, NextSlot(t, p)) =
             IF Rank(t, t.key[p], p) < Len(Listing(t)[t.key[p]])
             THEN <<t.key[p], Rank(t, t.key[p], p) + 1>> ELSE <<>>
<1> DEFINE k == t.key[p]
           h == HomeOf(t, k)
           H == Holding(t, k)
           L == LaterDuplicates(t, p)
           n == NextSlot(t, p)
<1>1. /\ t.cap \in Nat \ {0} /\ h \in Slots(t) /\ k \in Keys /\ p \in H
      /\ H \in SUBSET Slots(t) /\ H \subseteq t.active /\ Cardinality(H) \in Nat
  BY HoldingIs
<1>2. /\ L = { s \in H : Steps(t, h, s) > Steps(t, h, p) }
      /\ n = IF L = {} THEN NoItem ELSE FirstFrom(t, h, L)
  BY NextSlotIs DEF LaterDuplicates
<1>3. Len(Listing(t)[k]) = Cardinality(H)
  BY <1>1, ListingIs
<1>4. ASSUME NEW s \in H
      PROVE  Rank(t, k, s) \in 1 .. Cardinality(H) /\ Steps(t, h, s) \in Nat /\ t.key[s] = k
  <2>1. Steps(t, h, s) \in Nat
    BY <1>1, StepsOrder
  <2>2. t.key[s] = k
    BY DEF Holding
  <2> QED
    BY <1>1, <2>1, <2>2, RankIs
<1>5. ASSUME NEW q \in H, NEW s \in H
      PROVE  Steps(t, h, q) < Steps(t, h, s) <=> Rank(t, k, q) < Rank(t, k, s)
  <2>1. /\ Steps(t, h, q) < Steps(t, h, s) => Rank(t, k, q) < Rank(t, k, s)
        /\ Steps(t, h, s) < Steps(t, h, q) => Rank(t, k, s) < Rank(t, k, q)
    BY <1>1, RankIs
  <2>2. Steps(t, h, s) = Steps(t, h, q) <=> s = q
    BY <1>1, StepsOrder
  <2>3. /\ Rank(t, k, q) \in Nat /\ Rank(t, k, s) \in Nat
        /\ Steps(t, h, q) \in Nat /\ Steps(t, h, s) \in Nat
    BY <1>4
  <2> QED
    BY <2>1, <2>2, <2>3
<1> HIDE DEF k, h, H, L, n
<1>6. ASSUME Rank(t, k, p) < Cardinality(H)
      PROVE  \E q \in L : Rank(t, k, q) = Rank(t, k, p) + 1
  <2>1. Rank(t, k, p) + 1 \in 1 .. Cardinality(H)
    BY <1>1, <1>4, <1>6
  <2>2. PICK q \in H : Rank(t, k, q) = Rank(t, k, p) + 1
    BY <1>1, <2>1, RankOnto DEF H
  <2>3. Rank(t, k, p) < Rank(t, k, q)
    BY <1>1, <1>4, <2>2
  <2>4. Steps(t, h, q) > Steps(t, h, p)
    BY <1>1, <1>4, <1>5, <2>3
  <2> QED
    BY <1>2, <2>2, <2>4
<1>7. CASE L = {}
  <2>1. ~(Rank(t, k, p) < Cardinality(H))
    BY <1>6, <1>7
  <2>2. n \notin t.active
    <3>1. t.active \subseteq Slots(t)
      BY DEF WellFormed, TableType
    <3>2. NoItem \notin Slots(t)
      BY DEF NoItem, Slots
    <3>3. n = NoItem
      BY <1>2, <1>7
    <3> QED
      BY <3>1, <3>2, <3>3
  <2>3. PlaceOf(t, n) = <<>>
    BY <2>2 DEF PlaceOf
  <2> QED
    BY <1>3, <2>1, <2>3 DEF k, n
<1>8. CASE L # {}
  <2>1. L \in SUBSET Slots(t)
    BY <1>1, <1>2
  <2>2. n \in L /\ \A s \in L : Steps(t, h, n) <= Steps(t, h, s)
    BY <1>1, <1>2, <1>8, <2>1, FirstFromIs
  <2>3. n \in H /\ Rank(t, k, p) < Rank(t, k, n) /\ Rank(t, k, n) <= Cardinality(H)
    <3>1. n \in H /\ Steps(t, h, p) < Steps(t, h, n)
      BY <1>1, <1>2, <1>4, <2>2
    <3> QED
      BY <1>1, <1>4, <1>5, <3>1
  <2>4. Rank(t, k, p) < Cardinality(H)
    BY <1>1, <1>4, <2>3
  <2>5. PICK q \in L : Rank(t, k, q) = Rank(t, k, p) + 1
    BY <1>6, <2>4
  <2>6. ~(Rank(t, k, q) < Rank(t, k, n))
    <3>1. q \in H /\ Steps(t, h, n) <= Steps(t, h, q)
      BY <1>2, <2>2
    <3>2. ~(Steps(t, h, q) < Steps(t, h, n))
      BY <1>4, <2>3, <3>1
    <3> QED
      BY <1>5, <2>3, <3>1, <3>2
  <2>7. Rank(t, k, n) = Rank(t, k, p) + 1
    BY <1>1, <1>4, <2>3, <2>5, <2>6
  <2>8. PlaceOf(t, n) = <<k, Rank(t, k, p) + 1>>
    BY <1>1, <1>4, <2>3, <2>7 DEF PlaceOf
  <2> QED
    BY <1>3, <2>4, <2>8 DEF k, n
<1> QED
  BY <1>7, <1>8

\* udGet gives the first value of a key.
LEMMA MultiGet ==
    ASSUME DictInv, NEW k \in Keys, udGet(k)
    PROVE  Multi!Get(k)
<1>1. ud.cap # 0 /\ ret' = GetValue(ud, k) /\ ud' = ud /\ it' = it
  BY DEF udGet, Ready
<1>2. WellFormed(ud, Values)
  BY DEF DictInv
<1>3. Listing(ud)[k] = <<>> <=> Holding(ud, k) = {}
  BY <1>2, ListingIs
<1>4. ret' = IF Listing(ud)[k] = <<>> THEN NULL ELSE Listing(ud)[k][1]
  BY <1>1, <1>2, <1>3, FirstPlace DEF GetValue
<1> QED
  BY <1>1, <1>4, MultiBefore, MultiAfter DEF Multi!Get

\* udFind goes to the first value of a key.
LEMMA MultiFind ==
    ASSUME DictInv, NEW k \in Keys, udFind(k)
    PROVE  Multi!Find(k)
<1>1. ud.cap # 0 /\ it' = FindSlot(ud, k) /\ ud' = ud /\ ret' = NULL
  BY DEF udFind, TakeItem, Ready, Quiet
<1>2. WellFormed(ud, Values) /\ ud.active \subseteq Slots(ud)
  BY DEF DictInv, WellFormed, TableType
<1>3. Listing(ud)[k] = <<>> <=> Holding(ud, k) = {}
  BY <1>2, ListingIs
<1>4. PlaceOf(ud, NoItem) = <<>>
  BY <1>2 DEF PlaceOf, NoItem, Slots
<1>5. PlaceOf(ud', it') = IF Listing(ud)[k] = <<>> THEN <<>> ELSE <<k, 1>>
  BY <1>1, <1>2, <1>3, <1>4, FirstPlace
<1> QED
  BY <1>1, <1>5, MultiBefore, MultiAfter DEF Multi!Find, Multi!Goto, Multi!First, Multi!Nowhere

\* udNext goes to the next value of the same key.
LEMMA MultiNext ==
    ASSUME DictInv, udNext
    PROVE  Multi!Following
<1>1. it # NoItem /\ it' = NextSlot(ud, it) /\ ud' = ud /\ ret' = NULL
  BY DEF udNext, TakeItem, Quiet
<1>2. WellFormed(ud, Values) /\ it \in ud.active
  BY <1>1 DEF DictInv
<1> DEFINE k == ud.key[it]
           c == PlaceOf(ud, it)
<1>3. c = <<k, Rank(ud, k, it)>>
  BY <1>2 DEF PlaceOf
<1>4. c # <<>> /\ c[1] = k /\ c[2] = Rank(ud, k, it)
  BY <1>3
<1>5. PlaceOf(ud', it') = IF Rank(ud, k, it) < Len(Listing(ud)[k])
                          THEN <<k, Rank(ud, k, it) + 1>> ELSE <<>>
  BY <1>1, <1>2, NextPlace
<1> HIDE DEF k, c
<1>6. PlaceOf(ud', it') = IF c[2] < Len(Listing(ud)[c[1]]) THEN <<c[1], c[2] + 1>> ELSE <<>>
  BY <1>4, <1>5
<1>7. Cursor = c
  BY MultiBefore DEF c
<1> QED
  BY <1>1, <1>4, <1>6, <1>7, MultiBefore, MultiAfter
     DEF Multi!Following, Multi!Goto, Multi!Nowhere

\* udSetValue writes the value the handle names.
LEMMA MultiSet ==
    ASSUME DictInv, DictInv', NEW v \in Values, udSetValue(v)
    PROVE  Multi!Set(v)
<1>1. it # NoItem /\ ud' = [ud EXCEPT !.value[it] = v] /\ ret' = NULL /\ it' = it
  BY DEF udSetValue, Quiet
<1>2. WellFormed(ud, Values) /\ WellFormed(ud', Values) /\ it \in ud.active /\ it \in Slots(ud)
  BY <1>1 DEF DictInv, WellFormed, TableType
<1>3. /\ ud'.cap = ud.cap /\ ud'.active = ud.active /\ ud'.key = ud.key
      /\ ud'.value = [ud.value EXCEPT ![it] = v]
  BY <1>1, <1>2, SetValueKeeps
<1> DEFINE k == ud.key[it]
           c == PlaceOf(ud, it)
<1>4. c = <<k, Rank(ud, k, it)>>
  BY <1>2 DEF PlaceOf
<1>5. c # <<>> /\ c[1] = k /\ c[2] = Rank(ud, k, it)
  BY <1>4
<1>6. /\ Listing(ud') = [Listing(ud) EXCEPT ![k] = [Listing(ud)[k] EXCEPT ![Rank(ud, k, it)] = v]]
      /\ \A q : PlaceOf(ud', q) = PlaceOf(ud, q)
  BY <1>2, <1>3, ListingChanged
<1> HIDE DEF k, c
<1>7. Listing(ud') = [Listing(ud) EXCEPT ![c[1]] = [Listing(ud)[c[1]] EXCEPT ![c[2]] = v]]
  BY <1>5, <1>6
<1>8. Cursor = c /\ Cursor' = c
  BY <1>1, <1>6, MultiBefore, MultiAfter DEF c
<1> QED
  BY <1>1, <1>3, <1>5, <1>7, <1>8, MultiBefore, MultiAfter DEF Multi!Set, Multi!Nowhere

\* The multimap of an empty table.
LEMMA EmptyListing ==
    ASSUME NEW t, NEW V, WellFormed(t, V), t.active = {}
    PROVE  Listing(t) = [k \in Keys |-> <<>>] /\ \A p : PlaceOf(t, p) = <<>>
<1>1. \A k \in Keys : Listing(t)[k] = <<>>
  <2>1. \A k : Holding(t, k) = {}
    BY DEF Holding
  <2> QED
    BY <2>1, ListingIs
<1> QED
  BY <1>1 DEF Listing, PlaceOf

\* A table with no handle or one that names a pair is at a place of the multimap.
LEMMA MultiLooks ==
    ASSUME DictInv, ud' = ud, it' \in ud.active \union {NoItem}, ret' = NULL
    PROVE  Multi!Iterate
<1>1. WellFormed(ud, Values) /\ ud.active \subseteq Slots(ud)
  BY DEF DictInv, WellFormed, TableType
<1>2. PlaceOf(ud', it') \in Places(ud) \union {<<>>}
  <2>1. NoItem \notin ud.active
    BY <1>1 DEF NoItem, Slots
  <2> QED
    BY <1>1, <2>1, PlacesAre DEF PlaceOf
<1>3. PlaceOf(ud', it') \in Multi!Pairs \union {Multi!Nowhere}
  BY <1>2, FullIs DEF Multi!Nowhere
<1> QED
  BY <1>3, MultiBefore, MultiAfter DEF Multi!Iterate, Multi!Goto

\* Where a sequence holds a value.
Occurs(s, v) == { i \in DOMAIN s : s[i] = v }

\* The values of a key are counted as its pairs are.
LEMMA ValueCounts ==
    ASSUME NEW t, NEW V, WellFormed(t, V), NEW k \in Keys, NEW v
    PROVE  Cardinality(Occurs(Listing(t)[k], v)) = Cardinality(Having(t, t.active, k, v))
<1> DEFINE S == { p \in Holding(t, k) : t.value[p] = v }
           T == Occurs(Listing(t)[k], v)
           f == [p \in S |-> Rank(t, k, p)]
<1>1. /\ DOMAIN Listing(t)[k] = 1 .. Cardinality(Holding(t, k))
      /\ \A p \in Holding(t, k) : Listing(t)[k][Rank(t, k, p)] = t.value[p]
  <2>1. Listing(t)[k] = ValuesOf(t, k)
    BY DEF Listing
  <2> QED
    BY <2>1, ValuesAre
<1>2. \A p \in S : Rank(t, k, p) \in T
  BY <1>1, RankIs DEF Occurs
<1>3. \A p \in S, q \in S : Rank(t, k, p) = Rank(t, k, q) => p = q
  BY RankIs
<1>4. ASSUME NEW i \in T
      PROVE  \E p \in S : Rank(t, k, p) = i
  <2>1. PICK p \in Holding(t, k) : Rank(t, k, p) = i
    BY <1>1, RankOnto DEF Occurs
  <2> QED
    BY <1>1, <2>1 DEF Occurs
<1>5. IsFiniteSet(S)
  BY HoldingIs, FS_Subset
<1> HIDE DEF S, T
<1>6. f \in Bijection(S, T)
  BY <1>2, <1>3, <1>4 DEF Bijection, Injection, Surjection, IsInjective
<1>7. Cardinality(T) = Cardinality(S)
  BY <1>5, <1>6, FS_Bijection DEF ExistsBijection
<1>8. S = Having(t, t.active, k, v)
  BY DEF S, Having, Holding
<1> QED
  BY <1>7, <1>8 DEF T

\* A rehash gives a multimap with the same values of every key.
LEMMA MultiGrows ==
    ASSUME DictInv, DictInv', EverythingFits, RehashEnd
    PROVE  Multi!Grow
<1>1. /\ Rehashing /\ ind = ud.cap /\ ud' = nhash /\ it' = NoItem /\ ret' = ret
  BY DEF RehashEnd
<1>2. /\ WellFormed(ud, Values) /\ WellFormed(nhash, Values) /\ nhash.cap >= ud.cap
      /\ nhash.active \subseteq Slots(nhash) /\ ud.active \subseteq Slots(ud)
      /\ ud.cap \in Nat /\ nhash.cap \in Nat
  BY <1>1, CapsAreNumbers DEF DictInv, WellFormed, TableType
<1>3. PlaceOf(ud', it') = <<>>
  BY <1>1, <1>2 DEF PlaceOf, NoItem, Slots
<1>4. ASSUME NEW k \in Keys, NEW v \in Values \union {NULL}
      PROVE  Cardinality(Occurs(Listing(ud)[k], v)) = Cardinality(Occurs(Listing(ud')[k], v))
  <2>1. { s \in ud.active : s < ind } = ud.active
    BY <1>1, <1>2 DEF Slots
  <2>2. Cardinality({ s \in Holding(nhash, k) : nhash.value[s] = v })
          = Cardinality({ s \in ud.active : ud.key[s] = k /\ ud.value[s] = v })
    BY <1>1, <2>1 DEF EverythingFits
  <2>3. /\ { s \in ud.active : ud.key[s] = k /\ ud.value[s] = v } = Having(ud, ud.active, k, v)
        /\ { s \in Holding(nhash, k) : nhash.value[s] = v } = Having(nhash, nhash.active, k, v)
    BY DEF Holding, Having
  <2>4. /\ Cardinality(Occurs(Listing(ud)[k], v)) = Cardinality(Having(ud, ud.active, k, v))
        /\ Cardinality(Occurs(Listing(nhash)[k], v))
             = Cardinality(Having(nhash, nhash.active, k, v))
    BY <1>2, ValueCounts
  <2> QED
    BY <1>1, <2>2, <2>3, <2>4
<1>5. \A k \in Keys, v \in Values \union {NULL} :
        Multi!Cardinality({ i \in DOMAIN Listing(ud)[k] : Listing(ud)[k][i] = v }) =
        Multi!Cardinality({ i \in DOMAIN Listing(ud')[k] : Listing(ud')[k][i] = v })
  BY <1>4, SameCardinality DEF Occurs
<1>6. \A k \in Keys, v \in Values \union {NULL} :
        Multi!Cardinality({ i \in DOMAIN [j \in Keys |-> ValuesOf(ud, j)][k] :
                              [j \in Keys |-> ValuesOf(ud, j)][k][i] = v }) =
        Multi!Cardinality({ i \in DOMAIN [j \in Keys |-> ValuesOf(ud, j)]'[k] :
                              [j \in Keys |-> ValuesOf(ud, j)]'[k][i] = v })
  <2> DEFINE m == [j \in Keys |-> ValuesOf(ud, j)]
  <2>1. m = Listing(ud) /\ m' = Listing(ud')
    BY MultiBefore, MultiAfter
  <2> HIDE DEF m
  <2>2. \A k \in Keys, v \in Values \union {NULL} :
          Multi!Cardinality({ i \in DOMAIN m[k] : m[k][i] = v }) =
          Multi!Cardinality({ i \in DOMAIN m'[k] : m'[k][i] = v })
    BY <1>5, <2>1, Zenon
  <2> QED
    BY <2>2, Zenon DEF m
<1> QED
  BY <1>1, <1>2, <1>3, <1>6, MultiBefore, MultiAfter DEF Multi!Grow, Multi!Nowhere

\* Every step is one of the multimap, or a stutter.
LEMMA MultiStep ==
    ASSUME DictInv, DictInv', EverythingFits, [Next]_vars
    PROVE  [Multi!Next]_(Multi!multiVars)
<1>1. ASSUME NEW c \in Caps, udInit(c) PROVE Multi!Next
  <2>1. ud.cap = 0 /\ ud' = Empty(c) /\ ret' = NULL
    BY <1>1 DEF udInit, Quiet
  <2>2. /\ WellFormed(ud, Values) /\ ud.active = {}
        /\ WellFormed(ud', Values) /\ ud'.active = {} /\ ud'.cap = c
    BY <2>1, NewTable DEF DictInv, WellFormed, TableType, Slots
  <2>3. /\ Listing(ud') = [k \in Keys |-> <<>>]
        /\ PlaceOf(ud', it') = <<>> /\ PlaceOf(ud, it) = <<>>
    BY <2>2, EmptyListing
  <2>4. Multi!Create
    BY <2>1, <2>2, <2>3, MultiBefore, MultiAfter DEF Multi!Create, Multi!NoPairs
  <2> QED
    BY <2>4 DEF Multi!Next
<1>2. ASSUME NEW c \in Caps, RehashBegin(c) PROVE Multi!Next
  <2>1. ud' = ud /\ it' = it /\ ret' = NULL
    BY <1>2 DEF RehashBegin, Quiet
  <2>2. Multi!Iterate
    BY <2>1, MultiLooks DEF DictInv
  <2> QED
    BY <2>2 DEF Multi!Next
<1>3. ASSUME NEW k \in Keys, NEW v \in Values, udInsert(k, v) \/ udReset(k, v) PROVE Multi!Next
  <2>1. Multi!Add(k, v) \/ Multi!Replace(k, v) \/ Multi!Refuse
    BY <1>3, MultiInsert, MultiReset
  <2> QED
    BY <2>1 DEF Multi!Next
<1>4. ASSUME NEW k \in Keys, udGet(k) \/ udFind(k) PROVE Multi!Next
  BY <1>4, MultiGet, MultiFind DEF Multi!Next
<1>5. ASSUME NEW v \in Values, udSetValue(v) PROVE Multi!Next
  BY <1>5, MultiSet DEF Multi!Next
<1>6. CASE udNext
  BY <1>6, MultiNext DEF Multi!Next
<1>7. CASE udIterFirst \/ udIterNext \/ udIterLast
  <2>1. /\ Ready /\ ud' = ud /\ ret' = NULL
        /\ it' \in {IterFirst(ud), IterNext(ud, it), IterLast(ud)}
    BY <1>7 DEF udIterFirst, udIterNext, udIterLast, TakeItem, Quiet
  <2>2. it' \in ud.active \union {NoItem}
    BY <2>1, TakenItems
  <2>3. Multi!Iterate
    BY <2>1, <2>2, MultiLooks
  <2> QED
    BY <2>3 DEF Multi!Next
<1>8. CASE udCleanup \/ udCleanupDeep
  <2>1. ud' = NoTable /\ ret' = NULL
    BY <1>8 DEF udCleanup, udCleanupDeep, Quiet
  <2>2. Listing(ud') = [k \in Keys |-> <<>>] /\ PlaceOf(ud', it') = <<>> /\ ud'.cap = 0
    BY <2>1, NoTableIs, EmptyListing
  <2>3. Multi!Destroy
    BY <2>1, <2>2, MultiAfter DEF Multi!Destroy, Multi!NoPairs, Multi!Nowhere
  <2> QED
    BY <2>3 DEF Multi!Next
<1>9. CASE RehashEnd
  BY <1>9, MultiGrows DEF Multi!Next
<1>10. CASE RehashMove \/ UNCHANGED vars
  <2>1. ud' = ud /\ it' = it /\ ret' = ret
    BY <1>10 DEF RehashMove, vars
  <2> QED
    BY <2>1, MultiBefore, MultiAfter DEF Multi!multiVars
<1> QED
  BY <1>1, <1>2, <1>3, <1>4, <1>5, <1>6, <1>7, <1>8, <1>9, <1>10 DEF Next

\* The first state is the multimap's.
LEMMA MultiInit == Init => Multi!Init
<1> SUFFICES ASSUME Init PROVE Multi!Init
  OBVIOUS
<1>1. ud = NoTable /\ ret = NULL
  BY DEF Init
<1>2. Listing(ud) = [k \in Keys |-> <<>>] /\ PlaceOf(ud, it) = <<>> /\ ud.cap = 0
  BY <1>1, NoTableIs, EmptyListing
<1> QED
  BY <1>1, <1>2, MultiBefore DEF Multi!Init, Multi!NoPairs, Multi!Nowhere

\* A dictionary is a multimap of limited size: inserts append to a key's values,
\* lookups and walks follow the order of the inserts, a full table refuses, and a
\* rehash keeps every value of every key.
THEOREM MultimapTheorem == Spec => ImplementsMultimap
<1>1. Init => Multi!Init
  BY MultiInit
<1>2. DictInv /\ DictInv' /\ EverythingFits /\ [Next]_vars => [Multi!Next]_(Multi!multiVars)
  BY MultiStep
<1> QED
  BY <1>1, <1>2, DictCorrect, FitTheorem, PTL DEF Spec, ImplementsMultimap, Multi!Spec

\* Each call does what its own comment says: udInsert adds or refuses, udReset
\* replaces the first value and adds only where there is none, udGet, udFind and
\* udNext give the first value and the next one.
THEOREM PromiseTheorem == Spec => CallsKeepTheirPromise
<1>1. ASSUME DictInv, DictInv'
      PROVE  /\ \A k \in Keys, v \in Values :
                  /\ udInsert(k, v) => Multi!Add(k, v) \/ Multi!Refuse
                  /\ udReset(k, v) =>
                       IF Holding(ud, k) # {} THEN Multi!Replace(k, v)
                       ELSE Multi!Add(k, v) \/ Multi!Refuse
             /\ \A k \in Keys : /\ udGet(k) => Multi!Get(k)
                                /\ udFind(k) => Multi!Find(k)
             /\ udNext => Multi!Following
  BY <1>1, MultiInsert, MultiReset, MultiGet, MultiFind, MultiNext
<1> QED
  BY <1>1, DictCorrect, PTL DEF Spec, CallsKeepTheirPromise
=============================================================================
