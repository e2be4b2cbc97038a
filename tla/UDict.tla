-------------------------------- MODULE UDict --------------------------------
(***************************************************************************)
(* One dictionary of src/udict.c through its life, one action per function *)
(* of udict.h; udRehash, which moves the pairs one by one into a new       *)
(* table, takes a step per iteration of its loop.  The client keeps an     *)
(* item handle.                                                            *)
(***************************************************************************)
EXTENDS UDictTable

CONSTANTS Values,   \* the value pointers stored
          Caps      \* the capacities asked for

ASSUME NullAssumption == NULL \notin Values
ASSUME CapsAssumption == Caps \subseteq Nat \ {0}
ASSUME HomeAssumption == \A k \in Keys, c \in Caps : Home(k, c) \in 0 .. c - 1

VARIABLES ud,       \* the table, NoTable for the null handle
          nhash,    \* udRehash's new table, NoTable outside it
          ind,      \* udRehash's loop index
          it,       \* an item handle of the client: a slot of ud, or NoItem
          ret,      \* the value udGet returned, NULL after another call
          visited   \* the slots the last call handed to a cleanup function

vars == <<ud, nhash, ind, it, ret, visited>>
rehash == <<nhash, ind>>

Rehashing == nhash.cap # 0

\* The client calls with a dictionary, and not from inside udRehash.
Ready == ud.cap # 0 /\ ~Rehashing

Init ==
    /\ ud = NoTable /\ nhash = NoTable /\ ind = 0
    /\ it = NoItem /\ ret = NULL /\ visited = {}

\* What a call leaves behind that returns no value and cleans nothing.
Quiet == ret' = NULL /\ visited' = {}

\* A zero capacity or a failing malloc gives no dictionary: a stutter.
udInit(c) ==
    /\ ud.cap = 0
    /\ ud' = Empty(c)
    /\ Quiet
    /\ UNCHANGED <<rehash, it>>

\* The client keeps its handle, or takes the one the call returns.
udInsert(k, v) ==
    /\ Ready
    /\ ud' = Inserted(ud, k, v)
    /\ it' \in {it, InsertSlot(ud, k)}
    /\ Quiet
    /\ UNCHANGED rehash

udReset(k, v) ==
    /\ Ready
    /\ ud' = Replaced(ud, k, v)
    /\ it' \in {it, ResetSlot(ud, k)}
    /\ Quiet
    /\ UNCHANGED rehash

udGet(k) ==
    /\ Ready
    /\ ret' = GetValue(ud, k)
    /\ visited' = {}
    /\ UNCHANGED <<ud, rehash, it>>

\* udFind, udNext and the iterators hand the client an item.
TakeItem(p) ==
    /\ Ready
    /\ it' = p
    /\ Quiet
    /\ UNCHANGED <<ud, rehash>>

udFind(k) == TakeItem(FindSlot(ud, k))
udNext == it # NoItem /\ TakeItem(NextSlot(ud, it))
udIterFirst == TakeItem(IterFirst(ud))
udIterNext == it # NoItem /\ TakeItem(IterNext(ud, it))
udIterLast == TakeItem(IterLast(ud))

udSetValue(v) ==
    /\ Ready
    /\ it # NoItem
    /\ ud' = [ud EXCEPT !.value[it] = v]
    /\ Quiet
    /\ UNCHANGED <<rehash, it>>

\* The client's handle dangles afterwards; using it is outside the contract,
\* so the model forgets it (after udRehash too).
udCleanup ==
    /\ Ready
    /\ ud' = NoTable
    /\ it' = NoItem
    /\ Quiet
    /\ UNCHANGED rehash

udCleanupDeep ==
    /\ Ready
    /\ visited' = Visited(ud)
    /\ ud' = NoTable
    /\ it' = NoItem
    /\ ret' = NULL
    /\ UNCHANGED rehash

\* udRehash refuses a smaller capacity, and a failing udInit changes nothing.
RehashAllowed_Any(c) == TRUE
RehashAllowed(c) == c >= ud.cap

RehashBegin(c) ==
    /\ Ready
    /\ RehashAllowed(c)
    /\ nhash' = Empty(c)
    /\ ind' = 0
    /\ Quiet
    /\ UNCHANGED <<ud, it>>

RehashMove ==
    /\ Rehashing
    /\ ind < ud.cap
    /\ nhash' = IF ind \in ud.active
                THEN Inserted(nhash, ud.key[ind], ud.value[ind])
                ELSE nhash
    /\ ind' = ind + 1
    /\ UNCHANGED <<ud, it, ret, visited>>

RehashEnd ==
    /\ Rehashing
    /\ ind = ud.cap
    /\ ud' = nhash
    /\ nhash' = NoTable /\ ind' = 0
    /\ it' = NoItem
    /\ UNCHANGED <<ret, visited>>

Next ==
    \/ \E c \in Caps : udInit(c) \/ RehashBegin(c)
    \/ \E k \in Keys, v \in Values : udInsert(k, v) \/ udReset(k, v)
    \/ \E k \in Keys : udGet(k) \/ udFind(k)
    \/ \E v \in Values : udSetValue(v)
    \/ udNext \/ udIterFirst \/ udIterNext \/ udIterLast
    \/ udCleanup \/ udCleanupDeep
    \/ RehashMove \/ RehashEnd

Spec == Init /\ [][Next]_vars

-----------------------------------------------------------------------------
(***************************************************************************)
(* Properties                                                              *)
(***************************************************************************)

TypeOK ==
    /\ ud.cap \in Caps \union {0} /\ nhash.cap \in Caps \union {0}
    /\ TableType(ud, Values) /\ TableType(nhash, Values)
    /\ ind \in 0 .. ud.cap
    /\ Rehashing => nhash.cap >= ud.cap
    /\ it \in Slots(ud) \union {NoItem}
    /\ ret \in Values \union {NULL}
    /\ visited \subseteq Nat

\* Every pair can be found: the table never has a free slot between a key's
\* home and a pair with that key, also after inserts that wrapped around.
EveryPairReachable == Reachable(ud) /\ Reachable(nhash)

\* size, which guards the probe loops and udCleanupDeep, counts the pairs.
SizeIsExact == SizeCounts(ud) /\ SizeCounts(nhash)

\* The duplicate counts that udInsert increments on the way and udReset leaves
\* alone are exact, and make udFind and udNext visit all pairs of a key.
DuplicatesEnumerated ==
    \A t \in {ud, nhash} : DupsCount(t) /\ Enumerates(t)

\* udict.c:82 in udRehash ignores the result of udInsert, "because everything
\* must fit": the new table has room and holds what was moved so far.
EverythingFits ==
    Rehashing =>
        LET moved == { s \in ud.active : s < ind }
        IN  /\ nhash.size = Cardinality(moved)
            /\ \A k \in Keys, v \in Values \union {NULL} :
                 Cardinality({ s \in Holding(nhash, k) : nhash.value[s] = v })
                   = Cardinality({ s \in moved : ud.key[s] = k /\ ud.value[s] = v })

\* A handle names a pair, and the same pair until a rehash or a cleanup: no
\* call moves a pair of the table or changes its key.
ItemsStay ==
    [][ud'.cap = ud.cap /\ ~Rehashing' /\ ~Rehashing =>
         \A p \in ud.active : p \in ud'.active /\ ud'.key[p] = ud.key[p]]_vars

HandleNamesPair == it # NoItem => it \in ud.active

\* udCleanupDeep, which stops at size, gives every pair to the function.
DeepCleansAll == [][visited' # {} => visited' = ud.active]_vars

\* A rehash leaves what udGet returns for a key as it was, as t004 of
\* test/rbuf-udict-test.c expects of the rehashed table.
RehashKeepsGet ==
    Rehashing /\ ind = ud.cap =>
        \A k \in Keys : GetValue(nhash, k) = GetValue(ud, k)

-----------------------------------------------------------------------------
(***************************************************************************)
(* What a client sees: a sequence of values for each key.                  *)
(***************************************************************************)

\* The values stored for k, in probe order.
ValuesOf(t, k) ==
    LET h == HomeOf(t, k)
        nth(i) == CHOOSE p \in Holding(t, k) :
                    Cardinality(Passed(t, h, p) \cap Holding(t, k)) = i - 1
    IN  [i \in 1 .. Cardinality(Holding(t, k)) |-> t.value[nth(i)]]

Cursor ==
    IF it \notin ud.active THEN <<>>
    ELSE LET k == ud.key[it]
             before == Passed(ud, HomeOf(ud, k), it) \cap Holding(ud, k)
         IN  <<k, Cardinality(before) + 1>>

Multi == INSTANCE UMulti WITH m <- [k \in Keys |-> ValuesOf(ud, k)],
                              cap <- ud.cap, cur <- Cursor, ret <- ret

\* The table implements a multimap of limited size: an insert appends to the
\* key's values whatever was inserted in between, udReset replaces the first,
\* udFind, udGet and udNext follow the order of the inserts, a full table
\* refuses, and a rehash keeps every value of every key.
ImplementsMultimap == Multi!Spec

\* The calls whose effects look alike do what their own comment says: udReset
\* replaces the first value of a key and adds only where there is none, udInsert
\* always adds, and udNext goes on where the last one stopped.
CallsKeepTheirPromise ==
    [][/\ \A k \in Keys, v \in Values :
            /\ udInsert(k, v) => Multi!Add(k, v) \/ Multi!Refuse
            /\ udReset(k, v) =>
                 IF Holding(ud, k) # {} THEN Multi!Replace(k, v)
                 ELSE Multi!Add(k, v) \/ Multi!Refuse
       /\ \A k \in Keys : /\ udGet(k) => Multi!Get(k)
                          /\ udFind(k) => Multi!Find(k)
       /\ udNext => Multi!Following]_vars
=============================================================================
