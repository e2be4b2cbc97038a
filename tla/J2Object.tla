------------------------------ MODULE J2Object ------------------------------
(***************************************************************************)
(* A JSON object of src/json2/j2value/j2object.c: its members are key-value*)
(* blocks in a udict table under the hash of their name, and names that    *)
(* collide are told apart by walking the duplicates of the hash.  The      *)
(* module follows one object through its life, who owns each value, and an *)
(* iteration over the members that other calls interrupt.                  *)
(***************************************************************************)
EXTENDS UDictTable, Sequences

CONSTANTS Names,        \* member names
          Hash(_),      \* ChkMurMur3 of a name
          Vals,         \* the values (J2VAL) the client creates
          ICap,         \* DICT_ICAP
          WordWidth     \* the bits of udict's capacity

ASSUME HashAssumption == \A n \in Names : Hash(n) \in Keys
ASSUME CapAssumption ==
    ICap \in Nat \ {0} /\ WordWidth \in Nat /\ ICap < 2 ^ WordWidth

\* k & (cap-1) is a slot, whatever capacity a word can hold.
ASSUME HomeAssumption ==
    \A k \in Keys, c \in 1 .. 2 ^ WordWidth - 1 : Home(k, c) \in 0 .. c - 1

VARIABLES dict,     \* the table in obj->data, NoTable when there is no object
          owner,    \* who must free each value
          blocks,   \* how many key-value blocks are allocated
          ret,      \* what the last call returned
          iter,     \* an iterator of the client: a slot or NoItem
          start,    \* names in the object when the iteration began
          seen      \* the names the iteration gave, in order

vars == <<dict, owner, blocks, ret, iter, start, seen>>
iteration == <<iter, start, seen>>

Members == [name : Names, val : Vals]

Exists == dict.cap # 0

MembersOf(t) == { t.value[s] : s \in t.active }
NamesOf(t) == { mem.name : mem \in MembersOf(t) }

(***************************************************************************)
(* The walk of j2ValueObjectItemSet and j2ValueObjectItem: udFind, then    *)
(* udNext as often as udLeft said at the start.                            *)
(***************************************************************************)
Walk(t, h) ==
    LET first == FindSlot(t, h)
        slot[i \in Nat] ==
            IF i = 0 THEN first
            ELSE IF slot[i - 1] = NoItem THEN NoItem ELSE NextSlot(t, slot[i - 1])
    IN  IF first = NoItem THEN <<>>
        ELSE [i \in 1 .. Left(t, first) + 1 |-> slot[i - 1]]

\* The slots of the walk that hold the name; the loops stop at the first.
Matches_FirstOnly(t, n) ==
    LET walk == Walk(t, Hash(n))
    IN  { i \in DOMAIN walk : i = 1 /\ t.value[walk[i]].name = n }
Matches_AnyName(t, n) == DOMAIN Walk(t, Hash(n))
Matches(t, n) ==
    LET walk == Walk(t, Hash(n))
    IN  { i \in DOMAIN walk : walk[i] # NoItem /\ t.value[walk[i]].name = n }

MatchSlot(t, n) ==
    LET ms == Matches(t, n)
    IN  Walk(t, Hash(n))[CHOOSE i \in ms : \A j \in ms : i <= j]

Has(t, n) == Matches(t, n) # {}

(***************************************************************************)
(* udRehash as j2DictInsertKV calls it, to twice the capacity in a word of *)
(* WordWidth bits.  It refuses a smaller capacity, and udInit refuses 0.   *)
(***************************************************************************)
Doubled(t) == (t.cap * 2) % (2 ^ WordWidth)

CanGrow(t) == Doubled(t) # 0 /\ Doubled(t) >= t.cap

Rehashed(t, c) ==
    LET upto[i \in 0 .. t.cap] ==
            IF i = 0 THEN Empty(c)
            ELSE IF i - 1 \in t.active
                 THEN Inserted(upto[i - 1], t.key[i - 1], t.value[i - 1])
                 ELSE upto[i - 1]
    IN  upto[t.cap]

-----------------------------------------------------------------------------
Init ==
    /\ dict = NoTable
    /\ owner = [v \in Vals |-> "client"]
    /\ blocks = 0
    /\ ret = NULL
    /\ iter = NoItem /\ start = {} /\ seen = <<>>

\* A failing allocation gives no object: a stutter.
j2InitObject ==
    /\ ~Exists
    /\ dict' = Empty(ICap)
    /\ ret' = NULL
    /\ UNCHANGED <<owner, blocks, iteration>>

\* The object takes the value over.
Stored_Uncounted(n, v, t) ==
    /\ dict' = Inserted(t, Hash(n), [name |-> n, val |-> v])
    /\ owner' = [owner EXCEPT ![v] = "object"]
    /\ ret' = 0
    /\ UNCHANGED blocks
Stored(n, v, t) ==
    /\ dict' = Inserted(t, Hash(n), [name |-> n, val |-> v])
    /\ owner' = [owner EXCEPT ![v] = "object"]
    /\ blocks' = blocks + 1
    /\ ret' = 0

\* No block for the member: nothing is changed.
SetFails(n, v) ==
    /\ Exists
    /\ ret' = -1
    /\ UNCHANGED <<dict, owner, blocks, iteration>>

\* The name is there: the new block replaces the old, which is freed with
\* its value.  (The guard on v's owner keeps the client from storing a value
\* twice.)
SetReplaces(n, v) ==
    /\ Exists /\ owner[v] = "client"
    /\ Has(dict, n)
    /\ LET s == MatchSlot(dict, n)
       IN  /\ dict' = [dict EXCEPT !.value[s] = [name |-> n, val |-> v]]
           /\ owner' = [owner EXCEPT ![v] = "object", ![dict.value[s].val] = "freed"]
    /\ ret' = 0
    /\ UNCHANGED <<blocks, iteration>>

SetInserts(n, v) ==
    /\ Exists /\ owner[v] = "client"
    /\ ~Has(dict, n)
    /\ dict.size # dict.cap
    /\ Stored(n, v, dict)
    /\ UNCHANGED iteration

\* The table is full: the members move to one twice as large.  Iterators of
\* the old table dangle; using one is outside the contract.
SetGrows(n, v) ==
    /\ Exists /\ owner[v] = "client"
    /\ ~Has(dict, n)
    /\ dict.size = dict.cap
    /\ CanGrow(dict)
    /\ Stored(n, v, Rehashed(dict, Doubled(dict)))
    /\ iter' = NoItem /\ start' = {} /\ seen' = <<>>

\* The table is full and cannot grow (the doubled capacity overflows or its
\* allocation fails): the block is freed again, the value stays the client's.
SetRefused(n, v) ==
    /\ Exists
    /\ ~Has(dict, n)
    /\ dict.size = dict.cap
    /\ ret' = -1
    /\ UNCHANGED <<dict, owner, blocks, iteration>>

j2ValueObjectItemSet(n, v) ==
    \/ SetFails(n, v) \/ SetReplaces(n, v) \/ SetInserts(n, v)
    \/ SetGrows(n, v) \/ SetRefused(n, v)

j2ValueObjectItem(n) ==
    /\ Exists
    /\ ret' = IF Has(dict, n) THEN dict.value[MatchSlot(dict, n)].val ELSE NULL
    /\ UNCHANGED <<dict, owner, blocks, iteration>>

\* The value an iteration step gives, if any.
Give(s) ==
    /\ iter' = s
    /\ seen' = IF s = NoItem THEN seen ELSE Append(seen, dict.value[s].name)

j2ValueObjectIterFirst ==
    /\ Exists
    /\ iter' = IterFirst(dict)
    /\ start' = NamesOf(dict)
    /\ seen' = IF iter' = NoItem THEN <<>> ELSE <<dict.value[iter'].name>>
    /\ ret' = NULL
    /\ UNCHANGED <<dict, owner, blocks>>

j2ValueObjectIterNext ==
    /\ Exists /\ iter # NoItem
    /\ Give(IterNext(dict, iter))
    /\ ret' = NULL
    /\ UNCHANGED <<dict, owner, blocks, start>>

\* udCleanupDeep with j2ObjectCleanupItem: each visited block and its value.
j2Cleanup ==
    /\ Exists
    /\ LET gone == { dict.value[s].val : s \in Visited(dict) }
       IN  owner' = [v \in Vals |-> IF v \in gone THEN "freed" ELSE owner[v]]
    /\ blocks' = blocks - Cardinality(Visited(dict))
    /\ dict' = NoTable
    /\ ret' = NULL
    /\ iter' = NoItem /\ start' = {} /\ seen' = <<>>

\* The client creates a value where a freed one was.
NewValue(v) ==
    /\ owner[v] = "freed"
    /\ owner' = [owner EXCEPT ![v] = "client"]
    /\ UNCHANGED <<dict, blocks, ret, iteration>>

Next ==
    \/ j2InitObject \/ j2Cleanup
    \/ \E n \in Names, v \in Vals : j2ValueObjectItemSet(n, v)
    \/ \E n \in Names : j2ValueObjectItem(n)
    \/ j2ValueObjectIterFirst \/ j2ValueObjectIterNext
    \/ \E v \in Vals : NewValue(v)

Spec == Init /\ [][Next]_vars

-----------------------------------------------------------------------------
(***************************************************************************)
(* Properties                                                              *)
(***************************************************************************)

TypeOK ==
    /\ TableType(dict, Members)
    /\ owner \in [Vals -> {"client", "object", "freed"}]
    /\ blocks \in Nat
    /\ ret \in Vals \union {NULL, 0, -1}
    /\ iter \in Slots(dict) \union {NoItem}
    /\ start \subseteq Names
    /\ seen \in Seq(Names)

\* The loop of j2ValueObjectItemSet dereferences every item of its walk: udLeft
\* promises as many items as udNext gives, each a member of that hash.
WalkIsSafe ==
    \A h \in Keys :
        LET walk == Walk(dict, h)
        IN  /\ \A i \in DOMAIN walk : walk[i] \in Holding(dict, h)
            /\ Len(walk) = Cardinality(Holding(dict, h))

\* A name is stored once, however its hash collides and however often the
\* table grew, so that the lookup's first match is the only one.
NamesUnique == Cardinality(NamesOf(dict)) = Cardinality(dict.active)

\* The object owns exactly the values it holds, each in one member: none is
\* freed while stored, none replaced or refused is left behind unfreed.
OwnsWhatItHolds ==
    \A v \in Vals :
        Cardinality({ s \in dict.active : dict.value[s].val = v })
          = IF owner[v] = "object" THEN 1 ELSE 0

\* No key-value block leaks: not on replacement, growth, failure or cleanup.
NoBlockLeaks == blocks = Cardinality(dict.active)

\* An iteration interrupted by j2ValueObjectItemSet calls that do not grow the
\* table gives every member present at its beginning, and none twice.
IterationComplete ==
    /\ \A i, j \in DOMAIN seen : seen[i] = seen[j] => i = j
    /\ iter = NoItem => \A n \in start : \E i \in DOMAIN seen : seen[i] = n

-----------------------------------------------------------------------------
\* The value a name maps to.
Lookup(n) ==
    IF \E mem \in MembersOf(dict) : mem.name = n
    THEN (CHOOSE mem \in MembersOf(dict) : mem.name = n).val
    ELSE NULL

Map == INSTANCE J2Map WITH m <- [n \in Names |-> Lookup(n)],
                           alive <- Exists, ret <- ret

\* An object is a map from names to values: a set that returns 0 binds the
\* name and touches no other name, one that returns -1 changes nothing, and a
\* lookup gives the value set last, through collisions and growth.
ImplementsMap == Map!Spec
=============================================================================
