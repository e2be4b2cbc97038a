----------------------------- MODULE UDictTable -----------------------------
(***************************************************************************)
(* The table of src/udict.c: open addressing with linear probing, keys may *)
(* be stored more than once, nothing is ever removed.  A table is a record *)
(*     [cap, size, active, key, value, dups]                               *)
(* where `active` is the set of active slots and key, value and dups are   *)
(* functions over the slots.  Each operator is what one call does to a     *)
(* table, its two-pass probe loop included.                                *)
(***************************************************************************)
EXTENDS Integers, FiniteSets

CONSTANTS Keys,         \* the keys stored
          NULL,         \* the null value pointer
          Home(_, _)    \* Home(k, c) is k & (c-1), where the probe of k begins

ASSUME KeysAssumption == Keys \subseteq Nat

Slots(t) == 0 .. t.cap - 1

\* calloc: every field zero.
Empty(c) == [cap    |-> c,
             size   |-> 0,
             active |-> {},
             key    |-> [s \in 0 .. c - 1 |-> 0],
             value  |-> [s \in 0 .. c - 1 |-> NULL],
             dups   |-> [s \in 0 .. c - 1 |-> 0]]

\* The null handle is the table with no slots.
NoTable == Empty(0)
NoItem == -1

\* Faulty variants, named <definition>_<fault>, stand before the definitions
\* they vary: each is a slip the properties must notice.

(***************************************************************************)
(* Probing.  The two passes of the loops, from h to the last slot and then *)
(* from slot 0, meet slot p after Steps(t, h, p) other slots.              *)
(***************************************************************************)
Steps(t, h, p) == IF p >= h THEN p - h ELSE p - h + t.cap

\* The slot of S a probe from h meets first.
FirstFrom(t, h, S) ==
    CHOOSE p \in S : \A s \in S : Steps(t, h, p) <= Steps(t, h, s)

\* The slots a probe from h passes over before it meets p.
Passed(t, h, p) == { s \in Slots(t) : Steps(t, h, s) < Steps(t, h, p) }

HomeOf(t, k) == Home(k, t.cap)

Free(t) == Slots(t) \ t.active

Holding(t, k) == { s \in t.active : t.key[s] = k }

\* Where the loops of udFind, udReset and udNext stop.
Stops(t, k) == Free(t) \union Holding(t, k)

(***************************************************************************)
(* udInsert: the slot the pair lands in, and the table after it.  The slots*)
(* with the same key that the probe passes count one more duplicate.       *)
(***************************************************************************)
InsertSlot_Lowest(t, k) ==
    IF t.size = t.cap THEN NoItem ELSE FirstFrom(t, 0, Free(t))
InsertSlot_Home(t, k) == IF t.size = t.cap THEN NoItem ELSE HomeOf(t, k)
InsertSlot(t, k) ==
    IF t.size = t.cap THEN NoItem ELSE FirstFrom(t, HomeOf(t, k), Free(t))

\* Whether the probe for k to p counts slot s as having a later duplicate.
CountsAt_AnyKey(t, k, p, s) == s \in Passed(t, HomeOf(t, k), p)
CountsAt(t, k, p, s) == s \in Passed(t, HomeOf(t, k), p) /\ t.key[s] = k

Inserted(t, k, v) ==
    LET p == InsertSlot(t, k)
    IN  IF p = NoItem THEN t
        ELSE [t EXCEPT !.size = @ + 1,
                       !.active = @ \union {p},
                       !.key[p] = k,
                       !.value[p] = v,
                       !.dups = [s \in Slots(t) |->
                                   IF CountsAt(t, k, p, s)
                                   THEN t.dups[s] + 1 ELSE t.dups[s]]]

(***************************************************************************)
(* udReset: replaces the first pair with the key, or adds one; it counts   *)
(* no duplicates.                                                          *)
(***************************************************************************)
ResetSlot_FirstFree(t, k) ==
    IF Free(t) = {} THEN NoItem ELSE FirstFrom(t, HomeOf(t, k), Free(t))
ResetSlot(t, k) ==
    IF Stops(t, k) = {} THEN NoItem
    ELSE FirstFrom(t, HomeOf(t, k), Stops(t, k))

ReplacedSize_Always(t, p) == t.size + 1
ReplacedSize(t, p) == IF p \in t.active THEN t.size ELSE t.size + 1

Replaced(t, k, v) ==
    LET p == ResetSlot(t, k)
    IN  IF p = NoItem THEN t
        ELSE [t EXCEPT !.size = ReplacedSize(t, p),
                       !.active = @ \union {p},
                       !.key[p] = k,
                       !.value[p] = v]

(***************************************************************************)
(* Lookups                                                                 *)
(***************************************************************************)
FindSlot(t, k) ==
    LET p == FirstFrom(t, HomeOf(t, k), Stops(t, k))
    IN  IF Stops(t, k) = {} \/ p \notin t.active THEN NoItem ELSE p

GetValue(t, k) ==
    IF FindSlot(t, k) = NoItem THEN NULL ELSE t.value[FindSlot(t, k)]

Left(t, p) == t.dups[p]

\* udNext trusts the duplicate count: it does not look whether the slot it
\* stops at is active.
NextSlot_Unchecked(t, p) == FirstFrom(t, (p + 1) % t.cap, Stops(t, t.key[p]))
NextSlot(t, p) ==
    IF Left(t, p) = 0 THEN NoItem
    ELSE FirstFrom(t, (p + 1) % t.cap, Stops(t, t.key[p]))

(***************************************************************************)
(* Iteration, in slot order.                                               *)
(***************************************************************************)
IterFirst(t) ==
    IF t.size = 0 \/ t.active = {} THEN NoItem
    ELSE CHOOSE p \in t.active : \A s \in t.active : p <= s

IterNext_SkipsOne(t, p) ==
    LET later == { s \in t.active : s > p + 1 }
    IN  IF later = {} THEN NoItem
        ELSE CHOOSE s \in later : \A r \in later : s <= r
IterNext(t, p) ==
    LET later == { s \in t.active : s > p }
    IN  IF later = {} THEN NoItem
        ELSE CHOOSE s \in later : \A r \in later : s <= r

IterLast(t) ==
    IF t.active = {} THEN NoItem
    ELSE CHOOSE p \in t.active : \A s \in t.active : p >= s

\* The slots udCleanupDeep hands to its function: it stops when `size` many
\* have been given away.
Visited_Early(t) ==
    { p \in t.active : Cardinality({ s \in t.active : s <= p }) < t.size }
Visited(t) ==
    { p \in t.active : Cardinality({ s \in t.active : s <= p }) <= t.size }

(***************************************************************************)
(* What makes a table well formed                                          *)
(***************************************************************************)
TableType(t, Values) ==
    /\ t.active \subseteq Slots(t)
    /\ t.size \in 0 .. t.cap
    /\ t.key \in [Slots(t) -> Keys \union {0}]
    /\ \A s \in t.active : t.key[s] \in Keys
    /\ t.value \in [Slots(t) -> Values \union {NULL}]
    /\ t.dups \in [Slots(t) -> Nat]

\* The count and the flags agree, so a probe that passed the size check finds
\* a free slot.
SizeCounts(t) == t.size = Cardinality(t.active)

\* No free slot lies between a key's home and a slot that holds the key, so
\* that a lookup that stops at a free slot may give up.
Reachable(t) ==
    \A p \in t.active : Passed(t, HomeOf(t, t.key[p]), p) \subseteq t.active

\* The slots that hold the key of p and come after p in its probe order.
LaterDuplicates(t, p) ==
    LET h == HomeOf(t, t.key[p])
    IN  { s \in Holding(t, t.key[p]) : Steps(t, h, s) > Steps(t, h, p) }

DupsCount(t) ==
    \A p \in Slots(t) :
        t.dups[p] = IF p \in t.active THEN Cardinality(LaterDuplicates(t, p)) ELSE 0

\* From udFind, udNext leads through every pair with the key, in probe order,
\* and only through those.
Enumerates(t) ==
    \A k \in Keys :
        LET first == FindSlot(t, k)
            h == HomeOf(t, k)
        IN  /\ first = NoItem <=> Holding(t, k) = {}
            /\ first # NoItem => /\ first \in Holding(t, k)
                                 /\ Passed(t, h, first) \cap Holding(t, k) = {}
            /\ \A p \in Holding(t, k) :
                 IF LaterDuplicates(t, p) = {} THEN NextSlot(t, p) = NoItem
                 ELSE NextSlot(t, p) = FirstFrom(t, h, LaterDuplicates(t, p))
=============================================================================
