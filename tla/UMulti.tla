------------------------------- MODULE UMulti -------------------------------
(***************************************************************************)
(* What udict.h promises: for each key the values inserted, oldest first,  *)
(* at most `cap` pairs in all, and a cursor <<k, i>> on the i-th value of k.*)
(* The one thing a rehash does not promise is the order of equal keys.     *)
(***************************************************************************)
EXTENDS Sequences, FiniteSets, Naturals

CONSTANTS Keys, Values, NULL, Caps

VARIABLES m, cap, cur, ret

multiVars == <<m, cap, cur, ret>>

Nowhere == <<>>
NoPairs == [k \in Keys |-> <<>>]

Pairs == UNION { {k} \X DOMAIN m[k] : k \in Keys }

Full == Cardinality(Pairs) = cap

First(k) == IF m[k] = <<>> THEN Nowhere ELSE <<k, 1>>

Init == m = NoPairs /\ cap = 0 /\ cur = Nowhere /\ ret = NULL

Create == cap = 0 /\ cap' \in Caps /\ m' = NoPairs /\ ret' = NULL /\ UNCHANGED cur

Add(k, v) ==
    /\ cap # 0
    /\ ~Full
    /\ m' = [m EXCEPT ![k] = Append(@, v)]
    /\ cur' \in {cur, <<k, Len(m[k]) + 1>>}
    /\ ret' = NULL
    /\ UNCHANGED cap

Replace(k, v) ==
    /\ m[k] # <<>>
    /\ m' = [m EXCEPT ![k][1] = v]
    /\ cur' \in {cur, <<k, 1>>}
    /\ ret' = NULL
    /\ UNCHANGED cap

\* An insert into a full table.
Refuse == Full /\ cur' \in {cur, Nowhere} /\ ret' = NULL /\ UNCHANGED <<m, cap>>

Get(k) ==
    /\ ret' = IF m[k] = <<>> THEN NULL ELSE m[k][1]
    /\ UNCHANGED <<m, cap, cur>>

Goto(c) == cur' = c /\ ret' = NULL /\ UNCHANGED <<m, cap>>

Find(k) == Goto(First(k))

Following ==
    /\ cur # Nowhere
    /\ Goto(IF cur[2] < Len(m[cur[1]]) THEN <<cur[1], cur[2] + 1>> ELSE Nowhere)

\* The order of iteration over all pairs is not promised.
Iterate == \E c \in Pairs \union {Nowhere} : Goto(c)

Set(v) ==
    /\ cur # Nowhere
    /\ m' = [m EXCEPT ![cur[1]][cur[2]] = v]
    /\ ret' = NULL
    /\ UNCHANGED <<cap, cur>>

Destroy == m' = NoPairs /\ cap' = 0 /\ cur' = Nowhere /\ ret' = NULL

\* The same values for every key, in some order.
Grow ==
    /\ cap' >= cap
    /\ \A k \in Keys, v \in Values \union {NULL} :
         Cardinality({ i \in DOMAIN m[k] : m[k][i] = v }) =
         Cardinality({ i \in DOMAIN m'[k] : m'[k][i] = v })
    /\ cur' = Nowhere
    /\ UNCHANGED ret

Next ==
    \/ \E k \in Keys, v \in Values : Add(k, v) \/ Replace(k, v)
    \/ \E k \in Keys : Get(k) \/ Find(k)
    \/ \E v \in Values : Set(v)
    \/ Create \/ Refuse \/ Following \/ Iterate \/ Destroy \/ Grow

Spec == Init /\ [][Next]_multiVars
=============================================================================
