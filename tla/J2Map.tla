-------------------------------- MODULE J2Map --------------------------------
(***************************************************************************)
(* What j2value.h promises of a JSON object: a map from names to values.   *)
(***************************************************************************)
EXTENDS Integers

CONSTANTS Names, Vals, NULL

VARIABLES m,      \* the value of each name, NULL where it has none
          alive,  \* whether there is an object
          ret     \* what the last call returned

mapVars == <<m, alive, ret>>

Unbound == [n \in Names |-> NULL]

Init == m = Unbound /\ alive = FALSE /\ ret = NULL

Create == ~alive /\ alive' = TRUE /\ m' = Unbound /\ ret' = NULL

Destroy == alive /\ alive' = FALSE /\ m' = Unbound /\ ret' = NULL

Set(n, v) ==
    /\ alive
    /\ m' = [m EXCEPT ![n] = v]
    /\ ret' = 0
    /\ UNCHANGED alive

Refuse == alive /\ ret' = -1 /\ UNCHANGED <<m, alive>>

Item(n) == alive /\ ret' = m[n] /\ UNCHANGED <<m, alive>>

Look == ret' = NULL /\ UNCHANGED <<m, alive>>

Next ==
    \/ Create \/ Destroy \/ Refuse \/ Look
    \/ \E n \in Names, v \in Vals : Set(n, v)
    \/ \E n \in Names : Item(n)

Spec == Init /\ [][Next]_mapVars
=============================================================================
