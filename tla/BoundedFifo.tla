----------------------------- MODULE BoundedFifo -----------------------------
(***************************************************************************)
(* What rbuf.h promises of a ring buffer: a queue of at most `cap` values  *)
(* that forgets its oldest value when a push finds it full.                *)
(***************************************************************************)
EXTENDS Sequences, Naturals

CONSTANTS Vals, NULL, Caps

VARIABLES q,     \* the values, oldest first
          cap,   \* 0 when there is no buffer
          ret    \* what the last call returned

fifoVars == <<q, cap, ret>>

Init == q = <<>> /\ cap = 0 /\ ret = NULL

Create == cap = 0 /\ cap' \in Caps /\ q' = <<>> /\ ret' = NULL

Destroy == cap' = 0 /\ q' = <<>> /\ ret' = NULL

Clear == q' = <<>> /\ ret' = NULL /\ UNCHANGED cap

Push(v) ==
    /\ cap # 0
    /\ q' = Append(IF Len(q) = cap THEN Tail(q) ELSE q, v)
    /\ ret' = NULL
    /\ UNCHANGED cap

Pop ==
    /\ q # <<>>
    /\ ret' = Head(q)
    /\ q' = Tail(q)
    /\ UNCHANGED cap

Replace(k, v) == q' = [q EXCEPT ![k] = v] /\ ret' = NULL /\ UNCHANGED cap

\* A call that reads, or finds nothing to do.
Look == ret' = NULL /\ UNCHANGED <<q, cap>>

Next ==
    \/ Create \/ Destroy \/ Clear \/ Pop \/ Look
    \/ \E v \in Vals : Push(v)
    \/ \E k \in DOMAIN q, v \in Vals \union {NULL} : Replace(k, v)

Spec == Init /\ [][Next]_fifoVars
=============================================================================
