---------------------------- MODULE StepRecursion ----------------------------
(***************************************************************************)
(* A function that is given step by step exists, whatever set its values   *)
(* are in.  A module that proves something about a recursive function      *)
(* instantiates this one with the function's step.                         *)
(***************************************************************************)
EXTENDS NatLemmas

CONSTANT Step(_, _, _)    \* the value at k, from what the function depends on,
                          \* k, and the function, below k

\* The approximation up to n, from the one up to n - 1.
LEMMA Exists ==
    ASSUME NEW p, NEW n \in Nat,
           \A k \in 0 .. n : \A f, g :
              (\A j \in 0 .. k - 1 : f[j] = g[j]) => Step(p, k, f) = Step(p, k, g)
    PROVE  \E g : g = [k \in 0 .. n |-> Step(p, k, g)]
<1> DEFINE Approx(m, g) == g = [k \in 0 .. m |-> Step(p, k, g)]
           S == { m \in Nat : m <= n => \E g : Approx(m, g) }
<1>1. 0 \in S
  <2> DEFINE h == [k \in 0 .. 0 |-> Step(p, 0, 0)]
  <2>1. \A k \in 0 .. 0 : h[k] = Step(p, k, h)
    <3>1. \A k \in 0 .. 0 : k = 0 /\ h[k] = Step(p, 0, 0)
      OBVIOUS
    <3>2. \A j \in 0 .. 0 - 1 : 0[j] = h[j]
      OBVIOUS
    <3> HIDE DEF h
    <3>3. Step(p, 0, 0) = Step(p, 0, h)
      BY <3>2
    <3> QED
      BY <3>1, <3>3
  <2>2. h = [k \in 0 .. 0 |-> h[k]]
    OBVIOUS
  <2> HIDE DEF h
  <2>3. Approx(0, h)
    BY <2>1, <2>2
  <2> QED
    BY <2>3
<1>2. ASSUME NEW m \in Nat, m \in S PROVE m + 1 \in S
  <2> SUFFICES ASSUME m + 1 <= n PROVE \E g : Approx(m + 1, g)
    OBVIOUS
  <2>1. PICK g : Approx(m, g)
    BY <1>2
  <2> DEFINE h == [k \in 0 .. m + 1 |-> IF k = m + 1 THEN Step(p, k, g) ELSE g[k]]
  <2>2. \A k \in 0 .. m : h[k] = g[k]
    OBVIOUS
  <2>3. Approx(m + 1, h)
    <3>1. h = [k \in 0 .. m + 1 |-> h[k]]
      OBVIOUS
    <3>2. ASSUME NEW k \in 0 .. m + 1 PROVE h[k] = Step(p, k, h)
      <4>1. h[k] = Step(p, k, g)
        <5>1. CASE k = m + 1
          BY <5>1
        <5>2. CASE k # m + 1
          <6>1. k \in 0 .. m /\ h[k] = g[k]
            BY <5>2, <2>2
          <6> QED
            BY <2>1, <6>1
        <5> QED
          BY <5>1, <5>2
      <4>2. k \in 0 .. n /\ \A j \in 0 .. k - 1 : j \in 0 .. m
        OBVIOUS
      <4>3. \A j \in 0 .. k - 1 : g[j] = h[j]
        BY <2>2, <4>2
      <4> HIDE DEF h
      <4>4. Step(p, k, g) = Step(p, k, h)
        BY <4>2, <4>3
      <4> QED
        BY <4>1, <4>4
    <3> HIDE DEF h
    <3> QED
      BY <3>1, <3>2
  <2> HIDE DEF h
  <2> QED
    BY <2>3
<1>3. Nat \subseteq S
  <2> HIDE DEF S
  <2> QED
    BY <1>1, <1>2, AllNumbers
<1>4. PICK g : Approx(n, g)
  BY <1>3
<1> QED
  BY <1>4

\* The same for a step that looks at the last value only.
LEMMA ExistsFromLast ==
    ASSUME NEW p, NEW n \in Nat,
           \A f, g : Step(p, 0, f) = Step(p, 0, g),
           \A k \in 0 .. n : \A f, g : f[k - 1] = g[k - 1] => Step(p, k, f) = Step(p, k, g)
    PROVE  \E g : g = [k \in 0 .. n |-> Step(p, k, g)]
<1>1. ASSUME NEW k \in 0 .. n, NEW f, NEW g, \A j \in 0 .. k - 1 : f[j] = g[j]
      PROVE  Step(p, k, f) = Step(p, k, g)
  <2>1. k # 0 => k - 1 \in 0 .. k - 1
    OBVIOUS
  <2> QED
    BY <1>1, <2>1
<1> QED
  BY <1>1, Exists
=============================================================================
