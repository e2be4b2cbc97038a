------------------------------ MODULE NatLemmas ------------------------------
(***************************************************************************)
(* Facts about the natural numbers that stand in for induction: a set of   *)
(* numbers has a least one, so a statement about all numbers is proved from*)
(* its least counterexample, and a function that is given step by step     *)
(* exists.                                                                 *)
(***************************************************************************)
EXTENDS Integers, TLAPS, WellFoundedInduction

\* A set of numbers has a least one.
LEMMA LeastNumber ==
    ASSUME NEW T \in SUBSET Nat, T # {}
    PROVE  \E m \in T : \A n \in T : m <= n
<1> DEFINE R == {ss \in Nat \X Nat : ss[1] < ss[2]}
<1>1. IsWellFoundedOn(R, Nat)
  BY NatLessThanWellFounded DEF OpToRel
<1> HIDE DEF R
<1>2. \E m \in T : \A n \in T : ~(<<n, m>> \in R)
  BY <1>1, WFMin
<1>3. ASSUME NEW m \in T, NEW n \in T, ~(<<n, m>> \in R) PROVE m <= n
  BY <1>3 DEF R
<1> QED
  BY <1>2, <1>3

\* A set of numbers below c has a greatest one.
LEMMA GreatestNumber ==
    ASSUME NEW c \in Nat, NEW T \in SUBSET (0 .. c - 1), T # {}
    PROVE  \E m \in T : \A n \in T : n <= m
<1> DEFINE U == { c - n : n \in T }
<1>1. U \in SUBSET Nat /\ U # {}
  <2>1. \A n \in T : c - n \in Nat
    OBVIOUS
  <2>2. PICK n \in T : TRUE
    OBVIOUS
  <2>3. c - n \in U
    OBVIOUS
  <2> QED
    BY <2>1, <2>3
<1>2. PICK u \in U : \A w \in U : u <= w
  BY <1>1, LeastNumber
<1>3. PICK m \in T : u = c - m
  BY <1>2
<1>4. ASSUME NEW n \in T PROVE n <= m
  <2>1. c - m <= c - n
    BY <1>2, <1>3
  <2> QED
    BY <2>1
<1> QED
  BY <1>4

\* A set of numbers with 0 that has the next number of each of its numbers has
\* all numbers.
LEMMA AllNumbers ==
    ASSUME NEW T, 0 \in T, \A n \in Nat : n \in T => n + 1 \in T
    PROVE  Nat \subseteq T
<1> SUFFICES ASSUME Nat \ T # {} PROVE FALSE
  OBVIOUS
<1>1. PICK m \in Nat \ T : \A n \in Nat \ T : m <= n
  BY LeastNumber
<1>2. m # 0 /\ m - 1 \in Nat /\ m = (m - 1) + 1
  BY <1>1
<1>3. m - 1 \in T
  BY <1>1, <1>2
<1> QED
  BY <1>1, <1>2, <1>3

\* g has the first n + 1 values of the iteration of F from a.
Iterates(F, a, n, g) ==
    /\ DOMAIN g = 0 .. n
    /\ g[0] = a
    /\ \A m \in 0 .. n - 1 : g[m + 1] = F[<<m, g[m]>>]

\* Two iterations agree as far as both go.
LEMMA IteratesAgree ==
    ASSUME NEW F, NEW a, NEW n \in Nat, NEW f, Iterates(F, a, n, f),
           NEW o \in Nat, NEW g, Iterates(F, a, o, g)
    PROVE  \A i \in Nat : i <= n /\ i <= o => f[i] = g[i]
<1> DEFINE T == { i \in Nat : i <= n /\ i <= o => f[i] = g[i] }
<1>1. 0 \in T
  BY DEF Iterates
<1>2. ASSUME NEW i \in Nat, i \in T, i + 1 <= n, i + 1 <= o
      PROVE  f[i + 1] = g[i + 1]
  <2>1. f[i] = g[i] /\ i \in 0 .. n - 1 /\ i \in 0 .. o - 1
    BY <1>2
  <2> QED
    BY <2>1 DEF Iterates
<1>3. \A i \in Nat : i \in T => i + 1 \in T
  BY <1>2
<1>4. Nat \subseteq T
  <2> HIDE DEF T
  <2> QED
    BY <1>1, <1>3, AllNumbers
<1> QED
  BY <1>4

\* An iteration of any length exists.
LEMMA IteratesExist ==
    ASSUME NEW S, NEW F \in [Nat \X S -> S], NEW a \in S
    PROVE  \A n \in Nat : \E g \in [0 .. n -> S] : Iterates(F, a, n, g)
<1> DEFINE T == { n \in Nat : \E g \in [0 .. n -> S] : Iterates(F, a, n, g) }
<1>1. 0 \in T
  <2> DEFINE g == [i \in 0 .. 0 |-> a]
  <2>1. g \in [0 .. 0 -> S] /\ Iterates(F, a, 0, g)
    BY DEF Iterates
  <2> QED
    BY <2>1
<1>2. ASSUME NEW n \in Nat, n \in T PROVE n + 1 \in T
  <2>1. PICK g \in [0 .. n -> S] : Iterates(F, a, n, g)
    BY <1>2
  <2> DEFINE b == F[<<n, g[n]>>]
             h == [i \in 0 .. n + 1 |-> IF i = n + 1 THEN b ELSE g[i]]
  <2>2. b \in S
    OBVIOUS
  <2>3. h \in [0 .. n + 1 -> S]
    BY <2>2
  <2>4. h[0] = a
    BY <2>1 DEF Iterates
  <2>5. ASSUME NEW m \in 0 .. (n + 1) - 1 PROVE h[m + 1] = F[<<m, h[m]>>]
    <3>1. h[m] = g[m]
      OBVIOUS
    <3>2. CASE m = n
      <4>1. h[m + 1] = b /\ b = F[<<m, g[m]>>]
        BY <3>2
      <4> HIDE DEF b, h
      <4> QED
        BY <3>1, <4>1
    <3>3. CASE m # n
      <4>1. m \in 0 .. n - 1 /\ h[m + 1] = g[m + 1]
        BY <3>3
      <4> QED
        BY <2>1, <3>1, <4>1 DEF Iterates
    <3> QED
      BY <3>2, <3>3
  <2>6. Iterates(F, a, n + 1, h)
    BY <2>3, <2>4, <2>5 DEF Iterates
  <2> HIDE DEF h
  <2> QED
    BY <2>3, <2>6
<1>3. Nat \subseteq T
  <2> HIDE DEF T
  <2> QED
    BY <1>1, <1>2, AllNumbers
<1> QED
  BY <1>3

\* The function whose next value F gives from the last one.
Iterated(F, a, f) == f[0] = a /\ \A n \in Nat : f[n + 1] = F[<<n, f[n]>>]

\* So does the one of all lengths.
LEMMA IterationExists ==
    ASSUME NEW S, NEW F \in [Nat \X S -> S], NEW a \in S
    PROVE  \E f \in [Nat -> S] : Iterated(F, a, f)
<1> DEFINE G(n) == CHOOSE g \in [0 .. n -> S] : Iterates(F, a, n, g)
           f == [n \in Nat |-> G(n)[n]]
<1>1. ASSUME NEW n \in Nat PROVE G(n) \in [0 .. n -> S] /\ Iterates(F, a, n, G(n))
  BY IteratesExist
<1> HIDE DEF G
<1>2. f \in [Nat -> S]
  BY <1>1
<1>3. f[0] = a
  BY <1>1 DEF Iterates
<1>4. ASSUME NEW n \in Nat PROVE f[n + 1] = F[<<n, f[n]>>]
  <2>1. Iterates(F, a, n, G(n)) /\ Iterates(F, a, n + 1, G(n + 1))
    BY <1>1
  <2>2. n + 1 \in Nat /\ n <= n /\ n <= n + 1
    OBVIOUS
  <2>3. G(n)[n] = G(n + 1)[n]
    BY <2>1, <2>2, IteratesAgree
  <2>4. G(n + 1)[n + 1] = F[<<n, G(n + 1)[n]>>]
    BY <2>1 DEF Iterates
  <2> QED
    BY <2>2, <2>3, <2>4
<1> HIDE DEF f
<1> QED
  BY <1>2, <1>3, <1>4 DEF Iterated
=============================================================================
