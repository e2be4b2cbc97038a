---------------------------- MODULE J2StreamProofs ----------------------------
(***************************************************************************)
(* Proofs about what is read and written piece by piece: the parser, for   *)
(* every set of texts, of strings and of allocations that can fail; the    *)
(* printer's write callbacks, for every printout; the lookup of paths; the *)
(* scanner of string literals and numbers, for all that a client can have  *)
(* parsed or printed; and, at the end, the grammar of JSON and the parser. *)
(***************************************************************************)
EXTENDS J2Meaning, J2Grammar, NatLemmas, SequenceTheorems, FiniteSetTheorems

(***************************************************************************)
(* Sums.  Total folds over the positions of a sequence; the sums of its    *)
(* beginnings give the same number.                                        *)
(***************************************************************************)
Nth(w, i) == IF i \in DOMAIN w THEN w[i] ELSE 0

Weights(w) == \A i \in DOMAIN w : w[i] \in Nat

IsUpto(w, f) == f[0] = 0 /\ \A n \in Nat : f[n + 1] = f[n] + Nth(w, n + 1)
Upto(w) == CHOOSE f \in [Nat -> Nat] : IsUpto(w, f)

\* The sums of the beginnings exist.
LEMMA UptoIs ==
    ASSUME NEW w, Weights(w)
    PROVE  Upto(w) \in [Nat -> Nat] /\ IsUpto(w, Upto(w))
<1> DEFINE F == [p \in Nat \X Nat |-> p[2] + Nth(w, p[1] + 1)]
<1>1. F \in [Nat \X Nat -> Nat]
  BY DEF Nth, Weights
<1>2. PICK f \in [Nat -> Nat] : Iterated(F, 0, f)
  BY <1>1, IterationExists
<1>3. ASSUME NEW n \in Nat PROVE f[n + 1] = f[n] + Nth(w, n + 1)
  <2>1. f[n + 1] = F[<<n, f[n]>>]
    BY <1>2 DEF Iterated
  <2>2. <<n, f[n]>> \in Nat \X Nat
    BY <1>2
  <2> QED
    BY <2>1, <2>2
<1>4. f[0] = 0
  BY <1>2 DEF Iterated
<1>5. IsUpto(w, f)
  BY <1>3, <1>4 DEF IsUpto
<1> QED
  BY <1>2, <1>5 DEF Upto

\* Sequences that agree up to m, but for one place.
ButAt(w, v, x, m) == \A i \in 1 .. m : i # x => Nth(v, i) = Nth(w, i)

\* Their sums differ from that place on, by what they differ there.
LEMMA UptoBut ==
    ASSUME NEW w, Weights(w), NEW v, Weights(v),
           NEW x \in Nat \ {0}, NEW m \in Nat, ButAt(w, v, x, m)
    PROVE  \A n \in 0 .. m :
             Upto(v)[n] = Upto(w)[n] + IF n >= x THEN Nth(v, x) - Nth(w, x) ELSE 0
<1> DEFINE T == { n \in Nat : n <= m => Upto(v)[n] = Upto(w)[n]
                                  + IF n >= x THEN Nth(v, x) - Nth(w, x) ELSE 0 }
<1>1. /\ Upto(w) \in [Nat -> Nat] /\ IsUpto(w, Upto(w))
      /\ Upto(v) \in [Nat -> Nat] /\ IsUpto(v, Upto(v))
  BY UptoIs
<1>2. 0 \in T
  BY <1>1 DEF IsUpto
<1>3. ASSUME NEW n \in Nat, n \in T PROVE n + 1 \in T
  <2> SUFFICES ASSUME n + 1 <= m
               PROVE  Upto(v)[n + 1] = Upto(w)[n + 1]
                        + IF n + 1 >= x THEN Nth(v, x) - Nth(w, x) ELSE 0
    OBVIOUS
  <2>1. /\ Upto(v)[n + 1] = Upto(v)[n] + Nth(v, n + 1)
        /\ Upto(w)[n + 1] = Upto(w)[n] + Nth(w, n + 1)
    BY <1>1 DEF IsUpto
  <2>2. /\ Nth(v, n + 1) \in Nat /\ Nth(w, n + 1) \in Nat
        /\ Nth(v, x) \in Nat /\ Nth(w, x) \in Nat
        /\ Upto(v)[n] \in Nat /\ Upto(w)[n] \in Nat
    BY <1>1 DEF Nth, Weights
  <2>3. Upto(v)[n] = Upto(w)[n] + IF n >= x THEN Nth(v, x) - Nth(w, x) ELSE 0
    BY <1>3
  <2>4. CASE n + 1 = x
    BY <2>1, <2>2, <2>3, <2>4
  <2>5. CASE n + 1 # x
    <3>1. Nth(v, n + 1) = Nth(w, n + 1)
      BY <2>5 DEF ButAt
    <3>2. n + 1 >= x <=> n >= x
      BY <2>5
    <3> QED
      BY <2>1, <2>2, <2>3, <3>1, <3>2
  <2> QED
    BY <2>4, <2>5
<1>4. Nat \subseteq T
  <2> HIDE DEF T
  <2> QED
    BY <1>2, <1>3, AllNumbers
<1> QED
  BY <1>4

\* Nothing adds up to nothing.
LEMMA UptoZero ==
    ASSUME NEW w, \A i \in DOMAIN w : w[i] = 0
    PROVE  \A n \in Nat : Upto(w)[n] = 0
<1> DEFINE T == { n \in Nat : Upto(w)[n] = 0 }
<1>1. IsUpto(w, Upto(w))
  BY UptoIs DEF Weights
<1>2. 0 \in T
  BY <1>1 DEF IsUpto
<1>3. ASSUME NEW n \in Nat, n \in T PROVE n + 1 \in T
  BY <1>1, <1>3 DEF IsUpto, Nth
<1>4. Nat \subseteq T
  <2> HIDE DEF T
  <2> QED
    BY <1>2, <1>3, AllNumbers
<1> QED
  BY <1>4

\* What Total's fold has taken in, as a function of the positions left.
IsFold(w, f) ==
    f = [s \in SUBSET DOMAIN w |-> IF s = {} THEN 0 ELSE f[s \ {Max(s)}] + w[Max(s)]]

\* There is a function with the fold's recursion: the sums over the positions
\* in a set.
LEMMA FoldExists ==
    ASSUME NEW w \in Seq(Nat)
    PROVE  \E f : IsFold(w, f)
<1> DEFINE L == Len(w)
           Part(s) == [i \in DOMAIN w |-> IF i \in s THEN w[i] ELSE 0]
           f == [s \in SUBSET DOMAIN w |-> Upto(Part(s))[L]]
<1>1. L \in Nat /\ DOMAIN w = 1 .. L /\ \A i \in DOMAIN w : w[i] \in Nat
  OBVIOUS
<1>2. ASSUME NEW s \in SUBSET DOMAIN w, s # {}
      PROVE  f[s] = f[s \ {Max(s)}] + w[Max(s)]
  <2> DEFINE x == Max(s)
             r == s \ {x}
  <2>1. x \in s
    <3> DEFINE c == L + 1
    <3>1. c \in Nat /\ s \in SUBSET (0 .. c - 1)
      BY <1>1
    <3> HIDE DEF c
    <3>2. \E m \in s : \A n \in s : n <= m
      BY <1>2, <3>1, GreatestNumber
    <3>3. \E m \in s : \A n \in s : m >= n
      BY <1>1, <3>2
    <3> QED
      BY <3>3 DEF Max
  <2> HIDE DEF x
  <2>2. /\ \A i \in DOMAIN Part(s) : Part(s)[i] \in Nat
        /\ \A i \in DOMAIN Part(r) : Part(r)[i] \in Nat
        /\ \A i \in 1 .. L : i # x => Nth(Part(s), i) = Nth(Part(r), i)
        /\ Nth(Part(s), x) = w[x] /\ Nth(Part(r), x) = 0
        /\ x \in Nat \ {0} /\ L >= x /\ L \in 0 .. L /\ w[x] \in Nat
    BY <1>1, <2>1 DEF Nth
  <2> HIDE DEF Part, L
  <2>3. ASSUME NEW v, v = Part(s), NEW u, u = Part(r) PROVE Upto(v)[L] = Upto(u)[L] + w[x]
    <3>1. Weights(v) /\ Weights(u) /\ ButAt(u, v, x, L)
      BY <2>2, <2>3 DEF Weights, ButAt
    <3>2. \A n \in 0 .. L : Upto(v)[n] = Upto(u)[n] + IF n >= x THEN Nth(v, x) - Nth(u, x) ELSE 0
      BY <1>1, <2>2, <3>1, UptoBut
    <3>3. Upto(v)[L] = Upto(u)[L] + IF L >= x THEN Nth(v, x) - Nth(u, x) ELSE 0
      BY <2>2, <3>2
    <3> QED
      BY <2>2, <2>3, <3>3
  <2>4. Upto(Part(s))[L] = Upto(Part(r))[L] + w[x]
    BY <2>3
  <2>5. r \in SUBSET DOMAIN w
    OBVIOUS
  <2> QED
    BY <2>4, <2>5 DEF x
<1>3. f[{}] = 0
  <2>1. Upto(Part({}))[L] = 0
    BY <1>1, UptoZero
  <2> HIDE DEF Part, L
  <2> QED
    BY <2>1
<1>4. DOMAIN f = SUBSET DOMAIN w
  OBVIOUS
<1>5. f = [s \in SUBSET DOMAIN w |-> f[s]]
  OBVIOUS
<1> HIDE DEF f
<1>6. IsFold(w, f)
  BY <1>2, <1>3, <1>5 DEF IsFold
<1> QED
  BY <1>6

\* The fold gives the last of the sums.
LEMMA TotalIsUpto ==
    ASSUME NEW w \in Seq(Nat)
    PROVE  Total(w) = Upto(w)[Len(w)]
<1> DEFINE D == DOMAIN w
           iter[s \in SUBSET D] ==
             IF s = {} THEN 0 ELSE iter[s \ {Max(s)}] + w[Max(s)]
           T == { n \in Nat : n <= Len(w) => iter[1 .. n] = Upto(w)[n] }
<1>1. Total(w) = iter[D]
  BY DEF Total, FoldLeft, MapThenFoldSet
<1>2. IsFold(w, iter)
  BY FoldExists DEF IsFold, iter
<1> HIDE DEF iter
<1>3. /\ D = 1 .. Len(w) /\ Len(w) \in Nat
      /\ \A i \in D : w[i] \in Nat
  OBVIOUS
<1>4. Upto(w) \in [Nat -> Nat] /\ IsUpto(w, Upto(w))
  BY <1>3, UptoIs DEF Weights
<1>5. 0 \in T
  <2>1. iter[{}] = 0
    BY <1>2 DEF IsFold
  <2>2. 1 .. 0 = {}
    OBVIOUS
  <2> QED
    BY <1>4, <2>1, <2>2 DEF IsUpto
<1>6. ASSUME NEW n \in Nat, n \in T PROVE n + 1 \in T
  <2> SUFFICES ASSUME n + 1 <= Len(w) PROVE iter[1 .. n + 1] = Upto(w)[n + 1]
    OBVIOUS
  <2> DEFINE s == 1 .. n + 1
  <2>1. s \in SUBSET D /\ s # {} /\ s \ {n + 1} = 1 .. n /\ n + 1 \in D
    BY <1>3
  <2>2. Max(s) = n + 1
    <3>1. n + 1 \in s /\ \A y \in s : n + 1 >= y
      OBVIOUS
    <3>2. \A x \in s : (\A y \in s : x >= y) => x = n + 1
      OBVIOUS
    <3> QED
      BY <3>1, <3>2 DEF Max
  <2> HIDE DEF s
  <2>3. iter[s] = iter[s \ {Max(s)}] + w[Max(s)]
    BY <1>2, <2>1 DEF IsFold
  <2>4. iter[s] = iter[1 .. n] + w[n + 1]
    BY <2>1, <2>2, <2>3
  <2>5. iter[1 .. n] = Upto(w)[n]
    BY <1>6
  <2>6. Upto(w)[n + 1] = Upto(w)[n] + w[n + 1]
    BY <1>4, <2>1 DEF IsUpto, Nth
  <2> QED
    BY <2>4, <2>5, <2>6 DEF s
<1>7. Nat \subseteq T
  <2> HIDE DEF T
  <2> QED
    BY <1>5, <1>6, AllNumbers
<1>8. Len(w) \in T
  BY <1>3, <1>7
<1> QED
  BY <1>1, <1>3, <1>8

\* Sequences of the same length that differ at one place differ in their totals
\* by what they differ there.
LEMMA TotalBut ==
    ASSUME NEW w \in Seq(Nat), NEW v \in Seq(Nat), Len(v) = Len(w), NEW x \in 1 .. Len(w),
           \A i \in 1 .. Len(w) : i # x => v[i] = w[i]
    PROVE  Total(v) = Total(w) + v[x] - w[x]
<1> DEFINE L == Len(w)
<1>1. /\ L \in Nat /\ DOMAIN w = 1 .. L /\ DOMAIN v = 1 .. L /\ x \in Nat \ {0}
      /\ L \in 0 .. L /\ L >= x
  OBVIOUS
<1>2. Weights(w) /\ Weights(v)
  BY DEF Weights
<1>3. ButAt(w, v, x, L) /\ Nth(v, x) = v[x] /\ Nth(w, x) = w[x]
  BY <1>1 DEF ButAt, Nth
<1>4. Total(w) = Upto(w)[L] /\ Total(v) = Upto(v)[L]
  BY TotalIsUpto
<1> HIDE DEF L
<1>5. \A n \in 0 .. L : Upto(v)[n] = Upto(w)[n] + IF n >= x THEN Nth(v, x) - Nth(w, x) ELSE 0
  BY <1>1, <1>2, <1>3, UptoBut
<1>6. Upto(v)[L] = Upto(w)[L] + (v[x] - w[x])
  BY <1>1, <1>3, <1>5
<1>7. Upto(w)[L] \in Nat /\ v[x] \in Nat /\ w[x] \in Nat
  <2>1. Upto(w) \in [Nat -> Nat]
    BY <1>2, UptoIs
  <2>2. v[x] \in Nat /\ w[x] \in Nat
    BY <1>1 DEF L
  <2> QED
    BY <1>1, <2>1, <2>2
<1> QED
  BY <1>4, <1>6, <1>7

\* The total without the last one.
LEMMA TotalLast ==
    ASSUME NEW w \in Seq(Nat), NEW v \in Seq(Nat), Len(w) = Len(v) + 1,
           \A i \in 1 .. Len(v) : v[i] = w[i]
    PROVE  Total(w) = Total(v) + w[Len(w)]
<1> DEFINE L == Len(v)
           x == L + 1
<1>1. /\ L \in Nat /\ DOMAIN w = 1 .. x /\ DOMAIN v = 1 .. L /\ x \in Nat \ {0}
      /\ L \in 0 .. L /\ ~(L >= x) /\ Len(w) = x
  OBVIOUS
<1>2. Weights(w) /\ Weights(v)
  BY DEF Weights
<1>3. ButAt(w, v, x, L) /\ Nth(w, x) = w[x]
  BY <1>1 DEF ButAt, Nth
<1>4. Total(w) = Upto(w)[x] /\ Total(v) = Upto(v)[L]
  BY <1>1, TotalIsUpto
<1>5. Upto(w)[L + 1] = Upto(w)[L] + Nth(w, L + 1)
  BY <1>1, <1>2, UptoIs DEF IsUpto
<1>6. Upto(w)[L] \in Nat /\ w[x] \in Nat
  <2>1. Upto(w) \in [Nat -> Nat]
    BY <1>2, UptoIs
  <2>2. x \in DOMAIN w
    BY <1>1
  <2>3. w[x] \in Nat
    BY <1>2, <2>2 DEF Weights
  <2> QED
    BY <1>1, <2>1, <2>3
<1> HIDE DEF L, x
<1>7. \A n \in 0 .. L : Upto(v)[n] = Upto(w)[n] + IF n >= x THEN Nth(v, x) - Nth(w, x) ELSE 0
  BY <1>1, <1>2, <1>3, UptoBut
<1>8. Upto(v)[L] = Upto(w)[L]
  BY <1>1, <1>6, <1>7
<1> QED
  BY <1>1, <1>3, <1>4, <1>5, <1>8 DEF x

\* A total is a number.
LEMMA TotalType ==
    ASSUME NEW w \in Seq(Nat)
    PROVE  /\ Total(w) \in Nat
           /\ w = <<>> => Total(w) = 0
<1>1. Weights(w) /\ Len(w) \in Nat
  BY DEF Weights
<1>2. Upto(w) \in [Nat -> Nat] /\ IsUpto(w, Upto(w))
  BY <1>1, UptoIs
<1> QED
  BY <1>1, <1>2, TotalIsUpto DEF IsUpto

-----------------------------------------------------------------------------
(***************************************************************************)
(* Trees.  What a container holds has sizes, and its own is their sum and  *)
(* one.                                                                    *)
(***************************************************************************)
IsKids(kids) == \E S : kids \in Seq(S) /\ \A kid \in S : Size(kid) \in Nat

IsContainer(node) ==
    /\ node = Array(node[2]) \/ node = Object(node[2])
    /\ IsKids(node[2])

Sizes(kids) == [i \in DOMAIN kids |-> Size(kids[i])]

\* The sizes of children are as many numbers as there are children.
LEMMA SizesType ==
    ASSUME NEW kids, IsKids(kids)
    PROVE  Sizes(kids) \in Seq(Nat) /\ Len(Sizes(kids)) = Len(kids) /\ Len(kids) \in Nat
<1>1. PICK S : kids \in Seq(S) /\ \A kid \in S : Size(kid) \in Nat
  BY DEF IsKids
<1>2. Len(kids) \in Nat /\ DOMAIN kids = 1 .. Len(kids)
  BY <1>1
<1>3. \A i \in 1 .. Len(kids) : Size(kids[i]) \in Nat
  BY <1>1
<1>4. Sizes(kids) = [i \in 1 .. Len(kids) |-> Size(kids[i])]
  BY <1>2 DEF Sizes
<1>5. Sizes(kids) \in [1 .. Len(kids) -> Nat]
  BY <1>3, <1>4
<1> QED
  BY <1>2, <1>5

\* Sum adds them up.
LEMMA SumIs ==
    ASSUME NEW kids, IsKids(kids)
    PROVE  Sum(kids) = Total(Sizes(kids)) /\ Sum(kids) \in Nat
BY SizesType, TotalType DEF Sum, Sizes

\* A container weighs one more than its children.
LEMMA SizeOf ==
    ASSUME NEW kids, IsKids(kids)
    PROVE  /\ Array(kids) # NoNode /\ Object(kids) # NoNode
           /\ Size(Array(kids)) = 1 + Sum(kids)
           /\ Size(Object(kids)) = 1 + Sum(kids)
           /\ IsContainer(Array(kids)) /\ IsContainer(Object(kids))
           /\ Array(kids)[1] = "array" /\ Object(kids)[1] = "object"
<1>1. Array(kids) # NoNode /\ Object(kids) # NoNode
  BY DEF Array, Object, NoNode
<1>2. Array(kids)[3] = 1 + Sum(kids) /\ Object(kids)[3] = 1 + Sum(kids)
  BY DEF Array, Object
<1>3. Array(kids)[2] = kids /\ Object(kids)[2] = kids
  BY DEF Array, Object
<1>4. Array(kids)[1] = "array" /\ Object(kids)[1] = "object"
  BY DEF Array, Object
<1>5. IsContainer(Array(kids)) /\ IsContainer(Object(kids))
  BY <1>3 DEF IsContainer
<1> QED
  BY <1>1, <1>2, <1>4, <1>5 DEF Size

\* The same of a container that is given as a whole.
LEMMA ContainerSize ==
    ASSUME NEW node, IsContainer(node)
    PROVE  /\ Size(node) = 1 + Sum(node[2]) /\ Sum(node[2]) \in Nat
           /\ node # NoNode /\ node[1] \in {"array", "object"}
<1>1. IsKids(node[2])
  BY DEF IsContainer
<1>2. node = Array(node[2]) \/ node = Object(node[2])
  BY DEF IsContainer
<1>3. ASSUME NEW kids, kids = node[2]
      PROVE  /\ Size(node) = 1 + Sum(kids) /\ Sum(kids) \in Nat
             /\ node # NoNode /\ node[1] \in {"array", "object"}
  BY <1>1, <1>2, <1>3, SizeOf, SumIs
<1> QED
  BY <1>3

\* An empty container has no children.
LEMMA NoKids == IsKids(<<>>) /\ Sum(<<>>) = 0
<1>1. ASSUME NEW S, S = {} PROVE <<>> \in Seq(S) /\ \A kid \in S : Size(kid) \in Nat
  BY <1>1
<1>2. IsKids(<<>>)
  <2>1. \E S : S = {}
    OBVIOUS
  <2> QED
    BY <1>1, <2>1 DEF IsKids
<1>3. Sizes(<<>>) = <<>>
  BY DEF Sizes
<1> QED
  BY <1>2, <1>3, SumIs, SizesType, TotalType

\* A child more.
LEMMA MoreKids ==
    ASSUME NEW kids, IsKids(kids), NEW kid, Size(kid) \in Nat
    PROVE  IsKids(Append(kids, kid)) /\ Sum(Append(kids, kid)) = Sum(kids) + Size(kid)
<1>1. PICK S : kids \in Seq(S) /\ \A k \in S : Size(k) \in Nat
  BY DEF IsKids
<1> DEFINE more == Append(kids, kid)
           R == S \union {kid}
<1>2. kids \in Seq(R) /\ kid \in R
  BY <1>1
<1>3. more \in Seq(R) /\ Len(more) = Len(kids) + 1 /\ Len(kids) \in Nat
  BY <1>2
<1>4. \A i \in 1 .. Len(kids) : more[i] = kids[i]
  BY <1>2
<1>5. more[Len(more)] = kid
  BY <1>2
<1>6. IsKids(more)
  BY <1>1, <1>3 DEF IsKids
<1> HIDE DEF more
<1>7. /\ Sizes(more) \in Seq(Nat) /\ Len(Sizes(more)) = Len(more)
      /\ Sizes(kids) \in Seq(Nat) /\ Len(Sizes(kids)) = Len(kids)
  BY <1>6, SizesType
<1>8. \A i \in 1 .. Len(Sizes(kids)) : Sizes(more)[i] = Sizes(kids)[i]
  BY <1>3, <1>4, <1>7 DEF Sizes
<1>9. Sizes(more)[Len(Sizes(more))] = Size(kid)
  BY <1>3, <1>5, <1>7 DEF Sizes
<1>10. Total(Sizes(more)) = Total(Sizes(kids)) + Size(kid)
  BY <1>3, <1>7, <1>8, <1>9, TotalLast
<1> QED
  BY <1>6, <1>10, SumIs DEF more

\* Other children in the place of some.
LEMMA OtherKids ==
    ASSUME NEW kids, IsKids(kids), NEW kid, Size(kid) \in Nat, NEW same
    PROVE  IsKids([i \in DOMAIN kids |-> IF i \in same THEN kid ELSE kids[i]])
<1>1. PICK S : kids \in Seq(S) /\ \A k \in S : Size(k) \in Nat
  BY DEF IsKids
<1> DEFINE new == [i \in DOMAIN kids |-> IF i \in same THEN kid ELSE kids[i]]
           R == S \union {kid}
<1>2. DOMAIN kids = 1 .. Len(kids) /\ Len(kids) \in Nat /\ \A i \in DOMAIN kids : kids[i] \in R
  BY <1>1
<1>3. new \in [1 .. Len(kids) -> R]
  BY <1>2
<1>4. new \in Seq(R)
  BY <1>2, <1>3
<1> QED
  BY <1>1, <1>4 DEF IsKids

\* j2ValueArrayAppend adds the size of the item.
LEMMA WithItemIs ==
    ASSUME NEW node, IsContainer(node), NEW item, Size(item) \in Nat
    PROVE  /\ IsContainer(WithItem(node, item))
           /\ WithItem(node, item)[1] = "array"
           /\ Size(WithItem(node, item)) = Size(node) + Size(item)
<1>1. IsKids(node[2]) /\ Size(node) = 1 + Sum(node[2]) /\ Sum(node[2]) \in Nat
  BY ContainerSize DEF IsContainer
<1>2. ASSUME NEW kids, kids = node[2]
      PROVE  /\ IsContainer(Array(Append(kids, item)))
             /\ Array(Append(kids, item))[1] = "array"
             /\ Size(Array(Append(kids, item))) = 1 + Sum(kids) + Size(item)
  <2>1. IsKids(Append(kids, item)) /\ Sum(Append(kids, item)) = Sum(kids) + Size(item)
    BY <1>1, <1>2, MoreKids
  <2>2. Sum(kids) \in Nat
    BY <1>1, <1>2
  <2> QED
    BY <2>1, <2>2, SizeOf
<1> QED
  BY <1>1, <1>2 DEF WithItem

\* j2ValueObjectItemSet gives an object again.
LEMMA WithMemberIs ==
    ASSUME NEW node, IsContainer(node), NEW name, NEW value, Size(value) \in Nat
    PROVE  /\ IsContainer(WithMember(node, name, value))
           /\ WithMember(node, name, value)[1] = "object"
<1> DEFINE mem == <<name, <<value>>, Size(value)>>
<1>1. mem # NoNode /\ Size(mem) = Size(value)
  BY DEF NoNode, Size
<1>2. IsKids(node[2])
  BY DEF IsContainer
<1>3. IsKids(Append(node[2], mem))
  BY <1>1, <1>2, MoreKids
<1>4. ASSUME NEW same
      PROVE  IsKids([i \in DOMAIN node[2] |-> IF i \in same THEN mem ELSE node[2][i]])
  BY <1>1, <1>2, OtherKids
<1>5. \E kids : IsKids(kids) /\ WithMember(node, name, value) = Object(kids)
  BY <1>3, <1>4 DEF WithMember
<1> QED
  BY <1>5, SizeOf

-----------------------------------------------------------------------------
(***************************************************************************)
(* The stack.  Load is what its containers and waiting names weigh.        *)
(***************************************************************************)
FrameOf(node, comma, name, nul) == [node |-> node, comma |-> comma, name |-> name, nul |-> nul]

IsFrame(f) ==
    /\ f = FrameOf(f.node, f.comma, f.name, f.nul)
    /\ IsContainer(f.node)
    /\ f.comma \in BOOLEAN /\ f.nul \in BOOLEAN
    /\ f.name \in Strings \union {"none"}
    /\ f.node[1] = "array" => f.name = "none"

IsStack(s) == \E S : s \in Seq(S) /\ \A f \in S : IsFrame(f)

Loads(s) == [i \in DOMAIN s |-> Weight(s[i])]
Load(s) == Total(Loads(s))

\* A frame weighs a number.
LEMMA WeightType ==
    ASSUME NEW f, IsFrame(f)
    PROVE  Weight(f) \in Nat /\ Size(f.node) \in Nat
BY ContainerSize DEF IsFrame, Weight

\* A stack is a sequence of frames, whose weights add up.
LEMMA StackIs ==
    ASSUME NEW s, IsStack(s)
    PROVE  /\ Len(s) \in Nat /\ DOMAIN s = 1 .. Len(s)
           /\ s # <<>> <=> Len(s) # 0
           /\ \A i \in DOMAIN s : IsFrame(s[i])
           /\ Loads(s) \in Seq(Nat) /\ Len(Loads(s)) = Len(s)
           /\ Load(s) \in Nat
<1>1. PICK S : s \in Seq(S) /\ \A f \in S : IsFrame(f)
  BY DEF IsStack
<1>2. /\ Len(s) \in Nat /\ DOMAIN s = 1 .. Len(s)
      /\ s # <<>> <=> Len(s) # 0
  BY <1>1
<1>3. \A i \in DOMAIN s : IsFrame(s[i])
  BY <1>1
<1>4. Loads(s) \in [1 .. Len(s) -> Nat]
  BY <1>2, <1>3, WeightType DEF Loads
<1>5. Loads(s) \in Seq(Nat) /\ Len(Loads(s)) = Len(s)
  BY <1>2, <1>4
<1>6. Load(s) \in Nat
  BY <1>5, TotalType DEF Load
<1> QED
  BY <1>2, <1>3, <1>5, <1>6

\* The empty stack.
LEMMA NoStack == IsStack(<<>>) /\ Load(<<>>) = 0
<1>1. ASSUME NEW S, S = {} PROVE <<>> \in Seq(S) /\ \A f \in S : IsFrame(f)
  BY <1>1
<1>2. IsStack(<<>>)
  <2>1. \E S : S = {}
    OBVIOUS
  <2> QED
    BY <1>1, <2>1 DEF IsStack
<1>3. Loads(<<>>) = <<>>
  BY DEF Loads
<1> QED
  BY <1>2, <1>3, StackIs, TotalType DEF Load

\* A frame is put on the stack ...
LEMMA StackAppend ==
    ASSUME NEW s, IsStack(s), NEW f, IsFrame(f)
    PROVE  /\ IsStack(Append(s, f)) /\ Append(s, f) # <<>>
           /\ Load(Append(s, f)) = Load(s) + Weight(f)
           /\ Append(s, f)[Len(Append(s, f))] = f
<1>1. PICK S : s \in Seq(S) /\ \A g \in S : IsFrame(g)
  BY DEF IsStack
<1> DEFINE more == Append(s, f)
           R == S \union {f}
<1>2. s \in Seq(R) /\ f \in R
  BY <1>1
<1>3. more \in Seq(R) /\ Len(more) = Len(s) + 1 /\ Len(s) \in Nat
  BY <1>2
<1>4. \A i \in 1 .. Len(s) : more[i] = s[i]
  BY <1>2
<1>5. more[Len(more)] = f
  BY <1>2
<1>6. IsStack(more)
  BY <1>1, <1>3 DEF IsStack
<1> HIDE DEF more
<1>7. /\ Loads(more) \in Seq(Nat) /\ Len(Loads(more)) = Len(more)
      /\ Loads(s) \in Seq(Nat) /\ Len(Loads(s)) = Len(s)
      /\ more # <<>> /\ DOMAIN more = 1 .. Len(more) /\ DOMAIN s = 1 .. Len(s)
  BY <1>3, <1>6, StackIs
<1>8. \A i \in 1 .. Len(Loads(s)) : Loads(more)[i] = Loads(s)[i]
  BY <1>3, <1>4, <1>7 DEF Loads
<1>9. Loads(more)[Len(Loads(more))] = Weight(f)
  BY <1>3, <1>5, <1>7 DEF Loads
<1>10. Total(Loads(more)) = Total(Loads(s)) + Weight(f)
  BY <1>3, <1>7, <1>8, <1>9, TotalLast
<1> QED
  BY <1>5, <1>6, <1>7, <1>10 DEF more, Load

\* ... taken from it ...
LEMMA StackFront ==
    ASSUME NEW s, IsStack(s), s # <<>>
    PROVE  /\ IsStack(Front(s))
           /\ Load(s) = Load(Front(s)) + Weight(s[Len(s)])
<1>1. PICK S : s \in Seq(S) /\ \A g \in S : IsFrame(g)
  BY DEF IsStack
<1> DEFINE less == Front(s)
<1>2. /\ less \in Seq(S) /\ Len(s) = Len(less) + 1 /\ Len(less) \in Nat
      /\ \A i \in 1 .. Len(less) : less[i] = s[i]
  BY <1>1, SMTT(30) DEF Front
<1>3. IsStack(less)
  BY <1>1, <1>2 DEF IsStack
<1> HIDE DEF less
<1>4. /\ Loads(less) \in Seq(Nat) /\ Len(Loads(less)) = Len(less)
      /\ Loads(s) \in Seq(Nat) /\ Len(Loads(s)) = Len(s)
      /\ DOMAIN less = 1 .. Len(less) /\ DOMAIN s = 1 .. Len(s)
  BY <1>3, StackIs
<1>5. \A i \in 1 .. Len(Loads(less)) : Loads(s)[i] = Loads(less)[i]
  BY <1>2, <1>4 DEF Loads
<1>6. Loads(s)[Len(Loads(s))] = Weight(s[Len(s)])
  BY <1>2, <1>4 DEF Loads
<1>7. Total(Loads(s)) = Total(Loads(less)) + Weight(s[Len(s)])
  BY <1>2, <1>4, <1>5, <1>6, TotalLast
<1> QED
  BY <1>3, <1>7 DEF less, Load

\* ... or replaced.
LEMMA StackTop ==
    ASSUME NEW s, IsStack(s), s # <<>>, NEW f, IsFrame(f)
    PROVE  LET new == [s EXCEPT ![Len(s)] = f]
           IN  /\ IsStack(new) /\ new # <<>>
               /\ Load(new) = Load(s) + Weight(f) - Weight(s[Len(s)])
               /\ new[Len(new)] = f
<1>1. PICK S : s \in Seq(S) /\ \A g \in S : IsFrame(g)
  BY DEF IsStack
<1> DEFINE new == [s EXCEPT ![Len(s)] = f]
           R == S \union {f}
<1>2. s \in Seq(R) /\ f \in R /\ Len(s) \in Nat \ {0} /\ DOMAIN s = 1 .. Len(s)
  BY <1>1
<1>3. new \in [1 .. Len(s) -> R]
  BY <1>2
<1>4. new \in Seq(R) /\ Len(new) = Len(s) /\ new[Len(s)] = f
  BY <1>2, <1>3
<1>5. \A i \in 1 .. Len(s) : i # Len(s) => new[i] = s[i]
  BY <1>2
<1>6. IsStack(new)
  BY <1>1, <1>4 DEF IsStack
<1> HIDE DEF new
<1>7. /\ Loads(new) \in Seq(Nat) /\ Len(Loads(new)) = Len(s)
      /\ Loads(s) \in Seq(Nat) /\ Len(Loads(s)) = Len(s)
      /\ new # <<>> /\ DOMAIN new = 1 .. Len(s) /\ DOMAIN s = 1 .. Len(s)
  BY <1>2, <1>4, <1>6, StackIs
<1>8. \A i \in 1 .. Len(s) : i # Len(s) => Loads(new)[i] = Loads(s)[i]
  BY <1>5, <1>7 DEF Loads
<1>9. /\ Loads(new)[Len(s)] = Weight(f) /\ Loads(s)[Len(s)] = Weight(s[Len(s)])
      /\ Len(s) \in 1 .. Len(s)
  BY <1>2, <1>4, <1>7 DEF Loads
<1>10. Total(Loads(new)) = Total(Loads(s)) + Loads(new)[Len(s)] - Loads(s)[Len(s)]
  BY <1>7, <1>8, <1>9, TotalBut
<1> QED
  BY <1>4, <1>6, <1>7, <1>9, <1>10 DEF new, Load

-----------------------------------------------------------------------------
(***************************************************************************)
(* Reading                                                                 *)
(***************************************************************************)
\* (The provers do not know that a string in quotes is in STRING.)
Symbols == (STRING \union {"num", "broken"}) \ EndMarks

TextType ==
    /\ text \in Seq(Symbols)
    /\ ending \in EndMarks

\* The first position from p on that has not P, when the last of n has not.
LEMMA FirstWithout ==
    ASSUME NEW n \in Nat, NEW p \in 1 .. n, NEW T, n \notin T
    PROVE  \E q \in p .. n : (\A r \in p .. q - 1 : r \in T) /\ q \notin T
<1> DEFINE U == { q \in p .. n : q \notin T }
<1>1. U \in SUBSET Nat /\ U # {}
  <2>1. n \in U
    OBVIOUS
  <2> QED
    BY <2>1
<1>2. PICK q \in U : \A r \in U : q <= r
  BY <1>1, LeastNumber
<1>3. ASSUME NEW r \in p .. q - 1, r \notin T PROVE FALSE
  <2>1. r \in U /\ ~(q <= r)
    BY <1>2, <1>3
  <2> QED
    BY <1>2, <2>1
<1> QED
  BY <1>2, <1>3

\* What is read is in the text, or the mark after it.
LEMMA AfterText ==
    ASSUME TextType
    PROVE  /\ Len(text) + 1 \in Nat
           /\ At(Len(text) + 1) \in EndMarks
           /\ \A r \in 1 .. Len(text) : At(r) = text[r] /\ text[r] \in Symbols \ EndMarks
BY DEF TextType, At, Symbols

\* skipSpaces finds the end of the spaces, which is there.
LEMMA skipSpacesIs ==
    ASSUME TextType, NEW p \in 1 .. Len(text) + 1
    PROVE  /\ skipSpaces(p) \in p .. Len(text) + 1
           /\ \A r \in p .. skipSpaces(p) - 1 : text[r] \in Spaces
           /\ At(skipSpaces(p)) \notin Spaces
<1> DEFINE n == Len(text) + 1
           T == { r \in 1 .. n : At(r) \in Spaces }
<1>1. n \in Nat /\ n \notin T /\ p \in 1 .. n
  BY AfterText DEF EndMarks, Spaces
<1> HIDE DEF T, n
<1>2. PICK q \in p .. n : (\A r \in p .. q - 1 : r \in T) /\ q \notin T
  BY <1>1, FirstWithout
<1>3. \A r \in p .. q - 1 : r \in 1 .. Len(text) /\ r \in T
  BY <1>1, <1>2 DEF n
<1>4. \A r \in p .. q - 1 : text[r] \in Spaces
  BY <1>3, AfterText DEF T
<1>5. At(q) \notin Spaces
  BY <1>1, <1>2 DEF T
<1> QED
  BY <1>2, <1>4, <1>5 DEF skipSpaces, n

\* extractNumber finds the end of the digits.
LEMMA NumberEndIs ==
    ASSUME TextType, NEW p \in 1 .. Len(text) + 1
    PROVE  /\ NumberEnd(p) \in p .. Len(text) + 1
           /\ \A r \in p .. NumberEnd(p) - 1 : text[r] = "num"
           /\ At(NumberEnd(p)) # "num"
<1> DEFINE n == Len(text) + 1
           T == { r \in 1 .. n : At(r) = "num" }
<1>1. n \in Nat /\ n \notin T /\ p \in 1 .. n
  BY AfterText DEF EndMarks
<1> HIDE DEF T, n
<1>2. PICK q \in p .. n : (\A r \in p .. q - 1 : r \in T) /\ q \notin T
  BY <1>1, FirstWithout
<1>3. \A r \in p .. q - 1 : r \in 1 .. Len(text) /\ r \in T
  BY <1>1, <1>2 DEF n
<1>4. \A r \in p .. q - 1 : text[r] = "num"
  BY <1>3, AfterText DEF T
<1>5. At(q) # "num"
  BY <1>1, <1>2 DEF T
<1> QED
  BY <1>2, <1>4, <1>5 DEF NumberEnd, n

\* The newlines the line counts when the next symbol is the one at p.
Counted(p) == { r \in 1 .. p - 1 : text[r] = "nl" /\ \A o \in 1 .. r : text[o] # "open" }

\* l is the line at p, and an open string before p ends the text.
Here(p, l) ==
    /\ p \in 1 .. Len(text) + 1
    /\ l = Cardinality(Counted(p))
    /\ \A r \in 1 .. p - 1 : text[r] = "open" => p = Len(text) + 1

\* There are no more newlines than symbols.
LEMMA CountedFinite ==
    ASSUME TextType, NEW p \in 1 .. Len(text) + 1
    PROVE  IsFiniteSet(Counted(p)) /\ Cardinality(Counted(p)) \in 0 .. Len(text)
<1>1. Len(text) \in Nat
  BY DEF TextType
<1>2. IsFiniteSet(1 .. Len(text)) /\ Cardinality(1 .. Len(text)) = Len(text)
  <2>1. 1 \in Int /\ Len(text) \in Int
    BY <1>1
  <2>2. Cardinality(1 .. Len(text)) = IF 1 > Len(text) THEN 0 ELSE Len(text) - 1 + 1
    BY <2>1, FS_Interval
  <2>3. IsFiniteSet(1 .. Len(text))
    BY <2>1, FS_Interval
  <2> QED
    BY <1>1, <2>2, <2>3
<1>3. Counted(p) \subseteq 1 .. Len(text)
  BY <1>1 DEF Counted
<1>4. Cardinality(Counted(p)) <= Cardinality(1 .. Len(text)) /\ IsFiniteSet(Counted(p))
  BY <1>2, <1>3, FS_Subset
<1>5. Cardinality(Counted(p)) \in Nat
  BY <1>4, FS_CardinalityType
<1> QED
  BY <1>1, <1>2, <1>4, <1>5

\* Past symbols that are neither newlines nor open strings.
LEMMA PastPlain ==
    ASSUME TextType, NEW p, NEW l, Here(p, l), NEW q \in p .. Len(text) + 1,
           \A r \in p .. q - 1 : text[r] \notin {"nl", "open"}
    PROVE  Here(q, l)
<1>1. Len(text) \in Nat /\ p \in 1 .. Len(text) + 1 /\ q \in 1 .. Len(text) + 1
  BY DEF TextType, Here
<1>2. Counted(q) = Counted(p)
  BY <1>1 DEF Counted
<1>3. \A r \in 1 .. q - 1 : text[r] = "open" => q = Len(text) + 1
  BY <1>1 DEF Here
<1> QED
  BY <1>1, <1>2, <1>3 DEF Here

\* Over spaces.
LEMMA OverSpaces ==
    ASSUME TextType, NEW p, NEW l, Here(p, l), NEW q \in p .. Len(text) + 1,
           \A r \in p .. q - 1 : text[r] \in Spaces
    PROVE  Here(q, l + Newlines(p, q))
<1> DEFINE N == { r \in p .. q - 1 : text[r] = "nl" }
<1>1. Len(text) \in Nat /\ p \in 1 .. Len(text) + 1 /\ q \in 1 .. Len(text) + 1
  BY DEF TextType, Here
<1>2. \A r \in p .. q - 1 : text[r] # "open"
  BY DEF Spaces
<1>3. \A r \in 1 .. q - 1 : text[r] = "open" => q = Len(text) + 1
  BY <1>1, <1>2 DEF Here
<1>4. Counted(q) = Counted(p) \union N
  <2>1. ASSUME p # q PROVE \A r \in 1 .. q - 1 : text[r] # "open"
    BY <1>1, <1>2, <2>1 DEF Here
  <2>2. ASSUME p = q PROVE N = {}
    BY <1>1, <2>2
  <2>3. CASE p = q
    BY <2>2, <2>3
  <2>4. CASE p # q
    <3>1. ASSUME NEW r, r \in Counted(q) PROVE r \in Counted(p) \union N
      BY <1>1, <3>1 DEF Counted
    <3>2. ASSUME NEW r, r \in Counted(p) \union N PROVE r \in Counted(q)
      BY <1>1, <2>1, <2>4, <3>2 DEF Counted
    <3> QED
      BY <3>1, <3>2
  <2> QED
    BY <2>3, <2>4
<1>5. Counted(p) \intersect N = {}
  BY <1>1 DEF Counted
<1>6. IsFiniteSet(Counted(p)) /\ Cardinality(Counted(p)) \in Nat
  BY <1>1, CountedFinite
<1>7. IsFiniteSet(N)
  <2>1. IsFiniteSet(p .. q - 1)
    BY <1>1, FS_Interval
  <2>2. N \subseteq p .. q - 1
    OBVIOUS
  <2> QED
    BY <2>1, <2>2, FS_Subset
<1>8. Cardinality(N) = Newlines(p, q) /\ Cardinality(N) \in Nat
  BY <1>7, FS_CardinalityType DEF Newlines
<1> HIDE DEF N
<1>9. Cardinality(Counted(p) \union N)
        = Cardinality(Counted(p)) + Cardinality(N) - Cardinality(Counted(p) \intersect N)
  BY <1>6, <1>7, FS_Union
<1>10. Cardinality({}) = 0
  BY FS_EmptySet
<1>11. Cardinality(Counted(q)) = l + Newlines(p, q)
  <2>1. Cardinality(Counted(q)) = Cardinality(Counted(p)) + Cardinality(N) - Cardinality({})
    BY <1>4, <1>5, <1>9
  <2>2. l = Cardinality(Counted(p))
    BY DEF Here
  <2> QED
    BY <1>6, <1>8, <1>10, <2>1, <2>2
<1> QED
  BY <1>1, <1>3, <1>11 DEF Here

\* Past a string that is not closed.
LEMMA PastOpen ==
    ASSUME TextType, NEW p, NEW l, Here(p, l), p <= Len(text), text[p] = "open"
    PROVE  Here(Len(text) + 1, l)
<1>1. Len(text) \in Nat /\ p \in 1 .. Len(text)
  BY DEF TextType, Here
<1>2. Counted(Len(text) + 1) = Counted(p)
  BY <1>1 DEF Counted
<1> QED
  BY <1>1, <1>2 DEF Here

-----------------------------------------------------------------------------
(***************************************************************************)
(* Where the parser is, and the line it counts.                            *)
(***************************************************************************)
PosInv == TextType /\ Here(pos, line)

\* A symbol that is read is in the text.
LEMMA PeekIs ==
    ASSUME PosInv
    PROVE  /\ Len(text) \in Nat /\ pos \in 1 .. Len(text) + 1
           /\ Peek \notin EndMarks => pos \in 1 .. Len(text) /\ Peek = text[pos]
BY AfterText DEF PosInv, Here, Peek, At, TextType

\* Past one symbol.
LEMMA PastOne ==
    ASSUME PosInv, Peek \notin EndMarks \union {"nl", "open"}
    PROVE  Here(pos + 1, line)
<1>1. Len(text) \in Nat /\ pos \in 1 .. Len(text) /\ Peek = text[pos]
  BY PeekIs
<1>2. pos + 1 \in pos .. Len(text) + 1 /\ \A r \in pos .. (pos + 1) - 1 : r = pos
  BY <1>1
<1>3. \A r \in pos .. (pos + 1) - 1 : text[r] \notin {"nl", "open"}
  BY <1>1, <1>2
<1> QED
  BY <1>2, <1>3, PastPlain DEF PosInv

\* skipSpaces counts what it skips.
LEMMA SkipsHere ==
    ASSUME PosInv
    PROVE  Here(skipSpaces(pos), line + Newlines(pos, skipSpaces(pos)))
<1>1. pos \in 1 .. Len(text) + 1
  BY PeekIs
<1>2. /\ skipSpaces(pos) \in pos .. Len(text) + 1
      /\ \A r \in pos .. skipSpaces(pos) - 1 : text[r] \in Spaces
  BY <1>1, skipSpacesIs DEF PosInv
<1> QED
  BY <1>2, OverSpaces DEF PosInv

\* No leaf's first symbol is the end, a newline or an open string.
LEMMA LeavesPlain == \A s \in Leaves : s \notin EndMarks \union {"nl", "open"} \union Spaces
BY StringsAssumption DEF Leaves, Spaces, EndMarks

\* Past a leaf.
LEMMA LeafHere ==
    ASSUME PosInv, Peek \in Leaves
    PROVE  Here(LeafEnd, line)
<1>1. CASE Peek = "num"
  <2>1. pos \in 1 .. Len(text) + 1
    BY PeekIs
  <2>2. /\ NumberEnd(pos) \in pos .. Len(text) + 1
        /\ \A r \in pos .. NumberEnd(pos) - 1 : text[r] = "num"
    BY <2>1, NumberEndIs DEF PosInv
  <2>3. \A r \in pos .. NumberEnd(pos) - 1 : text[r] \notin {"nl", "open"}
    BY <2>2
  <2>4. Here(NumberEnd(pos), line)
    BY <2>2, <2>3, PastPlain DEF PosInv
  <2> QED
    BY <1>1, <2>4 DEF LeafEnd
<1>2. CASE Peek # "num"
  BY <1>2, PastOne, LeavesPlain DEF LeafEnd
<1> QED
  BY <1>1, <1>2

\* A step is right about the place it leads to ...
LEMMA PosStays ==
    ASSUME PosInv, text' = text, ending' = ending, Here(pos', line')
    PROVE  PosInv'
BY DEF PosInv, TextType, Here, Counted

\* ... or does not move.
LEMMA PosSame ==
    ASSUME PosInv, pos' = pos, line' = line, text' = text, ending' = ending
    PROVE  PosInv'
BY PosStays DEF PosInv

\* Every step keeps the place and the line.
LEMMA PosStep == PosInv /\ [Next]_vars => PosInv'
<1> SUFFICES ASSUME PosInv, [Next]_vars PROVE PosInv'
  OBVIOUS
<1>1. CASE SkipSpace
  <2>1. Peek \in Spaces /\ Peek \notin EndMarks
    BY <1>1 DEF SkipSpace, Spaces, EndMarks
  <2>2. Len(text) \in Nat /\ pos \in 1 .. Len(text) /\ Peek = text[pos]
    BY <2>1, PeekIs
  <2>3. pos + 1 \in pos .. Len(text) + 1 /\ \A r \in pos .. (pos + 1) - 1 : r = pos
    BY <2>2
  <2>4. \A r \in pos .. (pos + 1) - 1 : text[r] \in Spaces
    BY <2>1, <2>2, <2>3
  <2>5. Here(pos + 1, line + Newlines(pos, pos + 1))
    BY <2>3, <2>4, OverSpaces DEF PosInv
  <2> QED
    BY <1>1, <2>5, PosStays DEF SkipSpace, input
<1>2. CASE ParseLeaf
  BY <1>2, LeafHere, PosStays DEF ParseLeaf, input
<1>3. CASE ParseLeafNoMemory
  BY <1>3, LeafHere, PosStays DEF ParseLeafNoMemory, input
<1>4. CASE ParseLeafFails
  <2>1. line' = line /\ text' = text /\ ending' = ending
    BY <1>4 DEF ParseLeafFails, input
  <2>2. ASSUME Peek \in {"true", "broken"}, pos' = pos + 1 PROVE Here(pos', line)
    BY <2>2, PastOne DEF EndMarks
  <2>3. ASSUME Peek = "open", pos' = Len(text) + 1 PROVE Here(pos', line)
    <3>1. pos \in 1 .. Len(text) /\ Peek = text[pos]
      BY <2>3, PeekIs DEF EndMarks
    <3> QED
      BY <2>3, <3>1, PastOpen DEF PosInv
  <2>4. ASSUME pos' = pos PROVE Here(pos', line)
    BY <2>4 DEF PosInv
  <2>5. Here(pos', line)
    BY <1>4, <2>2, <2>3, <2>4 DEF ParseLeafFails
  <2> QED
    BY <2>1, <2>5, PosStays
<1>5. CASE OpenContainer
  <2>1. Peek \notin EndMarks \union {"nl", "open"}
    BY <1>5 DEF OpenContainer, EndMarks
  <2> QED
    BY <1>5, <2>1, PastOne, PosStays DEF OpenContainer, input
<1>6. CASE CloseContainer
  <2>1. Peek \notin EndMarks \union {"nl", "open"}
    BY <1>6 DEF CloseContainer, EndMarks
  <2> QED
    BY <1>6, <2>1, PastOne, PosStays DEF CloseContainer, input
<1>7. CASE Comma
  <2>1. Peek \notin EndMarks \union {"nl", "open"}
    BY <1>7 DEF Comma, EndMarks
  <2> QED
    BY <1>7, <2>1, PastOne, PosStays DEF Comma, input
<1>8. CASE ReturnItem
  BY <1>8, SkipsHere, PosStays DEF ReturnItem, AfterChild, input
<1>9. CASE ArrayEnds
  BY <1>9, SkipsHere, PosStays DEF ArrayEnds, input
<1>10. CASE ReturnMember
  BY <1>10, SkipsHere, PosStays DEF ReturnMember, AfterChild, input
<1>11. CASE ReturnName
  <2> DEFINE colon == skipSpaces(pos)
             l == line + Newlines(pos, colon)
  <2>1. text' = text /\ ending' = ending
    BY <1>11 DEF ReturnName, input
  <2>2. \/ pos' = colon /\ line' = l
        \/ pos' = colon + 1 /\ line' = l /\ At(colon) = ":"
        \/ pos' = pos /\ line' = line
    BY <1>11 DEF ReturnName
  <2>3. Here(colon, l)
    BY SkipsHere
  <2> HIDE DEF colon, l
  <2>4. ASSUME At(colon) = ":" PROVE Here(colon + 1, l)
    <3>1. Len(text) \in Nat /\ colon \in 1 .. Len(text) + 1
      BY <2>3, PeekIs DEF Here
    <3>2. colon \in 1 .. Len(text) /\ text[colon] = ":"
      BY <2>4, <3>1, AfterText DEF EndMarks, PosInv
    <3>3. colon + 1 \in colon .. Len(text) + 1 /\ \A r \in colon .. (colon + 1) - 1 : r = colon
      BY <3>1, <3>2
    <3>4. \A r \in colon .. (colon + 1) - 1 : text[r] \notin {"nl", "open"}
      BY <3>2, <3>3
    <3> QED
      BY <2>3, <3>3, <3>4, PastPlain DEF PosInv
  <2>5. Here(pos', line')
    BY <2>2, <2>3, <2>4 DEF PosInv
  <2> QED
    BY <2>1, <2>5, PosStays
<1>12. CASE \/ OpenNoMemory \/ NextChild \/ LoopFails \/ AppendNoMemory
            \/ MemberFails \/ Finish \/ UNCHANGED vars
  <2>1. pos' = pos /\ line' = line /\ text' = text /\ ending' = ending
    BY <1>12 DEF OpenNoMemory, NextChild, LoopFails, AppendNoMemory, MemberFails, Finish,
                 vars, input
  <2> QED
    BY <2>1, PosSame
<1> QED
  BY <1>1, <1>2, <1>3, <1>4, <1>5, <1>6, <1>7, <1>8, <1>9, <1>10, <1>11, <1>12 DEF Next

\* They are right at the beginning.
LEMMA PosInit == Init => PosInv
<1> SUFFICES ASSUME Init PROVE PosInv
  OBVIOUS
<1>1. TextType
  <2>1. text \in Seq(STRING \ EndMarks) /\ STRING \ EndMarks \subseteq Symbols
    BY TextsAssumption DEF Init, Symbols
  <2>2. text \in Seq(Symbols)
    BY <2>1
  <2> QED
    BY <2>2, EndsAssumption DEF Init, TextType
<1>2. Len(text) \in Nat /\ pos = 1 /\ line = 0
  BY <1>1 DEF Init, TextType
<1>3. Counted(1) = {}
  BY DEF Counted
<1>4. Here(pos, line)
  BY <1>2, <1>3, FS_EmptySet DEF Here
<1> QED
  BY <1>1, <1>4 DEF PosInv

\* Theorem: for every set of texts, the line handed to the error callback is
\* the number of newlines before the place it is called at, outside of an open
\* string (skipSpaces and the loop of j2ParseFuncSTD count them between them).
THEOREM LineTheorem == Spec => []LineIsExact
<1>1. PosInv => LineIsExact
  BY DEF PosInv, Here, Counted, LineIsExact
<1> QED
  BY <1>1, PosInit, PosStep, PTL DEF Spec

-----------------------------------------------------------------------------
(***************************************************************************)
(* What is allocated.                                                      *)
(***************************************************************************)

\* Every J2VAL but the item of a failed append is in a tree the parser knows:
\* lv are allocated.
Accounted(s, v, lv, fl) ==
    /\ lv \in Int
    /\ lv >= Size(v) + Load(s)
    /\ "append" \notin fl => lv = Size(v) + Load(s)

\* What a call can return in v; a name weighs one.
IsValue(v) ==
    /\ Size(v) \in Nat
    /\ v # NoNode /\ v[1] \in Strings => Size(v) = 1

\* The call's place p and what goes with it.
Placed(s, p, v) ==
    /\ p \in {"value", "loop", "return", "done"}
    /\ p \in {"value", "loop"} => v = NoNode
    /\ p = "loop" => s # <<>> /\ s[Len(s)].name = "none"

\* Zero is returned for a reason.
Explained(p, v, rep, fl) ==
    p \in {"return", "done"} /\ v = NoNode /\ fl = {} => rep

\* The inductive invariant about the trees.
TreeInv ==
    /\ IsStack(stack)
    /\ IsValue(val)
    /\ Placed(stack, pc, val)
    /\ Accounted(stack, val, live, failed)
    /\ Explained(pc, val, reported, failed)
    /\ reported \in BOOLEAN /\ failed \subseteq MayFail

\* Zero weighs nothing.
LEMMA NoValue == Size(NoNode) = 0 /\ IsValue(NoNode)
BY DEF Size, IsValue

\* The frame of a container.
LEMMA FrameIs ==
    ASSUME NEW node, NEW comma, NEW name, NEW nul,
           IsContainer(node), comma \in BOOLEAN, nul \in BOOLEAN,
           name \in Strings \union {"none"}, node[1] = "array" => name = "none"
    PROVE  /\ IsFrame(FrameOf(node, comma, name, nul))
           /\ FrameOf(node, comma, name, nul).name = name
           /\ Weight(FrameOf(node, comma, name, nul)) = Size(node) + IF name = "none" THEN 0 ELSE 1
BY DEF IsFrame, FrameOf, Weight

\* The frame a container goes on with after a child.
LEMMA NextFrame ==
    ASSUME NEW node, IsContainer(node), Size(node) \in Nat, NEW nul \in BOOLEAN
    PROVE  /\ IsFrame(FrameOf(node, TRUE, "none", nul))
           /\ FrameOf(node, TRUE, "none", nul).name = "none"
           /\ Weight(FrameOf(node, TRUE, "none", nul)) = Size(node)
BY DEF IsFrame, FrameOf, Weight

\* The changes the parser makes to a frame.
LEMMA FrameChanges ==
    ASSUME NEW f, IsFrame(f), NEW m, NEW n
    PROVE  /\ [f EXCEPT !.comma = FALSE, !.nul = FALSE] = FrameOf(f.node, FALSE, f.name, FALSE)
           /\ [f EXCEPT !.nul = n] = FrameOf(f.node, f.comma, f.name, n)
           /\ [f EXCEPT !.name = n] = FrameOf(f.node, f.comma, n, f.nul)
           /\ [f EXCEPT !.comma = TRUE] = FrameOf(f.node, TRUE, f.name, f.nul)
           /\ [[f EXCEPT !.node = m] EXCEPT !.comma = TRUE] = FrameOf(m, TRUE, f.name, f.nul)
           /\ [[f EXCEPT !.node = m, !.name = "none"] EXCEPT !.comma = TRUE]
                = FrameOf(m, TRUE, "none", f.nul)
<1>1. PICK node, comma, name, nul : f = FrameOf(node, comma, name, nul)
  BY DEF IsFrame
<1>2. f.node = node /\ f.comma = comma /\ f.name = name /\ f.nul = nul
  BY <1>1 DEF FrameOf
<1>3. ASSUME NEW g, NEW a, NEW b, NEW c, NEW d, g = FrameOf(a, b, c, d)
      PROVE  /\ \A x : [g EXCEPT !.node = x] = FrameOf(x, b, c, d)
             /\ \A x : [g EXCEPT !.comma = x] = FrameOf(a, x, c, d)
             /\ \A x : [g EXCEPT !.name = x] = FrameOf(a, b, x, d)
             /\ \A x : [g EXCEPT !.nul = x] = FrameOf(a, b, c, x)
  <2>1. \A x : [g EXCEPT !.node = x] = FrameOf(x, b, c, d)
    BY <1>3 DEF FrameOf
  <2>2. \A x : [g EXCEPT !.comma = x] = FrameOf(a, x, c, d)
    BY <1>3 DEF FrameOf
  <2>3. \A x : [g EXCEPT !.name = x] = FrameOf(a, b, x, d)
    BY <1>3 DEF FrameOf
  <2>4. \A x : [g EXCEPT !.nul = x] = FrameOf(a, b, c, x)
    BY <1>3 DEF FrameOf
  <2> QED
    BY <2>1, <2>2, <2>3, <2>4
<1>4. /\ \A x : [f EXCEPT !.node = x] = FrameOf(x, comma, name, nul)
      /\ \A x : [f EXCEPT !.comma = x] = FrameOf(node, x, name, nul)
      /\ \A x : [f EXCEPT !.name = x] = FrameOf(node, comma, x, nul)
      /\ \A x : [f EXCEPT !.nul = x] = FrameOf(node, comma, name, x)
  BY <1>1, <1>3
<1>5. [f EXCEPT !.comma = FALSE, !.nul = FALSE] = FrameOf(node, FALSE, name, FALSE)
  <2>1. \A x, y : [f EXCEPT !.comma = x, !.nul = y] = [[f EXCEPT !.comma = x] EXCEPT !.nul = y]
    OBVIOUS
  <2>2. \A x, y : [FrameOf(node, x, name, nul) EXCEPT !.nul = y] = FrameOf(node, x, name, y)
    BY <1>3
  <2>3. ASSUME NEW x, NEW y PROVE [f EXCEPT !.comma = x, !.nul = y] = FrameOf(node, x, name, y)
    <3>1. [f EXCEPT !.comma = x] = FrameOf(node, x, name, nul)
      BY <1>4
    <3>2. [f EXCEPT !.comma = x, !.nul = y] = [[f EXCEPT !.comma = x] EXCEPT !.nul = y]
      BY <2>1
    <3>3. [FrameOf(node, x, name, nul) EXCEPT !.nul = y] = FrameOf(node, x, name, y)
      BY <2>2
    <3> QED
      BY <3>1, <3>2, <3>3
  <2> QED
    BY <2>3
<1>6. [[f EXCEPT !.node = m] EXCEPT !.comma = TRUE] = FrameOf(m, TRUE, name, nul)
  <2>1. \A x : [FrameOf(m, comma, name, nul) EXCEPT !.comma = x] = FrameOf(m, x, name, nul)
    BY <1>3
  <2>2. \A x : [[f EXCEPT !.node = m] EXCEPT !.comma = x] = FrameOf(m, x, name, nul)
    BY <1>4, <2>1
  <2> QED
    BY <2>2
<1>7. [[f EXCEPT !.node = m, !.name = "none"] EXCEPT !.comma = TRUE] = FrameOf(m, TRUE, "none", nul)
  <2>1. [f EXCEPT !.node = m, !.name = "none"] = [[f EXCEPT !.node = m] EXCEPT !.name = "none"]
    OBVIOUS
  <2>2. \A x : [FrameOf(m, comma, name, nul) EXCEPT !.name = x] = FrameOf(m, comma, x, nul)
    BY <1>3
  <2>3. [f EXCEPT !.node = m, !.name = "none"] = FrameOf(m, comma, "none", nul)
    BY <1>4, <2>1, <2>2
  <2>4. \A x : [FrameOf(m, comma, "none", nul) EXCEPT !.comma = x] = FrameOf(m, x, "none", nul)
    BY <1>3
  <2>5. \A x : [[f EXCEPT !.node = m, !.name = "none"] EXCEPT !.comma = x] = FrameOf(m, x, "none", nul)
    BY <2>3, <2>4
  <2> QED
    BY <2>5
<1> QED
  <2>1. [f EXCEPT !.comma = TRUE] = FrameOf(node, TRUE, name, nul)
    BY <1>4
  <2> QED
    BY <1>2, <1>4, <1>5, <1>6, <1>7, <2>1

\* The innermost container, and the stack under it.
LEMMA TopIs ==
    ASSUME TreeInv, stack # <<>>
    PROVE  /\ IsFrame(Top) /\ IsStack(Front(stack)) /\ Load(Front(stack)) \in Nat
           /\ Load(stack) = Load(Front(stack)) + Weight(Top)
           /\ Weight(Top) = Size(Top.node) + IF Top.name = "none" THEN 0 ELSE 1
           /\ Size(Top.node) \in Nat /\ Weight(Top) \in Nat
<1>1. IsStack(stack)
  BY DEF TreeInv
<1>2. Len(stack) \in DOMAIN stack
  BY <1>1, StackIs
<1>3. IsFrame(Top)
  BY <1>1, <1>2, StackIs DEF Top
<1>4. Weight(Top) \in Nat /\ Size(Top.node) \in Nat
  BY <1>3, WeightType
<1>5. IsStack(Front(stack)) /\ Load(stack) = Load(Front(stack)) + Weight(Top)
  BY <1>1, StackFront DEF Top
<1>6. Load(Front(stack)) \in Nat
  BY <1>5, StackIs
<1> QED
  BY <1>3, <1>4, <1>5, <1>6 DEF Weight

\* A call returns at the beginning of a value.
LEMMA ReturnKeeps ==
    ASSUME TreeInv, pc = "value", stack' = stack, pc' = "return", IsValue(val'),
           live' = live + Size(val'), failed' \in SUBSET MayFail, failed \subseteq failed',
           reported' \in BOOLEAN, Explained("return", val', reported', failed')
    PROVE  TreeInv'
<1>1. Load(stack) \in Nat /\ val = NoNode /\ Size(val) = 0 /\ Size(val') \in Nat
  BY StackIs, NoValue DEF TreeInv, Placed, IsValue
<1>2. Accounted(stack, val, live, failed)
  BY DEF TreeInv
<1>3. Accounted(stack, val', live', failed')
  BY <1>1, <1>2 DEF Accounted
<1>4. Placed(stack, "return", val')
  BY DEF Placed
<1> QED
  BY <1>3, <1>4 DEF TreeInv

\* What a container that fails must clean up besides itself.
Held == Size(val) + IF Top.name = "none" THEN 0 ELSE 1

\* A container that fails is freed with all it must clean up.
LEMMA FailKeeps ==
    ASSUME TreeInv, stack # <<>>, NEW extra \in Nat, FailContainer(extra),
           failed' \in SUBSET MayFail, failed \subseteq failed',
           extra <= Held, "append" \notin failed' => extra = Held
    PROVE  TreeInv'
<1>1. /\ IsStack(Front(stack)) /\ Load(Front(stack)) \in Nat
      /\ Load(stack) = Load(Front(stack)) + Weight(Top)
      /\ Weight(Top) = Size(Top.node) + IF Top.name = "none" THEN 0 ELSE 1
      /\ Size(Top.node) \in Nat
  BY TopIs
<1>2. Size(val) \in Nat /\ Accounted(stack, val, live, failed)
  BY DEF TreeInv, IsValue
<1>3. /\ stack' = Front(stack) /\ live' = live - Size(Top.node) - extra
      /\ pc' = "return" /\ val' = NoNode /\ reported' = TRUE
  BY DEF FailContainer, ReturnError, Return
<1>4. Accounted(Front(stack), NoNode, live', failed')
  <2>1. Size(NoNode) = 0
    BY NoValue
  <2> DEFINE named == IF Top.name = "none" THEN 0 ELSE 1
             below == Load(Front(stack))
  <2>2. named \in Nat
    OBVIOUS
  <2>3. Held = Size(val) + named
    BY DEF Held
  <2> HIDE DEF named
  <2>4. Load(stack) = below + (Size(Top.node) + named) /\ below \in Nat
    BY <1>1 DEF named
  <2> HIDE DEF below
  <2>5. /\ live \in Int /\ live >= Size(val) + Load(stack)
        /\ "append" \notin failed => live = Size(val) + Load(stack)
    BY <1>2 DEF Accounted
  <2>6. /\ Size(val) \in Nat /\ Size(Top.node) \in Nat /\ extra \in Nat
        /\ live' = live - Size(Top.node) - extra /\ extra <= Held
    BY <1>1, <1>2, <1>3
  <2>7. live' \in Int /\ live' >= below
    BY ONLY <2>2, <2>3, <2>4, <2>5, <2>6
  <2>8. "append" \notin failed' => live = Size(val) + Load(stack) /\ extra = Held
    BY <2>5
  <2>9. "append" \notin failed' => live' = below
    BY ONLY <2>2, <2>3, <2>4, <2>6, <2>8
  <2> QED
    BY <2>1, <2>4, <2>7, <2>9 DEF Accounted, below
<1>5. Placed(Front(stack), "return", NoNode) /\ Explained("return", NoNode, TRUE, failed')
  BY DEF Placed, Explained
<1> QED
  BY <1>1, <1>3, <1>4, <1>5, NoValue DEF TreeInv

\* The innermost container takes what was returned, or goes on without.
LEMMA TakeKeeps ==
    ASSUME TreeInv, stack # <<>>, NEW frame, IsFrame(frame), stack' = WithTop(frame),
           val' = NoNode, pc' \in {"value", "loop"}, pc' = "loop" => frame.name = "none",
           live' = live + Weight(frame) - Weight(Top) - Size(val),
           failed' = failed, reported' = reported
    PROVE  TreeInv'
<1>1. /\ IsStack(stack') /\ stack' # <<>> /\ stack'[Len(stack')] = frame
      /\ Load(stack') = Load(stack) + Weight(frame) - Weight(Top)
  BY StackTop DEF TreeInv, WithTop, Top
<1>2. /\ Weight(frame) \in Nat /\ Weight(Top) \in Nat /\ Load(stack) \in Nat
      /\ Size(val) \in Nat /\ Accounted(stack, val, live, failed) /\ Size(NoNode) = 0
  BY WeightType, TopIs, StackIs, NoValue DEF TreeInv, IsValue
<1>3. Accounted(stack', NoNode, live', failed')
  BY <1>1, <1>2 DEF Accounted
<1>4. Placed(stack', pc', NoNode) /\ Explained(pc', NoNode, reported', failed')
  BY <1>1 DEF Placed, Explained
<1> QED
  BY <1>1, <1>3, <1>4, NoValue DEF TreeInv

\* A leaf weighs one.
LEMMA LeafIs == \A s : Leaf(s) # NoNode /\ Size(Leaf(s)) = 1 /\ IsValue(Leaf(s))
BY DEF Leaf, NoNode, Size, IsValue

\* A leaf, or none.
LEMMA LeafStep ==
    ASSUME TreeInv, ParseLeaf \/ ParseLeafNoMemory \/ ParseLeafFails \/ OpenNoMemory
    PROVE  TreeInv'
<1>1. /\ live \in Int /\ reported \in BOOLEAN /\ failed \subseteq MayFail
      /\ failed \subseteq failed
  BY DEF TreeInv, Accounted
<1>2. pc = "value" /\ stack' = stack /\ pc' = "return"
  BY DEF ParseLeaf, ParseLeafNoMemory, ParseLeafFails, OpenNoMemory, Return, ReturnError
<1>3. CASE ParseLeaf
  <2>1. /\ val' = Leaf(Peek) /\ live' = live + 1 /\ reported' = reported /\ failed' = failed
    BY <1>3 DEF ParseLeaf, Return
  <2>2. IsValue(val') /\ live' = live + Size(val') /\ Explained("return", val', reported', failed')
    BY <1>1, <2>1, LeafIs DEF Explained
  <2> QED
    BY <1>1, <1>2, <2>1, <2>2, ReturnKeeps
<1>4. CASE ParseLeafNoMemory
  <2>1. /\ val' = NoNode /\ live' = live /\ reported' = reported
        /\ failed' = failed \union {"leaf"} /\ "leaf" \in MayFail
    BY <1>4 DEF ParseLeafNoMemory, Return
  <2>2. IsValue(val') /\ live' = live + Size(val') /\ Explained("return", val', reported', failed')
    BY <1>1, <2>1, NoValue DEF Explained
  <2>3. failed' \in SUBSET MayFail /\ failed \subseteq failed'
    BY <1>1, <2>1
  <2> QED
    BY <1>1, <1>2, <2>1, <2>2, <2>3, ReturnKeeps
<1>5. CASE ParseLeafFails \/ OpenNoMemory
  <2>1. /\ val' = NoNode /\ live' = live /\ reported' = TRUE
        /\ failed \subseteq failed' /\ failed' \in SUBSET MayFail
    BY <1>1, <1>5 DEF ParseLeafFails, OpenNoMemory, ReturnError, Return
  <2>2. IsValue(val') /\ live' = live + Size(val') /\ Explained("return", val', reported', failed')
    BY <1>1, <2>1, NoValue DEF Explained
  <2> QED
    BY <1>2, <2>1, <2>2, ReturnKeeps
<1> QED
  BY <1>3, <1>4, <1>5

\* A container is begun.
LEMMA OpenStep ==
    ASSUME TreeInv, OpenContainer
    PROVE  TreeInv'
<1> DEFINE node == IF Peek = "[" THEN Array(<<>>) ELSE Object(<<>>)
<1>1. IsContainer(node) /\ Size(node) = 1
  BY NoKids, SizeOf
<1> HIDE DEF node
<1> DEFINE frame == FrameOf(node, FALSE, "none", FALSE)
<1>2. IsFrame(frame) /\ Weight(frame) = 1 /\ frame.name = "none"
  BY <1>1 DEF IsFrame, FrameOf, Weight
<1>3. stack' = Append(stack, frame)
  BY DEF OpenContainer, Frame, FrameOf, node
<1>4. /\ pc = "value" /\ pc' = "loop" /\ val' = val
      /\ reported' = reported /\ live' = live + 1 /\ failed' = failed
  BY DEF OpenContainer
<1> HIDE DEF frame
<1>5. IsStack(stack) /\ Load(stack) \in Nat /\ Size(val) \in Nat /\ val = NoNode
  BY <1>4, StackIs DEF TreeInv, IsValue, Placed
<1>6. /\ IsStack(stack') /\ stack' # <<>> /\ stack'[Len(stack')] = frame
      /\ Load(stack') = Load(stack) + 1
  BY <1>2, <1>3, <1>5, StackAppend
<1>7. Accounted(stack', val', live', failed')
  BY <1>4, <1>5, <1>6 DEF TreeInv, Accounted
<1>8. Placed(stack', pc', val') /\ Explained(pc', val', reported', failed')
  BY <1>2, <1>4, <1>5, <1>6 DEF Placed, Explained
<1> QED
  BY <1>4, <1>6, <1>7, <1>8 DEF TreeInv

\* A container is returned.
LEMMA CloseStep ==
    ASSUME TreeInv, CloseContainer
    PROVE  TreeInv'
<1>1. /\ pc = "loop" /\ stack' = Front(stack) /\ pc' = "return" /\ val' = Top.node
      /\ reported' = reported /\ live' = live /\ failed' = failed
  BY DEF CloseContainer, Return
<1>2. stack # <<>> /\ Top.name = "none" /\ val = NoNode /\ Size(val) = 0
  BY <1>1, NoValue DEF TreeInv, Placed, Top
<1>3. /\ IsFrame(Top) /\ IsStack(Front(stack)) /\ Load(Front(stack)) \in Nat
      /\ Load(stack) = Load(Front(stack)) + Size(Top.node)
      /\ Size(Top.node) \in Nat
  BY <1>2, TopIs
<1>4. Top.node # NoNode /\ Top.node[1] \notin Strings
  BY <1>3, ContainerSize, StringsAssumption DEF IsFrame
<1>5. IsValue(val')
  BY <1>1, <1>3, <1>4 DEF IsValue
<1>6. Accounted(stack', val', live', failed')
  BY <1>1, <1>2, <1>3 DEF TreeInv, Accounted
<1>7. Placed(stack', pc', val') /\ Explained(pc', val', reported', failed')
  BY <1>1, <1>4 DEF Placed, Explained
<1> QED
  BY <1>1, <1>3, <1>5, <1>6, <1>7 DEF TreeInv

\* The loop of a container goes on to a child.
LEMMA ChildStep ==
    ASSUME TreeInv, Comma \/ NextChild
    PROVE  TreeInv'
<1>1. /\ pc = "loop" /\ pc' = "value" /\ val' = val
      /\ reported' = reported /\ live' = live /\ failed' = failed
  BY DEF Comma, NextChild
<1>2. stack # <<>> /\ val = NoNode /\ Size(val) = 0
  BY <1>1, NoValue DEF TreeInv, Placed
<1>3. IsFrame(Top) /\ Weight(Top) \in Nat /\ live \in Int
  BY <1>2, TopIs DEF TreeInv, Accounted
<1>4. \E comma, nul \in BOOLEAN : stack' = WithTop(FrameOf(Top.node, comma, Top.name, nul))
  <2>1. CASE Comma
    <3>1. stack' = WithTop([Top EXCEPT !.comma = FALSE, !.nul = FALSE])
      BY <2>1 DEF Comma
    <3>2. [Top EXCEPT !.comma = FALSE, !.nul = FALSE] = FrameOf(Top.node, FALSE, Top.name, FALSE)
      BY <1>3, FrameChanges
    <3> QED
      BY <3>1, <3>2
  <2>2. CASE NextChild
    <3>1. stack' = WithTop([Top EXCEPT !.nul = (Peek = "NUL")])
      BY <2>2 DEF NextChild
    <3>2. \A n : [Top EXCEPT !.nul = n] = FrameOf(Top.node, Top.comma, Top.name, n)
      BY <1>3, FrameChanges
    <3>3. Top.comma \in BOOLEAN /\ (Peek = "NUL") \in BOOLEAN
      BY <1>3 DEF IsFrame
    <3> QED
      BY <3>1, <3>2, <3>3
  <2> QED
    BY <2>1, <2>2
<1>5. PICK comma \in BOOLEAN, nul \in BOOLEAN : stack' = WithTop(FrameOf(Top.node, comma, Top.name, nul))
  BY <1>4
<1> DEFINE frame == FrameOf(Top.node, comma, Top.name, nul)
<1>6. IsFrame(frame) /\ Weight(frame) = Weight(Top)
  BY <1>3, FrameIs DEF IsFrame, Weight
<1> HIDE DEF frame
<1>7. stack' = WithTop(frame)
  BY <1>5 DEF frame
<1> QED
  BY <1>1, <1>2, <1>3, <1>6, <1>7, TakeKeeps

\* A container fails between its children.
LEMMA LoopFailsStep ==
    ASSUME TreeInv, LoopFails
    PROVE  TreeInv'
<1>1. pc = "loop" /\ FailContainer(0) /\ failed' = failed
  BY DEF LoopFails
<1>2. stack # <<>> /\ Held = 0 /\ 0 \in Nat /\ 0 <= Held
  BY <1>1, NoValue DEF TreeInv, Placed, Top, Held
<1>3. failed' \in SUBSET MayFail /\ failed \subseteq failed'
  BY <1>1 DEF TreeInv
<1> QED
  BY <1>1, <1>2, <1>3, FailKeeps

\* A call returned to the array that made it.
LEMMA ItemStep ==
    ASSUME TreeInv, ReturnItem
    PROVE  TreeInv'
<1>1. /\ pc = "return" /\ stack # <<>> /\ Top.node[1] = "array" /\ pc' = "loop" /\ val' = NoNode
      /\ reported' = reported /\ live' = live /\ failed' = failed
  BY DEF ReturnItem, AfterChild, InArray
<1>2. /\ IsFrame(Top) /\ Size(Top.node) \in Nat /\ live \in Int /\ Size(val) \in Nat
      /\ IsContainer(Top.node) /\ Top.name = "none" /\ Weight(Top) = Size(Top.node)
      /\ Top.nul \in BOOLEAN
  BY <1>1, TopIs DEF TreeInv, Accounted, IsValue, IsFrame
<1> DEFINE node == IF val = NoNode THEN Top.node ELSE WithItem(Top.node, val)
           frame == FrameOf(node, TRUE, "none", Top.nul)
<1>3. IsContainer(node) /\ Size(node) = Size(Top.node) + Size(val)
  BY <1>2, WithItemIs, NoValue
<1>4. stack' = WithTop(frame)
  <2>1. stack' = WithTop([(IF val = NoNode THEN Top ELSE [Top EXCEPT !.node = WithItem(Top.node, val)])
                            EXCEPT !.comma = TRUE])
    BY DEF ReturnItem, AfterChild
  <2>2. ASSUME val = NoNode PROVE stack' = WithTop(frame)
    <3>1. stack' = WithTop([Top EXCEPT !.comma = TRUE])
      BY <2>1, <2>2
    <3>2. [Top EXCEPT !.comma = TRUE] = FrameOf(Top.node, TRUE, Top.name, Top.nul)
      BY <1>2, FrameChanges
    <3>3. frame = FrameOf(Top.node, TRUE, Top.name, Top.nul)
      BY <1>2, <2>2
    <3> QED
      BY <3>1, <3>2, <3>3
  <2>3. ASSUME val # NoNode PROVE stack' = WithTop(frame)
    <3>1. stack' = WithTop([[Top EXCEPT !.node = WithItem(Top.node, val)] EXCEPT !.comma = TRUE])
      BY <2>1, <2>3
    <3>2. \A m : [[Top EXCEPT !.node = m] EXCEPT !.comma = TRUE] = FrameOf(m, TRUE, Top.name, Top.nul)
      BY <1>2, FrameChanges
    <3>3. frame = FrameOf(WithItem(Top.node, val), TRUE, Top.name, Top.nul)
      BY <1>2, <2>3
    <3> QED
      BY <3>1, <3>2, <3>3
  <2> QED
    BY <2>2, <2>3
<1> HIDE DEF node
<1>5. IsFrame(frame) /\ frame.name = "none" /\ Weight(frame) = Size(node)
  BY <1>2, <1>3 DEF IsFrame, FrameOf, Weight
<1> HIDE DEF frame
<1>6. live' = live + Weight(frame) - Weight(Top) - Size(val)
  BY <1>1, <1>2, <1>3, <1>5
<1> QED
  BY <1>1, <1>4, <1>5, <1>6, TakeKeeps

\* An array fails after a child.
LEMMA ArrayFailsStep ==
    ASSUME TreeInv, AppendNoMemory \/ ArrayEnds
    PROVE  TreeInv'
<1>1. stack # <<>> /\ Top.node[1] = "array"
  BY DEF AppendNoMemory, ArrayEnds, InArray
<1>2. Top.name = "none" /\ Size(val) \in Nat /\ Held = Size(val) /\ failed \subseteq MayFail
  BY <1>1, TopIs DEF TreeInv, IsFrame, IsValue, Held
<1>3. CASE AppendNoMemory
  <2>1. FailContainer(0) /\ failed' = failed \union {"append"} /\ "append" \in MayFail
    BY <1>3 DEF AppendNoMemory
  <2>2. failed' \in SUBSET MayFail /\ failed \subseteq failed' /\ "append" \in failed' /\ 0 \in Nat
    BY <1>2, <2>1
  <2> QED
    BY <1>1, <1>2, <2>1, <2>2, FailKeeps
<1>4. CASE ArrayEnds
  <2>1. FailContainer(Size(val)) /\ failed' = failed
    BY <1>4 DEF ArrayEnds
  <2> QED
    BY <1>1, <1>2, <2>1, FailKeeps
<1> QED
  BY <1>3, <1>4

\* A call returned to the object that made it, with a name.
LEMMA NameStep ==
    ASSUME TreeInv, ReturnName
    PROVE  TreeInv'
<1>1. /\ pc = "return" /\ stack # <<>> /\ Top.node[1] = "object" /\ Top.name = "none"
      /\ failed' = failed
  BY DEF ReturnName, InObject
<1>2. /\ IsFrame(Top) /\ Size(Top.node) \in Nat /\ live \in Int /\ Size(val) \in Nat
      /\ IsContainer(Top.node) /\ Weight(Top) = Size(Top.node) /\ IsValue(val)
      /\ Held = Size(val) /\ failed \in SUBSET MayFail /\ Top.comma \in BOOLEAN /\ Top.nul \in BOOLEAN
  BY <1>1, TopIs DEF TreeInv, Accounted, IsValue, IsFrame, Held
<1>3. ASSUME FailContainer(Size(val)) PROVE TreeInv'
  BY <1>1, <1>2, <1>3, FailKeeps
<1>4. ASSUME val # NoNode, val[1] \in Strings, stack' = WithTop([Top EXCEPT !.name = val[1]]),
             pc' = "value", val' = NoNode, reported' = reported, live' = live
      PROVE  TreeInv'
  <2> DEFINE frame == FrameOf(Top.node, Top.comma, val[1], Top.nul)
  <2>1. [Top EXCEPT !.name = val[1]] = frame
    BY <1>2, FrameChanges
  <2>2. val[1] # "none" /\ Size(val) = 1
    BY <1>2, <1>4, StringsAssumption DEF IsValue
  <2>3. IsFrame(frame) /\ Weight(frame) = Size(Top.node) + 1
    BY <1>1, <1>2, <1>4, <2>2 DEF IsFrame, FrameOf, Weight
  <2> HIDE DEF frame
  <2>4. live' = live + Weight(frame) - Weight(Top) - Size(val)
    BY <1>2, <1>4, <2>2, <2>3
  <2>5. stack' = WithTop(frame)
    BY <1>4, <2>1
  <2> QED
    BY <1>1, <1>4, <2>3, <2>4, <2>5, TakeKeeps
<1>5. \/ FailContainer(Size(val))
      \/ /\ val # NoNode /\ val[1] \in Strings /\ stack' = WithTop([Top EXCEPT !.name = val[1]])
         /\ pc' = "value" /\ val' = NoNode /\ reported' = reported /\ live' = live
  BY DEF ReturnName
<1> QED
  BY <1>3, <1>4, <1>5

\* A call returned to the object that made it, with a value.
LEMMA MemberStep ==
    ASSUME TreeInv, ReturnMember
    PROVE  TreeInv'
<1> DEFINE node == WithMember(Top.node, Top.name, val)
           frame == FrameOf(node, TRUE, "none", Top.nul)
<1>1. /\ pc = "return" /\ stack # <<>> /\ Top.node[1] = "object" /\ Top.name # "none"
      /\ pc' = "loop" /\ val' = NoNode /\ reported' = reported /\ failed' = failed
      /\ live' = live - 1 - (Size(Top.node) + Size(val) - Size(node))
      /\ stack' = WithTop([[Top EXCEPT !.node = node, !.name = "none"] EXCEPT !.comma = TRUE])
  BY DEF ReturnMember, AfterChild, InObject
<1>2. /\ IsFrame(Top) /\ Size(Top.node) \in Nat /\ live \in Int /\ Size(val) \in Nat
      /\ IsContainer(Top.node) /\ Weight(Top) = Size(Top.node) + 1 /\ Top.nul \in BOOLEAN
  BY <1>1, TopIs DEF TreeInv, Accounted, IsValue, IsFrame
<1>3. IsContainer(node)
  BY <1>2, WithMemberIs
<1>4. Size(node) \in Nat
  BY <1>3, ContainerSize
<1> HIDE DEF node
<1>5. [[Top EXCEPT !.node = node, !.name = "none"] EXCEPT !.comma = TRUE] = frame
  BY <1>2, FrameChanges
<1>6. IsFrame(frame) /\ frame.name = "none" /\ Weight(frame) = Size(node)
  BY <1>2, <1>3, <1>4, NextFrame
<1> HIDE DEF frame
<1>7. live' = live + Weight(frame) - Weight(Top) - Size(val)
  BY <1>1, <1>2, <1>4, <1>6
<1>8. stack' = WithTop(frame)
  BY <1>1, <1>5
<1> QED
  BY <1>1, <1>6, <1>7, <1>8, TakeKeeps

\* An object fails after a value.
LEMMA MemberFailsStep ==
    ASSUME TreeInv, MemberFails
    PROVE  TreeInv'
<1>1. stack # <<>> /\ Top.name # "none" /\ FailContainer(1 + Size(val))
  BY DEF MemberFails, InObject
<1>2. /\ Size(val) \in Nat /\ Held = Size(val) + 1 /\ 1 + Size(val) \in Nat
      /\ failed \subseteq MayFail
  BY <1>1 DEF TreeInv, IsValue, Held
<1>3. failed' \in SUBSET MayFail /\ failed \subseteq failed'
  BY <1>2 DEF MemberFails
<1> HIDE DEF Held
<1>4. 1 + Size(val) = Held
  BY <1>2
<1> QED
  BY <1>1, <1>2, <1>3, <1>4, FailKeeps

\* Every step keeps account of the trees.
LEMMA TreeStep == TreeInv /\ [Next]_vars => TreeInv'
<1> SUFFICES ASSUME TreeInv, [Next]_vars PROVE TreeInv'
  OBVIOUS
<1>1. CASE SkipSpace \/ UNCHANGED vars
  <2>1. /\ stack' = stack /\ pc' = pc /\ val' = val /\ reported' = reported
        /\ live' = live /\ failed' = failed
    BY <1>1 DEF SkipSpace, vars
  <2> QED
    BY <2>1 DEF TreeInv
<1>2. CASE Finish
  <2>1. /\ stack' = stack /\ pc = "return" /\ pc' = "done" /\ val' = val /\ reported' = reported
        /\ live' = live /\ failed' = failed
    BY <1>2 DEF Finish
  <2>2. Placed(stack, "done", val) /\ Explained("done", val, reported, failed)
    BY <2>1 DEF TreeInv, Placed, Explained
  <2> QED
    BY <2>1, <2>2 DEF TreeInv
<1> QED
  BY <1>1, <1>2, LeafStep, OpenStep, CloseStep, ChildStep, LoopFailsStep, ItemStep,
     ArrayFailsStep, NameStep, MemberStep, MemberFailsStep DEF Next

\* Nothing is allocated at the beginning.
LEMMA TreeInit == Init => TreeInv
<1> SUFFICES ASSUME Init PROVE TreeInv
  OBVIOUS
<1>1. /\ stack = <<>> /\ pc = "value" /\ val = NoNode /\ reported = FALSE
      /\ live = 0 /\ failed = {}
  BY DEF Init
<1>2. IsStack(<<>>) /\ Load(<<>>) = 0 /\ Size(NoNode) = 0 /\ IsValue(NoNode)
  BY NoStack, NoValue
<1>3. IsStack(stack) /\ IsValue(val) /\ Accounted(stack, val, live, failed)
  BY <1>1, <1>2 DEF Accounted
<1>4. Placed(stack, pc, val) /\ Explained(pc, val, reported, failed)
  BY <1>1 DEF Placed, Explained
<1> QED
  BY <1>1, <1>3, <1>4 DEF TreeInv

\* The two invariants hold throughout.
LEMMA ParserCorrect == Spec => [](PosInv /\ TreeInv)
<1>1. Init => PosInv /\ TreeInv
  BY PosInit, TreeInit
<1>2. PosInv /\ TreeInv /\ [Next]_vars => (PosInv /\ TreeInv)'
  BY PosStep, TreeStep
<1> QED
  BY <1>1, <1>2, PTL DEF Spec

\* Theorem: for every set of texts, of strings and of allocations that fail,
\* the position stays in the text, the line below its length, and what is on
\* the stack are arrays and objects (j2ParseFuncSTD).
THEOREM TypeTheorem == Spec => []TypeOK
<1>1. ASSUME PosInv, TreeInv PROVE TypeOK
  <2>1. pos \in 1 .. Len(text) + 1 /\ line \in 0 .. Len(text)
    BY <1>1, CountedFinite DEF PosInv, Here
  <2>2. \A i \in DOMAIN stack : IsFrame(stack[i])
    BY <1>1, StackIs DEF TreeInv
  <2>3. \A i \in DOMAIN stack : /\ stack[i].node[1] \in {"array", "object"}
                                /\ stack[i].comma \in BOOLEAN
                                /\ stack[i].nul \in BOOLEAN
                                /\ stack[i].name \in Strings \union {"none"}
    BY <2>2, ContainerSize DEF IsFrame
  <2>4. live \in Nat
    BY <1>1, StackIs DEF TreeInv, Accounted, IsValue
  <2>5. /\ pc \in {"value", "loop", "return", "done"} /\ (pc = "loop" => stack # <<>>)
        /\ reported \in BOOLEAN /\ failed \subseteq MayFail
    BY <1>1 DEF TreeInv, Placed
  <2> QED
    BY <2>1, <2>3, <2>4, <2>5 DEF TypeOK
<1> QED
  BY <1>1, ParserCorrect, PTL

\* Theorem: for every set of texts, of strings and of allocations that fail,
\* every allocated J2VAL is in a tree the parser knows, but the item of a
\* failed append: no path of j2ParseFuncSTD loses a tree or frees one twice.
THEOREM LeakTheorem == Spec => []NothingLeaks
<1>1. Known = Size(val) + Load(stack)
  BY DEF Known, Load, Loads
<1>2. TreeInv => NothingLeaks
  BY <1>1 DEF TreeInv, Accounted, NothingLeaks
<1> QED
  BY <1>2, ParserCorrect, PTL

\* Theorem: when memory lasts, the parser never returns zero without having
\* called the error callback (J2_RETURN_ERROR).
THEOREM ErrorTheorem == Spec => []ZeroMeansError
<1>1. TreeInv => ZeroMeansError
  BY DEF TreeInv, Explained, ZeroMeansError
<1> QED
  BY <1>1, ParserCorrect, PTL

-----------------------------------------------------------------------------
(***************************************************************************)
(* The write callbacks, for every buffer size and every number of failing  *)
(* writes.                                                                 *)
(***************************************************************************)
\* What the callbacks keep between two chunks: the chunks still to write are
\* chunks, the sum j2PrintFunc returns is the cursor, and the cursor never
\* reaches the end of a buffer that has a byte at all.
WriteInv ==
    /\ todo \in Seq(Chunks)
    /\ sink \in {"buffer", "file"}
    /\ bufsize \in Nat
    /\ cursor \in Nat
    /\ result = cursor
    /\ sink = "buffer" /\ bufsize > 0 => cursor < bufsize

\* A chunk that is not written leaves the cursor where it was.
LEMMA NotWrittenKeeps ==
    ASSUME WriteInv, todo # <<>>, NotWritten, todo' = Tail(todo),
           UNCHANGED <<sink, bufsize>>
    PROVE  WriteInv'
<1>1. todo' \in Seq(Chunks)
  BY DEF WriteInv
<1> QED
  BY <1>1 DEF WriteInv, NotWritten

\* A chunk is written where it leaves a byte of the buffer for the terminator.
LEMMA WrittenKeeps ==
    ASSUME WriteInv, todo # <<>>, Written, todo' = Tail(todo),
           UNCHANGED <<sink, bufsize>>, sink = "buffer" => Fits(chunk.size)
    PROVE  WriteInv'
<1>1. todo' \in Seq(Chunks) /\ chunk \in Chunks
  BY DEF WriteInv, chunk
<1>2. chunk.size \in Nat
  BY <1>1 DEF Chunks
<1>3. cursor' = cursor + chunk.size /\ result' = result + chunk.size
  BY DEF Written
<1>4. sink = "buffer" => cursor' < bufsize
  BY <1>2, <1>3 DEF WriteInv, Fits
<1> QED
  BY <1>1, <1>2, <1>3, <1>4 DEF WriteInv

\* However many chunks of whichever sizes are left out, and whichever writes to
\* a file fail, j2PrintBuffer's terminator goes behind the last chunk written
\* and inside of the buffer.
THEOREM TerminatorTheorem == WriteSpec => []TerminatorFits
<1>1. WriteInit => WriteInv
  <2> SUFFICES ASSUME WriteInit PROVE WriteInv
    OBVIOUS
  <2>1. todo \in Seq(Chunks)
    BY PrintoutsAssumption DEF WriteInit
  <2>2. bufsize \in Nat /\ sink \in {"buffer", "file"}
    <3>1. \/ sink = "buffer" /\ bufsize \in BufSizes
          \/ sink = "file" /\ bufsize = 0
      BY Zenon DEF WriteInit
    <3>2. bufsize \in BufSizes \/ bufsize = 0
      BY <3>1
    <3>3. bufsize \in BufSizes => bufsize \in Nat
      BY BufSizesAssumption
    <3> QED
      BY <3>1, <3>2, <3>3
  <2>3. cursor = 0 /\ result = 0 /\ (sink = "buffer" /\ bufsize > 0 => cursor < bufsize)
    BY <2>2 DEF WriteInit
  <2> QED
    BY <2>1, <2>2, <2>3 DEF WriteInv
<1>2. WriteInv /\ [WriteNext]_writeVars => WriteInv'
  <2> SUFFICES ASSUME WriteInv, [WriteNext]_writeVars PROVE WriteInv'
    OBVIOUS
  <2>1. CASE simple_write_string
    <3>1. CASE Fits(chunk.size) /\ Written
      BY <2>1, <3>1, WrittenKeeps DEF simple_write_string
    <3>2. CASE NotWritten
      BY <2>1, <3>2, NotWrittenKeeps DEF simple_write_string
    <3> QED
      BY <2>1, <3>1, <3>2 DEF simple_write_string
  <2>2. CASE simple_write_file
    <3>1. sink # "buffer"
      BY <2>2 DEF simple_write_file
    <3> QED
      BY <2>2, <3>1, WrittenKeeps, NotWrittenKeeps DEF simple_write_file
  <2>3. CASE UNCHANGED writeVars
    BY <2>3 DEF writeVars, WriteInv
  <2> QED
    BY <2>1, <2>2, <2>3 DEF WriteNext
<1>3. WriteInv => TerminatorFits
  BY DEF WriteInv, TerminatorFits
<1> QED
  BY <1>1, <1>2, <1>3, PTL DEF WriteSpec
-----------------------------------------------------------------------------
(***************************************************************************)
(* Paths.  Follow goes through a path from separator to separator; so does *)
(* joFind, which has always come as far as its cursor.                     *)
(***************************************************************************)
PathType(p) == p \in Seq(STRING \ {"end"})

\* The spaces a path begins with.
LEMMA BlanksIs ==
    ASSUME NEW p, PathType(p)
    PROVE  /\ Len(p) \in Nat
           /\ Blanks(p) \in 0 .. Len(p)
           /\ \A i \in 1 .. Blanks(p) : p[i] = "sp"
           /\ Blanks(p) < Len(p) => p[Blanks(p) + 1] # "sp"
<1> DEFINE T == { i \in 1 .. Len(p) : p[i] = "sp" }
           n == Len(p) + 1
<1>1. Len(p) \in Nat /\ n \in Nat /\ n \notin T /\ 1 \in 1 .. n
  BY DEF PathType
<1>2. PICK q \in 1 .. n : (\A r \in 1 .. q - 1 : r \in T) /\ q \notin T
  <2> HIDE DEF T, n
  <2> QED
    BY <1>1, FirstWithout
<1>3. /\ q - 1 \in 0 .. Len(p) /\ (q - 1) + 1 = q
      /\ \A i \in 1 .. q - 1 : p[i] = "sp"
      /\ q - 1 < Len(p) => p[q] # "sp"
  BY <1>1, <1>2
<1>4. \E m \in 0 .. Len(p) : AreBlanks(p, m)
  BY <1>3 DEF AreBlanks
<1>5. Blanks(p) \in 0 .. Len(p) /\ AreBlanks(p, Blanks(p))
  BY <1>4 DEF Blanks
<1> QED
  BY <1>1, <1>5 DEF AreBlanks

\* There is only one number of them.
LEMMA BlanksOnly ==
    ASSUME NEW p, PathType(p), NEW n \in 0 .. Len(p),
           \A i \in 1 .. n : p[i] = "sp", n < Len(p) => p[n + 1] # "sp"
    PROVE  Blanks(p) = n
<1>1. /\ Len(p) \in Nat /\ Blanks(p) \in 0 .. Len(p)
      /\ \A i \in 1 .. Blanks(p) : p[i] = "sp"
      /\ Blanks(p) < Len(p) => p[Blanks(p) + 1] # "sp"
  BY BlanksIs
<1>2. ~(Blanks(p) < n)
  BY <1>1
<1>3. ~(n < Blanks(p))
  BY <1>1
<1> QED
  BY <1>1, <1>2, <1>3

\* The path behind them.
LEMMA TrimmedIs ==
    ASSUME NEW p, PathType(p)
    PROVE  /\ PathType(Trimmed(p))
           /\ Len(Trimmed(p)) = Len(p) - Blanks(p)
           /\ \A i \in 1 .. Len(Trimmed(p)) : Trimmed(p)[i] = p[Blanks(p) + i]
BY BlanksIs DEF Trimmed, PathType

\* The last separator, when the first character is one.
LEMMA LastSeparatorIs ==
    ASSUME NEW q, q[1] \in Separators, NEW n \in Nat \ {0}
    PROVE  /\ LastSeparator(q, n) \in 1 .. n
           /\ q[LastSeparator(q, n)] \in Separators
           /\ \A i \in LastSeparator(q, n) + 1 .. n : q[i] \notin Separators
<1> DEFINE U == { i \in 1 .. n : q[i] \in Separators }
<1>1. n + 1 \in Nat /\ U \in SUBSET (0 .. (n + 1) - 1) /\ U # {}
  <2>1. 1 \in U
    OBVIOUS
  <2> QED
    BY <2>1
<1>2. PICK s \in U : \A i \in U : i <= s
  <2> HIDE DEF U
  <2> QED
    BY <1>1, GreatestNumber
<1>3. s \in 1 .. n /\ q[s] \in Separators
  BY <1>2
<1>4. ASSUME NEW i \in s + 1 .. n, q[i] \in Separators PROVE FALSE
  <2>1. i \in U /\ ~(i <= s)
    BY <1>3, <1>4
  <2> QED
    BY <1>2, <2>1
<1> QED
  BY <1>3, <1>4 DEF LastSeparator

\* It is the one at s, if no other follows.
LEMMA LastSeparatorOnly ==
    ASSUME NEW q, q[1] \in Separators, NEW n \in Nat \ {0}, NEW s \in 1 .. n,
           q[s] \in Separators, \A i \in s + 1 .. n : q[i] \notin Separators
    PROVE  LastSeparator(q, n) = s
<1> DEFINE l == LastSeparator(q, n)
<1>1. /\ l \in 1 .. n /\ q[l] \in Separators
      /\ \A i \in l + 1 .. n : q[i] \notin Separators
  BY LastSeparatorIs
<1> HIDE DEF l
<1>2. ~(l < s) /\ ~(s < l)
  BY <1>1
<1> QED
  BY <1>1, <1>2 DEF l

\* The step of Steps: w is the root and the path.
StepsStep(w, n, f) ==
    IF n = 0 THEN w[1]
    ELSE LET s == LastSeparator(w[2], n)
         IN  OneStep(f[s - 1], PathStep(w[2], s, n))

BySteps == INSTANCE StepRecursion WITH Step <- StepsStep

\* So Steps is the function that goes on from the last separator.
LEMMA StepsByLength ==
    ASSUME NEW root, NEW q, PathType(q), q # <<>> => q[1] \in Separators
    PROVE  Steps(root, q) = [n \in 0 .. Len(q) |-> StepsStep(<<root, q>>, n, Steps(root, q))]
<1> DEFINE w == <<root, q>>
<1>1. Len(q) \in Nat /\ (Len(q) # 0 => q # <<>>)
  BY DEF PathType
<1>2. ASSUME NEW n \in 0 .. Len(q), NEW f, NEW g, \A j \in 0 .. n - 1 : f[j] = g[j]
      PROVE  StepsStep(w, n, f) = StepsStep(w, n, g)
  <2>1. CASE n = 0
    BY <2>1 DEF StepsStep
  <2>2. CASE n # 0
    <3>1. LastSeparator(q, n) \in 1 .. n
      BY <1>1, <2>2, LastSeparatorIs
    <3>2. LastSeparator(q, n) - 1 \in 0 .. n - 1 /\ w[2] = q
      BY <1>1, <3>1
    <3>3. f[LastSeparator(q, n) - 1] = g[LastSeparator(q, n) - 1]
      BY <1>2, <3>2
    <3> QED
      BY <2>2, <3>2, <3>3 DEF StepsStep
  <2> QED
    BY <2>1, <2>2
<1>3. \E g : g = [n \in 0 .. Len(q) |-> StepsStep(w, n, g)]
  BY <1>1, <1>2, BySteps!Exists
<1>4. Steps(root, q) = CHOOSE g : g = [n \in 0 .. Len(q) |-> StepsStep(w, n, g)]
  BY DEF Steps, StepsStep
<1> HIDE DEF w
<1>5. Steps(root, q) = [n \in 0 .. Len(q) |-> StepsStep(w, n, Steps(root, q))]
  BY <1>3, <1>4
<1> QED
  BY <1>5 DEF w

\* What Steps is, number by number.
LEMMA StepsAre ==
    ASSUME NEW root, NEW q, PathType(q), q # <<>> => q[1] \in Separators
    PROVE  /\ Steps(root, q)[0] = root
           /\ \A n \in 1 .. Len(q) :
                LET s == LastSeparator(q, n)
                IN  Steps(root, q)[n] = OneStep(Steps(root, q)[s - 1],
                                                PathStep(q, s, n))
<1> DEFINE w == <<root, q>>
           f == Steps(root, q)
<1>1. f = [n \in 0 .. Len(q) |-> StepsStep(w, n, f)]
  BY StepsByLength
<1>2. Len(q) \in Nat /\ w[1] = root /\ w[2] = q
  BY DEF PathType
<1> HIDE DEF f, w
<1>3. f[0] = StepsStep(w, 0, f) /\ \A n \in 1 .. Len(q) : f[n] = StepsStep(w, n, f)
  BY <1>1, <1>2
<1>4. StepsStep(w, 0, f) = root
  BY <1>2 DEF StepsStep
<1>5. ASSUME NEW n \in 1 .. Len(q)
      PROVE  LET s == LastSeparator(q, n)
             IN  f[n] = OneStep(f[s - 1], PathStep(q, s, n))
  <2>1. n # 0 /\ f[n] = StepsStep(w, n, f)
    BY <1>2, <1>3
  <2> QED
    BY <1>2, <2>1 DEF StepsStep
<1> QED
  BY <1>3, <1>4, <1>5 DEF f

\* From one separator to the next, or to the end, it is one step.
OneLeg(q, s, t) ==
    /\ PathType(q) /\ q[1] \in Separators
    /\ s \in 1 .. Len(q) /\ q[s] \in Separators
    /\ t \in s .. Len(q) /\ \A i \in s + 1 .. t : q[i] \notin Separators

\* A leg is one more step.
LEMMA StepsNext ==
    ASSUME NEW root, NEW q, NEW s, NEW t, OneLeg(q, s, t)
    PROVE  Steps(root, q)[t] = OneStep(Steps(root, q)[s - 1],
                                       PathStep(q, s, t))
<1>1. t \in Nat \ {0} /\ t \in 1 .. Len(q) /\ s \in 1 .. t
  BY DEF OneLeg, PathType
<1>2. LastSeparator(q, t) = s
  BY <1>1, LastSeparatorOnly DEF OneLeg
<1>3. LET l == LastSeparator(q, t)
      IN  Steps(root, q)[t] = OneStep(Steps(root, q)[l - 1],
                                      PathStep(q, l, t))
  BY <1>1, StepsAre DEF OneLeg
<1> QED
  BY <1>2, <1>3

\* No step leads on from nothing.
LEMMA StepsStuck ==
    ASSUME NEW root, NEW q, PathType(q), q[1] \in Separators, NEW m \in 0 .. Len(q),
           Steps(root, q)[m] = NoNode, m < Len(q) => q[m + 1] \in Separators
    PROVE  Steps(root, q)[Len(q)] = NoNode
<1> DEFINE f == Steps(root, q)
           T == { k \in Nat : \A n \in m .. Len(q) : n <= m + k => f[n] = NoNode }
<1>1. Len(q) \in Nat
  BY DEF PathType
<1>2. 0 \in T
  <2>1. \A n \in m .. Len(q) : n <= m + 0 => n = m
    BY <1>1
  <2> QED
    BY <2>1
<1>3. ASSUME NEW k \in Nat, k \in T PROVE k + 1 \in T
  <2> SUFFICES ASSUME NEW n \in m .. Len(q), n = m + (k + 1) PROVE f[n] = NoNode
    BY <1>1, <1>3
  <2> DEFINE s == LastSeparator(q, n)
  <2>1. n \in Nat \ {0} /\ n \in 1 .. Len(q) /\ m < Len(q) /\ m + 1 \in 1 .. n
    BY <1>1
  <2>2. /\ s \in 1 .. n
        /\ \A i \in s + 1 .. n : q[i] \notin Separators
    BY <2>1, LastSeparatorIs
  <2>3. f[n] = OneStep(f[s - 1], PathStep(q, s, n))
    BY <2>1, StepsAre
  <2> HIDE DEF s, f
  <2>4. ~(m + 1 >= s + 1)
    <3> SUFFICES ASSUME m + 1 >= s + 1 PROVE FALSE
      OBVIOUS
    <3>1. m + 1 \in s + 1 .. n
      BY <2>1, <2>2
    <3> QED
      BY <2>1, <2>2, <3>1
  <2>5. s - 1 \in m .. Len(q) /\ s - 1 <= m + k
    BY <1>1, <2>1, <2>2, <2>4
  <2>6. f[s - 1] = NoNode
    BY <1>3, <2>5
  <2> QED
    BY <2>3, <2>6 DEF OneStep
<1>4. Nat \subseteq T
  <2> HIDE DEF T
  <2> QED
    BY <1>2, <1>3, AllNumbers
<1>5. Len(q) - m \in T
  BY <1>1, <1>4
<1> HIDE DEF f
<1>6. Len(q) \in m .. Len(q) /\ Len(q) <= m + (Len(q) - m)
  BY <1>1
<1>7. f[Len(q)] = NoNode
  BY <1>5, <1>6
<1> QED
  BY <1>7 DEF f

\* A round's cut is at the next separator, or behind the path.
LEMMA CutIs ==
    ASSUME PathType(path), NEW p \in 1 .. Len(path)
    PROVE  /\ Cut(p) \in p + 1 .. Len(path) + 1
           /\ \A i \in p + 1 .. Cut(p) - 1 : path[i] \notin Separators
           /\ Cut(p) <= Len(path) => path[Cut(p)] \in Separators
<1> DEFINE ends == { i \in p + 1 .. Len(path) : path[i] \in Separators }
<1>1. Len(path) \in Nat
  BY DEF PathType
<1>2. CASE ends = {}
  <2>1. Cut(p) = Len(path) + 1
    BY <1>2 DEF Cut
  <2> QED
    BY <1>1, <1>2, <2>1
<1>3. CASE ends # {}
  <2>1. ends \in SUBSET Nat
    BY <1>1
  <2>2. \E i \in ends : \A j \in ends : i <= j
    <3> HIDE DEF ends
    <3> QED
      BY <1>3, <2>1, LeastNumber
  <2>3. Cut(p) = CHOOSE i \in ends : \A j \in ends : i <= j
    BY <1>3 DEF Cut
  <2>4. Cut(p) \in ends /\ \A j \in ends : Cut(p) <= j
    <3> HIDE DEF ends
    <3> QED
      BY <2>2, <2>3
  <2>5. ASSUME NEW i \in p + 1 .. Cut(p) - 1, path[i] \in Separators PROVE FALSE
    <3>1. i \in ends /\ ~(Cut(p) <= i)
      BY <1>1, <2>4, <2>5
    <3> QED
      BY <2>4, <3>1
  <2> QED
    BY <1>1, <2>4, <2>5
<1> QED
  BY <1>2, <1>3

\* A piece of the path is a piece of what is behind its spaces.
LEMMA PieceIs ==
    ASSUME NEW p, PathType(p), NEW i \in Blanks(p) + 1 .. Len(p) + 1, NEW j \in i - 1 .. Len(p)
    PROVE  SubSeq(Trimmed(p), i - Blanks(p), j - Blanks(p)) = SubSeq(p, i, j)
<1> DEFINE b == Blanks(p)
           q == Trimmed(p)
<1>1. /\ Len(p) \in Nat /\ b \in 0 .. Len(p)
      /\ Len(q) = Len(p) - b
      /\ \A k \in 1 .. Len(q) : q[k] = p[b + k]
      /\ p \in Seq(STRING \ {"end"}) /\ q \in Seq(STRING \ {"end"})
      /\ i \in b + 1 .. Len(p) + 1
  BY BlanksIs, TrimmedIs DEF PathType
<1> HIDE DEF b, q
<1>2. /\ SubSeq(p, i, j) \in Seq(STRING \ {"end"}) /\ Len(SubSeq(p, i, j)) = j - i + 1
      /\ \A k \in 1 .. j - i + 1 : SubSeq(p, i, j)[k] = p[i + k - 1]
  BY <1>1
<1>3. /\ SubSeq(q, i - b, j - b) \in Seq(STRING \ {"end"}) /\ Len(SubSeq(q, i - b, j - b)) = j - i + 1
      /\ \A k \in 1 .. j - i + 1 : SubSeq(q, i - b, j - b)[k] = q[i - b + k - 1]
  <2>1. i - b \in 1 .. Len(q) + 1 /\ j - b \in 0 .. Len(q) /\ (j - b) - (i - b) + 1 = j - i + 1
    BY <1>1
  <2> QED
    BY <1>1, <2>1
<1>4. \A k \in 1 .. j - i + 1 : q[i - b + k - 1] = p[i + k - 1]
  <2> SUFFICES ASSUME NEW k \in 1 .. j - i + 1 PROVE q[i - b + k - 1] = p[i + k - 1]
    OBVIOUS
  <2>1. i - b + k - 1 \in 1 .. Len(q) /\ b + (i - b + k - 1) = i + k - 1
    BY <1>1
  <2> QED
    BY <1>1, <2>1
<1>5. SubSeq(q, i - b, j - b) = SubSeq(p, i, j)
  <2>1. \A k \in 1 .. j - i + 1 : SubSeq(q, i - b, j - b)[k] = SubSeq(p, i, j)[k]
    BY <1>2, <1>3, <1>4
  <2> DEFINE x == SubSeq(q, i - b, j - b)
             y == SubSeq(p, i, j)
  <2>2. /\ x \in Seq(STRING \ {"end"}) /\ y \in Seq(STRING \ {"end"})
        /\ Len(x) = Len(y) /\ \A k \in 1 .. Len(x) : x[k] = y[k]
    BY <1>2, <1>3, <2>1
  <2> HIDE DEF x, y
  <2>3. x = y
    BY <2>2, SeqEqual
  <2> QED
    BY <2>3 DEF x, y
<1> QED
  BY <1>5 DEF b, q

\* joFind has come to the character at c with the value v: over spaces, or to a
\* separator.
AtSeparator(p, c, v) ==
    /\ c \in Blanks(p) + 1 .. Len(p) /\ p[c] \in Separators
    /\ Trimmed(p)[1] \in Separators
    /\ v = Steps(val, Trimmed(p))[c - 1 - Blanks(p)]

Walked(p, c, v) ==
    /\ c \in 1 .. Len(p) + 1
    /\ v # NoNode
    /\ \/ v = val /\ \A i \in 1 .. c - 1 : p[i] = "sp"
       \/ AtSeparator(p, c, v)

FindInv ==
    /\ path # NoPath \/ cur # Found => pc = "done" /\ PathType(path)
    /\ cur # Found => Walked(path, cur, croot)
    /\ PathsFind

\* The first separator is as good as any other.
LEMMA SeparatorHere ==
    ASSUME NEW p, PathType(p), NEW c, NEW v, Walked(p, c, v), c <= Len(p), p[c] \in Separators
    PROVE  AtSeparator(p, c, v)
<1> SUFFICES ASSUME v = val, \A i \in 1 .. c - 1 : p[i] = "sp"
             PROVE  AtSeparator(p, c, v)
  BY DEF Walked
<1>1. Len(p) \in Nat /\ c \in 1 .. Len(p) /\ p[c] # "sp"
  BY DEF Walked, Separators, PathType
<1>2. Blanks(p) = c - 1
  BY <1>1, BlanksOnly
<1>3. 1 \in 1 .. Len(Trimmed(p)) /\ Trimmed(p)[1] = p[Blanks(p) + 1]
  BY <1>1, <1>2, TrimmedIs
<1>4. Trimmed(p)[1] \in Separators
  BY <1>1, <1>2, <1>3
<1>5. Steps(val, Trimmed(p))[0] = val
  BY <1>4, TrimmedIs, StepsAre
<1> QED
  BY <1>1, <1>2, <1>4, <1>5 DEF AtSeparator

\* At the end, or at a character that is neither a space nor a separator.
LEMMA EndsHere ==
    ASSUME NEW p, PathType(p), NEW c, NEW v, Walked(p, c, v)
    PROVE  /\ c = Len(p) + 1 => Follow(val, p) = v
           /\ c <= Len(p) /\ p[c] \notin Separators \union {"sp"} => Follow(val, p) = NoNode
<1>1. Len(p) \in Nat /\ c \in 1 .. Len(p) + 1
  BY DEF PathType, Walked
<1>2. ASSUME c = Len(p) + 1 PROVE Follow(val, p) = v
  <2>1. v = val /\ \A i \in 1 .. Len(p) : p[i] = "sp"
    BY <1>1, <1>2 DEF Walked, AtSeparator
  <2>2. Blanks(p) = Len(p)
    BY <1>1, <2>1, BlanksOnly
  <2>3. PathType(Trimmed(p)) /\ Len(Trimmed(p)) = 0
    BY <1>1, <2>2, TrimmedIs
  <2>4. Trimmed(p) = <<>>
    BY <2>3 DEF PathType
  <2>5. Steps(val, Trimmed(p))[0] = val
    BY <2>3, <2>4, StepsAre
  <2> QED
    BY <2>1, <2>3, <2>4, <2>5 DEF Follow
<1>3. ASSUME c <= Len(p), p[c] \notin Separators \union {"sp"} PROVE Follow(val, p) = NoNode
  <2>1. \A i \in 1 .. c - 1 : p[i] = "sp"
    BY <1>3 DEF Walked, AtSeparator
  <2>2. c - 1 \in 0 .. Len(p) /\ (c - 1) + 1 = c
    BY <1>1, <1>3
  <2>3. Blanks(p) = c - 1
    BY <1>3, <2>1, <2>2, BlanksOnly
  <2>4. /\ PathType(Trimmed(p)) /\ Len(Trimmed(p)) >= 1
        /\ Trimmed(p)[1] = p[c]
    BY <1>1, <1>3, <2>3, TrimmedIs
  <2>5. Trimmed(p) # <<>>
    BY <2>4 DEF PathType
  <2> QED
    BY <1>3, <2>4, <2>5 DEF Follow
<1> QED
  BY <1>2, <1>3

\* A round that takes a step.
LEMMA FindStepsKeeps ==
    ASSUME FindInv, FindSteps, val' = val, pc' = pc
    PROVE  FindInv'
<1> DEFINE b == Blanks(path)
           q == Trimmed(path)
           cut == Cut(cur)
           chars == SubSeq(path, cur + 1, cut - 1)
           next == IF PathChar = "#"
                   THEN IF croot[1] = "array" THEN Index(croot, chars) ELSE NoNode
                   ELSE IF croot[1] = "object" THEN Item(croot, chars) ELSE NoNode
           s == cur - b
           t == cut - 1 - b
<1>1. /\ cur # Found /\ PathChar \in Separators /\ path' = path
      /\ croot' = next
      /\ cur' = IF next = NoNode \/ cut > Len(path) THEN Found ELSE cut
  BY DEF FindSteps
<1>2. PathType(path) /\ Walked(path, cur, croot) /\ pc = "done" /\ Len(path) \in Nat
  BY <1>1 DEF FindInv, PathType
<1>3. cur \in 1 .. Len(path) /\ PathChar = path[cur]
  BY <1>1, <1>2 DEF PathChar, Separators, Walked
<1>4. AtSeparator(path, cur, croot) /\ croot # NoNode
  BY <1>1, <1>2, <1>3, SeparatorHere DEF Walked
<1>5. /\ cut \in cur + 1 .. Len(path) + 1
      /\ \A i \in cur + 1 .. cut - 1 : path[i] \notin Separators
      /\ cut <= Len(path) => path[cut] \in Separators
  BY <1>2, <1>3, CutIs
<1>6. /\ PathType(q) /\ Len(q) = Len(path) - b
      /\ \A i \in 1 .. Len(q) : q[i] = path[b + i]
      /\ b \in 0 .. Len(path)
  BY <1>2, TrimmedIs, BlanksIs
<1>7. /\ b + 1 <= cur /\ path[cur] \in Separators /\ q[1] \in Separators
      /\ croot = Steps(val, q)[s - 1]
  <2>1. cur - 1 - b = s - 1
    BY <1>3, <1>6
  <2> QED
    BY <1>3, <1>4, <1>6, <2>1 DEF AtSeparator
<1>8. chars = SubSeq(q, s + 1, t)
  <2> HIDE DEF cut
  <2>1. /\ cur + 1 \in b + 1 .. Len(path) + 1 /\ cut - 1 \in (cur + 1) - 1 .. Len(path)
        /\ (cur + 1) - b = s + 1 /\ (cut - 1) - b = t
    BY <1>2, <1>3, <1>5, <1>6, <1>7
  <2>2. SubSeq(q, (cur + 1) - b, (cut - 1) - b) = SubSeq(path, cur + 1, cut - 1)
    BY <1>2, <2>1, PieceIs
  <2> QED
    BY <2>1, <2>2
<1> HIDE DEF b, q, cut, chars
<1>9. /\ s \in 1 .. Len(q) /\ t \in s .. Len(q)
      /\ q[s] = path[cur]
      /\ \A i \in s + 1 .. t : q[i] \notin Separators
  <2>1. s \in 1 .. Len(q) /\ t \in s .. Len(q) /\ b + s = cur
    BY <1>2, <1>3, <1>5, <1>6, <1>7
  <2>2. ASSUME NEW i \in s + 1 .. t PROVE q[i] \notin Separators
    <3>1. i \in 1 .. Len(q) /\ b + i \in cur + 1 .. cut - 1
      BY <1>2, <1>3, <1>5, <1>6, <1>7, <2>1
    <3> QED
      BY <1>5, <1>6, <3>1
  <2> QED
    BY <1>6, <2>1, <2>2
<1>10. next = OneStep(croot, PathStep(q, s, t))
  BY <1>3, <1>4, <1>8, <1>9 DEF OneStep, PathStep
<1> HIDE DEF next
<1>11. Steps(val, q)[t] = next
  <2>1. Steps(val, q)[t] = OneStep(Steps(val, q)[s - 1],
                                   PathStep(q, s, t))
    <3>1. OneLeg(q, s, t)
      BY <1>6, <1>7, <1>9 DEF OneLeg
    <3> HIDE DEF s, t
    <3> QED
      BY <3>1, StepsNext
  <2> QED
    BY <1>7, <1>10, <2>1
<1>12. q # <<>> /\ Len(q) \in Nat
  BY <1>6, <1>9 DEF PathType
<1>13. CASE next # NoNode /\ cut <= Len(path)
  <2>1. cur' = cut /\ cut # Found /\ t = cut - 1 - b
    BY <1>1, <1>2, <1>3, <1>5, <1>13 DEF Found
  <2>2. AtSeparator(path, cut, next)
    BY <1>2, <1>3, <1>5, <1>6, <1>7, <1>11, <1>13 DEF AtSeparator, b, q
  <2>3. Walked(path, cut, next)
    BY <1>2, <1>3, <1>5, <1>13, <2>2 DEF Walked
  <2>4. (Walked(path, cur, croot))'
    BY <1>1, <2>1, <2>3 DEF Walked, AtSeparator
  <2> QED
    BY <1>1, <1>2, <2>1, <2>4 DEF FindInv, PathsFind
<1>14. CASE next = NoNode \/ cut > Len(path)
  <2>1. cur' = Found
    BY <1>1, <1>3, <1>5, <1>14
  <2>2. Steps(val, q)[Len(q)] = next
    <3>1. CASE next = NoNode
      <4>1. t \in 0 .. Len(q) /\ (t < Len(q) => q[t + 1] \in Separators)
        <5>1. t \in 0 .. Len(q)
          BY <1>9, <1>12
        <5>2. ASSUME t < Len(q) PROVE q[t + 1] \in Separators
          <6>1. cut <= Len(path) /\ b + (t + 1) = cut /\ t + 1 \in 1 .. Len(q)
            BY <1>2, <1>5, <1>6, <1>9, <5>1, <5>2
          <6> QED
            BY <1>5, <1>6, <6>1
        <5> QED
          BY <5>1, <5>2
      <4> HIDE DEF t
      <4> QED
        BY <1>6, <1>7, <1>11, <3>1, <4>1, StepsStuck
    <3>2. CASE cut > Len(path)
      <4>1. t = Len(q)
        <5>1. cut = Len(path) + 1
          BY <1>2, <1>3, <1>5, <3>2
        <5>2. t = cut - 1 - b
          BY DEF t
        <5> QED
          BY <5>1, <5>2, <1>6, <1>2
      <4> QED
        BY <1>11, <4>1
    <3> QED
      BY <1>14, <3>1, <3>2
  <2>3. Follow(val, path) = next
    BY <1>7, <1>12, <2>2 DEF Follow, q
  <2> QED
    BY <1>1, <1>2, <2>1, <2>3 DEF FindInv, PathsFind
<1> QED
  BY <1>2, <1>5, <1>13, <1>14

\* The other rounds.
LEMMA FindEndsKeeps ==
    ASSUME FindInv, FindEnds, val' = val, pc' = pc
    PROVE  FindInv'
<1>1. PathType(path) /\ Walked(path, cur, croot) /\ pc = "done"
  BY DEF FindEnds, FindInv
<1>2. Len(path) \in Nat /\ cur \in 1 .. Len(path) + 1
  BY <1>1 DEF PathType, Walked
<1>3. \A i \in 1 .. Len(path) : path[i] # "end"
  BY <1>1 DEF PathType
<1>4. path' = path /\ cur' = Found
  BY DEF FindEnds
<1>5. CASE PathChar = "end" /\ croot' = croot
  <2>1. cur = Len(path) + 1
    BY <1>2, <1>3, <1>5 DEF PathChar
  <2>2. Follow(val, path) = croot
    BY <1>1, <2>1, EndsHere
  <2> QED
    BY <1>1, <1>4, <1>5, <2>2 DEF FindInv, PathsFind
<1>6. CASE PathChar \notin Separators \union {"sp", "end"} /\ croot' = NoNode
  <2>1. cur <= Len(path) /\ path[cur] \notin Separators \union {"sp"}
    BY <1>2, <1>6 DEF PathChar
  <2>2. Follow(val, path) = NoNode
    BY <1>1, <2>1, EndsHere
  <2> QED
    BY <1>1, <1>4, <1>6, <2>2 DEF FindInv, PathsFind
<1> QED
  BY <1>5, <1>6 DEF FindEnds

\* FindSkips goes on behind a space.
LEMMA FindSkipsKeeps ==
    ASSUME FindInv, FindSkips, val' = val, pc' = pc
    PROVE  FindInv'
<1>1. PathType(path) /\ Walked(path, cur, croot) /\ pc = "done"
  BY DEF FindSkips, FindInv
<1>2. Len(path) \in Nat /\ cur \in 1 .. Len(path) + 1
  BY <1>1 DEF PathType, Walked
<1>3. cur \in 1 .. Len(path) /\ path[cur] = "sp"
  BY <1>2 DEF FindSkips, PathChar
<1>4. croot = val /\ \A i \in 1 .. cur - 1 : path[i] = "sp"
  BY <1>1, <1>3 DEF Walked, AtSeparator, Separators
<1>5. cur + 1 \in 1 .. Len(path) + 1 /\ \A i \in 1 .. (cur + 1) - 1 : path[i] = "sp"
  <2>1. \A i \in 1 .. (cur + 1) - 1 : i = cur \/ i \in 1 .. cur - 1
    BY <1>2
  <2> QED
    BY <1>2, <1>3, <1>4, <2>1
<1>6. Walked(path, cur + 1, croot)
  BY <1>1, <1>4, <1>5 DEF Walked
<1>7. path' = path /\ croot' = croot /\ cur' = cur + 1 /\ cur + 1 # Found
  BY <1>3 DEF FindSkips, Found
<1>8. (Walked(path, cur, croot))'
  BY <1>6, <1>7 DEF Walked, AtSeparator
<1> QED
  BY <1>1, <1>7, <1>8 DEF FindInv, PathsFind

\* Every step of a client keeps what joFind has found.
LEMMA FindStep == FindInv /\ [TextNext]_textVars => FindInv'
<1> SUFFICES ASSUME FindInv, [TextNext]_textVars PROVE FindInv'
  OBVIOUS
<1>1. ASSUME UNCHANGED findVars, UNCHANGED vars PROVE FindInv'
  BY <1>1 DEF FindInv, Walked, AtSeparator, PathsFind, findVars, vars
<1>2. ASSUME UNCHANGED findVars, pc # "done" PROVE FindInv'
  <2>1. path = NoPath /\ cur = Found
    BY <1>2 DEF FindInv
  <2> QED
    BY <1>2, <2>1 DEF FindInv, PathsFind, findVars
<1>3. CASE PrintChunk
  BY <1>1, <1>3 DEF PrintChunk, parseVars
<1>4. CASE ParseWritten
  BY <1>2, <1>4 DEF ParseWritten
<1>5. CASE Parse
  <2>1. pc # "done" \/ Next
    BY <1>5 DEF Parse, NeedsScan, ParseNext
  <2>2. Next => pc # "done"
    BY DEF Next, SkipSpace, ParseLeaf, ParseLeafNoMemory, ParseLeafFails, OpenContainer,
           OpenNoMemory, CloseContainer, Comma, NextChild, LoopFails, ReturnItem,
           AppendNoMemory, ArrayEnds, ReturnName, ReturnMember, MemberFails, Finish
  <2> QED
    BY <1>2, <1>5, <2>1, <2>2 DEF Parse
<1>6. CASE Look
  <2>1. PICK p \in Paths : joFind(p)
    BY <1>6 DEF Look
  <2>2. /\ path' = p /\ cur' = 1 /\ croot' = val
        /\ pc = "done" /\ val # NoNode /\ pc' = pc /\ val' = val
    BY <1>6, <2>1 DEF Look, joFind, parseVars, vars
  <2>3. PathType(p) /\ Len(p) \in Nat
    BY PathsAssumption DEF PathType
  <2>4. Walked(p, 1, val)
    BY <2>2, <2>3 DEF Walked
  <2>5. (Walked(path, cur, croot))'
    BY <2>2, <2>4 DEF Walked, AtSeparator
  <2> QED
    BY <2>2, <2>3, <2>5 DEF FindInv, PathsFind, Found
<1>7. CASE Find
  <2>1. val' = val /\ pc' = pc
    BY <1>7 DEF Find, parseVars, vars
  <2> QED
    BY <1>7, <2>1, FindEndsKeeps, FindSkipsKeeps, FindStepsKeeps DEF Find, FindNext
<1>8. CASE UNCHANGED textVars
  BY <1>1, <1>8 DEF textVars
<1> QED
  BY <1>3, <1>4, <1>5, <1>6, <1>7, <1>8 DEF TextNext

\* Theorem: for every tree that a text or a printout was parsed to and every
\* path, joFind returns the value that the path's steps lead to, one after the
\* other, or none: it cuts the path at every separator, goes on from the value
\* it reached, and stops for good where there is none.
THEOREM PathTheorem == TextSpec => []PathsFind
<1>1. TextInit => FindInv
  <2> SUFFICES ASSUME TextInit PROVE FindInv
    OBVIOUS
  <2>1. path = NoPath /\ cur = Found
    BY DEF TextInit
  <2> QED
    BY <2>1 DEF FindInv, PathsFind
<1>2. FindInv => PathsFind
  BY DEF FindInv
<1> QED
  BY <1>1, <1>2, FindStep, PTL DEF TextSpec

-----------------------------------------------------------------------------
(***************************************************************************)
(* Dynamic strings.  What has been appended stands at the beginning of the *)
(* buffer, and behind it there is at least one zero.                       *)
(***************************************************************************)
Cells == STRING \union {"num", "broken", "NUL", "nl", "wide", "odd"}

IsString(ds) ==
    /\ ds \in [buffer : Seq(Cells), len : Nat]
    /\ \/ ds.buffer = <<>> /\ ds.len = 0
       \/ /\ Len(ds.buffer) >= 2 /\ ds.len < Len(ds.buffer)
          /\ \A i \in ds.len + 1 .. Len(ds.buffer) : ds.buffer[i] = "NUL"

Content(ds) == SubSeq(ds.buffer, 1, ds.len)

\* What has been appended to a string.
LEMMA ContentIs ==
    ASSUME NEW ds, IsString(ds)
    PROVE  /\ Content(ds) \in Seq(Cells) /\ Len(Content(ds)) = ds.len /\ ds.len \in Nat
           /\ \A i \in 1 .. ds.len : Content(ds)[i] = ds.buffer[i]
BY DEF IsString, Content

\* Nothing, when there is no buffer.
LEMMA NoBufferIs == IsString(NoBuffer) /\ Content(NoBuffer) = <<>>
<1>1. NoBuffer.buffer = <<>> /\ NoBuffer.len = 0 /\ <<>> \in Seq(Cells)
  BY DEF NoBuffer
<1>2. IsString(NoBuffer)
  BY <1>1 DEF IsString, NoBuffer
<1> QED
  BY <1>1, <1>2, ContentIs

\* What calloc gives.
LEMMA ZerosIs ==
    ASSUME NEW n \in Nat
    PROVE  /\ Zeros(n) \in Seq(Cells) /\ Len(Zeros(n)) = n
           /\ \A i \in 1 .. n : Zeros(n)[i] = "NUL"
BY DEF Zeros, Cells

\* There is room for one character more and a zero.
LEMMA RoomIs ==
    ASSUME NEW ds, IsString(ds)
    PROVE  /\ Room(ds) \in Seq(Cells)
           /\ Len(Room(ds)) >= 2 /\ ds.len + 1 < Len(Room(ds))
           /\ \A i \in 1 .. ds.len : Room(ds)[i] = ds.buffer[i]
           /\ \A i \in ds.len + 1 .. Len(Room(ds)) : Room(ds)[i] = "NUL"
<1>1. ds.buffer \in Seq(Cells) /\ ds.len \in Nat
  BY DEF IsString
<1>2. CASE ds.buffer = <<>>
  <2>1. /\ DsInitialLen \in Nat /\ DsInitialLen >= 2 /\ ds.len = 0
        /\ Room(ds) = Zeros(DsInitialLen)
    BY <1>2, DsInitialLenAssumption DEF IsString, Room
  <2> DEFINE z == Zeros(DsInitialLen)
  <2>2. /\ z \in Seq(Cells) /\ Len(z) = DsInitialLen
        /\ \A i \in 1 .. DsInitialLen : z[i] = "NUL"
    BY <2>1, ZerosIs
  <2> HIDE DEF z
  <2>3. ds.len = 0 /\ Room(ds) = z /\ DsInitialLen \in Nat /\ DsInitialLen >= 2
    BY <2>1 DEF z
  <2> QED
    BY ONLY <2>2, <2>3
<1>3. CASE ds.buffer # <<>> /\ NeedsMemory(ds)
  <2> DEFINE L == Len(ds.buffer)
             z == (L * 3) \div 2 - ds.len
             kept == SubSeq(ds.buffer, 1, ds.len)
  <2>1. L \in Nat /\ L >= 2 /\ ds.len + 1 = L
    BY <1>1, <1>3 DEF IsString, NeedsMemory
  <2>2. z \in Nat /\ z >= 2
    <3> HIDE DEF L
    <3>1. (L * 3) \div 2 \in Nat /\ (L * 3) \div 2 >= L + 1
      BY <2>1
    <3> QED
      BY <1>1, <2>1, <3>1
  <2>3. /\ kept \in Seq(Cells) /\ Len(kept) = ds.len
        /\ \A i \in 1 .. ds.len : kept[i] = ds.buffer[i]
    BY <1>1, <2>1
  <2>7. Room(ds) = kept \o Zeros(z)
    BY <1>3 DEF Room
  <2> HIDE DEF L, z, kept
  <2>4. /\ Zeros(z) \in Seq(Cells) /\ Len(Zeros(z)) = z
        /\ \A i \in 1 .. z : Zeros(z)[i] = "NUL"
    BY <2>2, ZerosIs
  <2>5. /\ Room(ds) \in Seq(Cells) /\ Len(Room(ds)) = ds.len + z
        /\ \A i \in 1 .. ds.len : Room(ds)[i] = kept[i]
        /\ \A i \in ds.len + 1 .. ds.len + z : Room(ds)[i] = Zeros(z)[i - ds.len]
    <3> DEFINE y == Zeros(z)
    <3>1. /\ kept \o y \in Seq(Cells) /\ Len(kept \o y) = Len(kept) + Len(y)
          /\ \A i \in 1 .. Len(kept) + Len(y) :
                (kept \o y)[i] = IF i <= Len(kept) THEN kept[i] ELSE y[i - Len(kept)]
      <4> HIDE DEF y
      <4> QED
        BY <2>3, <2>4, ConcatProperties DEF y
    <3> HIDE DEF y
    <3>2. Len(kept) = ds.len /\ Len(y) = z
      BY <2>3, <2>4 DEF y
    <3> QED
      BY <1>1, <2>2, <2>7, <3>1, <3>2 DEF y
  <2>6. \A i \in ds.len + 1 .. ds.len + z : i - ds.len \in 1 .. z
    BY <1>1, <2>2
  <2> QED
    BY <1>1, <2>2, <2>3, <2>4, <2>5, <2>6
<1>4. CASE ds.buffer # <<>> /\ ~NeedsMemory(ds)
  BY <1>1, <1>4 DEF IsString, Room, NeedsMemory
<1> QED
  BY <1>2, <1>3, <1>4

\* dsAppend appends, and leaves a zero behind.
LEMMA dsAppendIs ==
    ASSUME NEW ds, IsString(ds), NEW c \in Cells
    PROVE  /\ IsString(dsAppend(ds, c))
           /\ dsAppend(ds, c).buffer # <<>>
           /\ Content(dsAppend(ds, c)) = Append(Content(ds), c)
<1> DEFINE r == Room(ds)
           b == [r EXCEPT ![ds.len + 1] = c]
           new == dsAppend(ds, c)
<1>1. /\ r \in Seq(Cells) /\ Len(r) >= 2 /\ ds.len + 1 < Len(r) /\ ds.len \in Nat
      /\ \A i \in 1 .. ds.len : r[i] = ds.buffer[i]
      /\ \A i \in ds.len + 1 .. Len(r) : r[i] = "NUL"
  BY RoomIs, ContentIs
<1> HIDE DEF r
<1>2. new = [buffer |-> b, len |-> ds.len + 1]
  BY DEF dsAppend, r
<1>3. /\ b \in Seq(Cells) /\ Len(b) = Len(r) /\ b[ds.len + 1] = c
      /\ \A i \in 1 .. Len(r) : i # ds.len + 1 => b[i] = r[i]
  BY <1>1
<1> HIDE DEF b, new
<1>4. new.buffer = b /\ new.len = ds.len + 1
  BY <1>2
<1>5. IsString(new)
  <2>1. new \in [buffer : Seq(Cells), len : Nat]
    BY <1>1, <1>2, <1>3
  <2>2. \A i \in ds.len + 2 .. Len(b) : b[i] = "NUL"
    BY <1>1, <1>3
  <2> QED
    BY <1>1, <1>3, <1>4, <2>1, <2>2 DEF IsString
<1>6. b # <<>>
  BY <1>1, <1>3
<1>7. Content(new) = Append(Content(ds), c)
  <2> DEFINE x == Content(new)
             y == Append(Content(ds), c)
  <2>1. /\ Content(ds) \in Seq(Cells) /\ Len(Content(ds)) = ds.len
        /\ \A i \in 1 .. ds.len : Content(ds)[i] = ds.buffer[i]
    BY ContentIs
  <2>2. /\ x \in Seq(Cells) /\ Len(x) = ds.len + 1
        /\ \A i \in 1 .. ds.len + 1 : x[i] = b[i]
    BY <1>4, <1>5, ContentIs
  <2>3. /\ y \in Seq(Cells) /\ Len(y) = ds.len + 1 /\ y[ds.len + 1] = c
        /\ \A i \in 1 .. ds.len : y[i] = Content(ds)[i]
    BY <1>1, <2>1
  <2> HIDE DEF x, y
  <2>4. \A i \in 1 .. ds.len + 1 : x[i] = y[i]
    <3> SUFFICES ASSUME NEW i \in 1 .. ds.len + 1 PROVE x[i] = y[i]
      OBVIOUS
    <3>1. CASE i = ds.len + 1
      BY <1>1, <1>3, <2>2, <2>3, <3>1
    <3>2. CASE i # ds.len + 1
      <4>1. i \in 1 .. ds.len /\ i \in 1 .. Len(r)
        BY <1>1, <3>2
      <4> QED
        BY <1>1, <1>3, <2>1, <2>2, <2>3, <3>2, <4>1
    <3> QED
      BY <3>1, <3>2
  <2>5. x = y
    BY <2>2, <2>3, <2>4, SeqEqual
  <2> QED
    BY <2>5 DEF x, y
<1> QED
  BY <1>4, <1>5, <1>6, <1>7 DEF new

\* The first zero of s, or the place behind s, is at k.
ZeroAt(s, k) ==
    /\ k \in 1 .. Len(s) + 1
    /\ \A i \in 1 .. k - 1 : s[i] # "NUL"
    /\ k <= Len(s) => s[k] = "NUL"

\* It is somewhere, at the latest behind the cells.
LEMMA ZeroExists ==
    ASSUME NEW s \in Seq(Cells)
    PROVE  \E k : ZeroAt(s, k)
<1> DEFINE n == Len(s) + 1
           T == { i \in 1 .. Len(s) : s[i] # "NUL" }
<1>1. Len(s) \in Nat /\ n \in Nat /\ 1 \in 1 .. n /\ n \notin T
  OBVIOUS
<1>2. PICK k \in 1 .. n : (\A r \in 1 .. k - 1 : r \in T) /\ k \notin T
  <2> HIDE DEF T, n
  <2> QED
    BY <1>1, FirstWithout
<1> QED
  BY <1>1, <1>2 DEF ZeroAt

\* A reader stops in front of it.
LEMMA UpToZeroIs ==
    ASSUME NEW s \in Seq(Cells), NEW k, ZeroAt(s, k)
    PROVE  UpToZero(s) = SubSeq(s, 1, k - 1)
<1> DEFINE zeros == { i \in DOMAIN s : s[i] = "NUL" }
<1>1. Len(s) \in Nat /\ k \in 1 .. Len(s) + 1 /\ DOMAIN s = 1 .. Len(s)
  BY DEF ZeroAt
<1>2. CASE k = Len(s) + 1
  <2>1. zeros = {}
    BY <1>1, <1>2 DEF ZeroAt
  <2>2. UpToZero(s) = s
    BY <2>1 DEF UpToZero
  <2>3. SubSeq(s, 1, k - 1) \in Seq(Cells) /\ Len(SubSeq(s, 1, k - 1)) = Len(s)
        /\ \A i \in 1 .. Len(s) : SubSeq(s, 1, k - 1)[i] = s[i]
    BY <1>1, <1>2
  <2>4. SubSeq(s, 1, k - 1) = s
    BY <2>3, SeqEqual
  <2> QED
    BY <2>2, <2>4
<1>3. CASE k # Len(s) + 1
  <2>1. k \in zeros /\ \A j \in zeros : k <= j
    BY <1>1, <1>3 DEF ZeroAt
  <2>2. \A i \in zeros : (\A j \in zeros : i <= j) => i = k
    BY <1>1, <2>1
  <2>3. UpToZero(s) = SubSeq(s, 1, (CHOOSE i \in zeros : \A j \in zeros : i <= j) - 1)
    BY <2>1 DEF UpToZero
  <2> HIDE DEF zeros
  <2>4. (CHOOSE i \in zeros : \A j \in zeros : i <= j) = k
    BY <2>1, <2>2
  <2> QED
    BY <2>3, <2>4
<1> QED
  BY <1>2, <1>3

\* Beginnings of two sequences that agree so far.
LEMMA SameBeginnings ==
    ASSUME NEW s \in Seq(Cells), NEW t \in Seq(Cells), NEW n \in Nat, n <= Len(s), n <= Len(t),
           \A i \in 1 .. n : s[i] = t[i]
    PROVE  SubSeq(s, 1, n) = SubSeq(t, 1, n)
<1>1. /\ SubSeq(s, 1, n) \in Seq(Cells) /\ Len(SubSeq(s, 1, n)) = n
      /\ \A i \in 1 .. n : SubSeq(s, 1, n)[i] = s[i]
  OBVIOUS
<1>2. /\ SubSeq(t, 1, n) \in Seq(Cells) /\ Len(SubSeq(t, 1, n)) = n
      /\ \A i \in 1 .. n : SubSeq(t, 1, n)[i] = t[i]
  OBVIOUS
<1>3. \A i \in 1 .. n : SubSeq(s, 1, n)[i] = SubSeq(t, 1, n)[i]
  BY <1>1, <1>2
<1> QED
  BY <1>1, <1>2, <1>3, SeqEqual

\* A reader of the buffer sees what was appended, up to the first zero in it.
LEMMA CStringIs ==
    ASSUME NEW ds, IsString(ds), ds.buffer # <<>>
    PROVE  CString(ds) = UpToZero(Content(ds))
<1> DEFINE b == ds.buffer
           c == Content(ds)
           zeros == { i \in DOMAIN b : b[i] = "NUL" }
<1>1. /\ b \in Seq(Cells) /\ ds.len \in Nat /\ ds.len < Len(b) /\ DOMAIN b = 1 .. Len(b)
      /\ \A i \in ds.len + 1 .. Len(b) : b[i] = "NUL"
  BY DEF IsString
<1>2. /\ c \in Seq(Cells) /\ Len(c) = ds.len
      /\ \A i \in 1 .. ds.len : c[i] = b[i]
  BY ContentIs
<1> HIDE DEF b, c
<1>3. PICK k : ZeroAt(c, k)
  BY <1>2, ZeroExists
<1>4. k \in 1 .. ds.len + 1 /\ k \in 1 .. Len(b)
  BY <1>1, <1>2, <1>3 DEF ZeroAt
<1>5. b[k] = "NUL" /\ \A i \in 1 .. k - 1 : b[i] # "NUL"
  <2>1. ASSUME k <= ds.len PROVE b[k] = "NUL"
    BY <1>2, <1>3, <1>4, <2>1 DEF ZeroAt
  <2>2. ASSUME k = ds.len + 1 PROVE b[k] = "NUL"
    BY <1>1, <2>2
  <2>3. ASSUME NEW i \in 1 .. k - 1 PROVE b[i] # "NUL"
    BY <1>2, <1>3, <1>4 DEF ZeroAt
  <2> QED
    BY <1>1, <1>4, <2>1, <2>2, <2>3
<1>6. k \in zeros /\ \A j \in zeros : k <= j
  BY <1>1, <1>4, <1>5
<1>7. \A i \in zeros : (\A j \in zeros : i <= j) => i = k
  BY <1>1, <1>4, <1>6
<1>8. CString(ds) = SubSeq(b, 1, (CHOOSE i \in zeros : \A j \in zeros : i <= j) - 1)
  BY <1>6 DEF CString, b
<1> HIDE DEF zeros
<1>9. CString(ds) = SubSeq(b, 1, k - 1)
  <2>1. (CHOOSE i \in zeros : \A j \in zeros : i <= j) = k
    BY <1>6, <1>7
  <2> QED
    BY <1>8, <2>1
<1>10. UpToZero(c) = SubSeq(c, 1, k - 1)
  BY <1>2, <1>3, UpToZeroIs
<1>11. SubSeq(c, 1, k - 1) = SubSeq(b, 1, k - 1)
  <2>1. k - 1 \in Nat /\ k - 1 <= Len(c) /\ k - 1 <= Len(b) /\ \A i \in 1 .. k - 1 : c[i] = b[i]
    BY <1>1, <1>2, <1>4
  <2> QED
    BY <1>1, <1>2, <2>1, SameBeginnings
<1> QED
  BY <1>9, <1>10, <1>11 DEF c

\* A zero more or less at the end is not seen.
LEMMA UpToZeroAppend ==
    ASSUME NEW s \in Seq(Cells)
    PROVE  UpToZero(Append(s, "NUL")) = UpToZero(s)
<1> DEFINE t == Append(s, "NUL")
<1>1. /\ t \in Seq(Cells) /\ Len(t) = Len(s) + 1 /\ t[Len(s) + 1] = "NUL" /\ Len(s) \in Nat
      /\ \A i \in 1 .. Len(s) : t[i] = s[i]
  BY DEF Cells
<1> HIDE DEF t
<1>2. PICK k : ZeroAt(s, k)
  BY ZeroExists
<1>3. ZeroAt(t, k)
  BY <1>1, <1>2 DEF ZeroAt
<1>4. k - 1 \in Nat /\ k - 1 <= Len(s) /\ k - 1 <= Len(t) /\ \A i \in 1 .. k - 1 : s[i] = t[i]
  BY <1>1, <1>2 DEF ZeroAt
<1>5. SubSeq(s, 1, k - 1) = SubSeq(t, 1, k - 1)
  BY <1>1, <1>4, SameBeginnings
<1> QED
  BY <1>1, <1>2, <1>3, <1>5, UpToZeroIs DEF t

\* A string without a zero is all seen.
LEMMA UpToZeroAll ==
    ASSUME NEW s \in Seq(Cells), \A i \in 1 .. Len(s) : s[i] # "NUL"
    PROVE  UpToZero(s) = s
<1>1. { i \in DOMAIN s : s[i] = "NUL" } = {}
  OBVIOUS
<1> QED
  BY <1>1 DEF UpToZero

-----------------------------------------------------------------------------
(***************************************************************************)
(* What a literal means.                                                   *)
(***************************************************************************)
\* The step of Decodings.
DecodingStep(body, rules, n, f) ==
    IF n = 0 THEN {<<>>}
    ELSE UNION { Joined(f[m], LastUnit(body, rules, m, n)) :
                 m \in { k \in 0 .. n - 1 : LastUnit(body, rules, k, n) # {} } }

ByDecoding == INSTANCE StepRecursion WITH Step <- LAMBDA w, n, f : DecodingStep(w[1], w[2], n, f)

\* So Decodings is the function that goes on from shorter beginnings.
LEMMA DecodingsByLength ==
    ASSUME NEW body, NEW rules, Len(body) \in Nat
    PROVE  Decodings(body, rules)
             = [n \in 0 .. Len(body) |-> DecodingStep(body, rules, n, Decodings(body, rules))]
<1> DEFINE w == <<body, rules>>
<1>1. w[1] = body /\ w[2] = rules
  OBVIOUS
<1>2. ASSUME NEW n \in 0 .. Len(body), NEW f, NEW g, \A j \in 0 .. n - 1 : f[j] = g[j]
      PROVE  DecodingStep(body, rules, n, f) = DecodingStep(body, rules, n, g)
  <2> DEFINE Of(h, m) == Joined(h[m], LastUnit(body, rules, m, n))
             M == { k \in 0 .. n - 1 : LastUnit(body, rules, k, n) # {} }
  <2>1. \A m \in M : Of(f, m) = Of(g, m)
    BY <1>2
  <2> HIDE DEF Of, M
  <2>2. { Of(f, m) : m \in M } = { Of(g, m) : m \in M }
    BY <2>1
  <2> QED
    BY <2>2 DEF DecodingStep, Of, M
<1> HIDE DEF w
<1>3. \E g : g = [n \in 0 .. Len(body) |-> DecodingStep(w[1], w[2], n, g)]
  <2>1. \A n \in 0 .. Len(body) : \A f, g : (\A j \in 0 .. n - 1 : f[j] = g[j]) =>
           DecodingStep(w[1], w[2], n, f) = DecodingStep(w[1], w[2], n, g)
    BY <1>1, <1>2
  <2> QED
    BY <2>1, ByDecoding!Exists
<1>4. \E g : g = [n \in 0 .. Len(body) |-> DecodingStep(body, rules, n, g)]
  BY <1>1, <1>3
<1>5. Decodings(body, rules)
        = CHOOSE g : g = [n \in 0 .. Len(body) |-> DecodingStep(body, rules, n, g)]
  BY DEF Decodings, DecodingStep
<1> QED
  BY <1>4, <1>5

\* Nothing means nothing; what a unit means comes behind what the text before
\* it means.
LEMMA DecodingsAre ==
    ASSUME NEW body, NEW rules, Len(body) \in Nat
    PROVE  /\ Decodings(body, rules)[0] = {<<>>}
           /\ \A n \in 1 .. Len(body) : \A m \in 0 .. n - 1 :
                \A most \in Decodings(body, rules)[m], last \in LastUnit(body, rules, m, n) :
                   most \o last \in Decodings(body, rules)[n]
           /\ \A n \in 1 .. Len(body) : Decodings(body, rules)[n] # {} =>
                \E m \in 0 .. n - 1 : /\ Decodings(body, rules)[m] # {}
                                      /\ LastUnit(body, rules, m, n) # {}
<1> DEFINE f == Decodings(body, rules)
           Of(m, n) == Joined(f[m], LastUnit(body, rules, m, n))
           M(n) == { k \in 0 .. n - 1 : LastUnit(body, rules, k, n) # {} }
<1>2. f = [n \in 0 .. Len(body) |-> DecodingStep(body, rules, n, f)]
  BY DecodingsByLength
<1> HIDE DEF f
<1>3. /\ f[0] = DecodingStep(body, rules, 0, f)
      /\ \A n \in 1 .. Len(body) : f[n] = DecodingStep(body, rules, n, f)
  BY <1>2
<1>4. f[0] = {<<>>}
  BY <1>3 DEF DecodingStep
<1>5. ASSUME NEW n \in 1 .. Len(body) PROVE f[n] = UNION { Of(m, n) : m \in M(n) }
  <2>1. n # 0
    OBVIOUS
  <2>2. f[n] = DecodingStep(body, rules, n, f)
    BY <1>3
  <2> QED
    BY <2>1, <2>2 DEF DecodingStep
<1>6. ASSUME NEW n \in 1 .. Len(body), NEW m \in 0 .. n - 1,
             NEW most \in f[m], NEW last \in LastUnit(body, rules, m, n)
      PROVE  most \o last \in f[n]
  <2>1. m \in M(n) /\ most \o last \in Of(m, n)
    BY DEF Joined
  <2> HIDE DEF Of, M
  <2> QED
    BY <1>5, <2>1
<1>7. ASSUME NEW n \in 1 .. Len(body), f[n] # {}
      PROVE  \E m \in 0 .. n - 1 : f[m] # {} /\ LastUnit(body, rules, m, n) # {}
  <2>1. PICK m \in M(n) : Of(m, n) # {}
    <3> HIDE DEF Of, M
    <3> QED
      BY <1>5, <1>7
  <2> QED
    BY <2>1 DEF Joined
<1> QED
  BY <1>4, <1>6, <1>7 DEF f

-----------------------------------------------------------------------------
(***************************************************************************)
(* The units.                                                              *)
(***************************************************************************)
LEMMA AlikeIs ==
    ASSUME NEW u, NEW a, NEW b, NEW c
    PROVE  /\ Alike(u, <<a, b>>) <=> Len(u) = 2 /\ u[1] \in a /\ u[2] \in b
           /\ Alike(u, <<a, b, c>>) <=> Len(u) = 3 /\ u[1] \in a /\ u[2] \in b /\ u[3] \in c
<1>1. Alike(u, <<a, b>>) <=> Len(u) = 2 /\ u[1] \in a /\ u[2] \in b
  <2> DEFINE s == <<a, b>>
  <2>1. Len(s) = 2 /\ DOMAIN s = 1 .. 2 /\ s[1] = a /\ s[2] = b
    OBVIOUS
  <2>2. \A i : i \in 1 .. 2 <=> i = 1 \/ i = 2
    OBVIOUS
  <2> HIDE DEF s
  <2>3. Alike(u, s) <=> Len(u) = 2 /\ u[1] \in a /\ u[2] \in b
    BY <2>1, <2>2 DEF Alike
  <2> QED
    BY <2>3 DEF s
<1>2. Alike(u, <<a, b, c>>) <=> Len(u) = 3 /\ u[1] \in a /\ u[2] \in b /\ u[3] \in c
  <2> DEFINE s == <<a, b, c>>
  <2>1. Len(s) = 3 /\ DOMAIN s = 1 .. 3 /\ s[1] = a /\ s[2] = b /\ s[3] = c
    OBVIOUS
  <2>2. \A i : i \in 1 .. 3 <=> i = 1 \/ i = 2 \/ i = 3
    OBVIOUS
  <2> HIDE DEF s
  <2>3. Alike(u, s) <=> Len(u) = 3 /\ u[1] \in a /\ u[2] \in b /\ u[3] \in c
    BY <2>1, <2>2 DEF Alike
  <2> QED
    BY <2>3 DEF s
<1> QED
  BY <1>1, <1>2

\* A code is six characters, each of its class.
LEMMA AlikeCode ==
    ASSUME NEW u, NEW a, NEW b, NEW d
    PROVE  Alike(u, <<a, b, d, d, d, d>>)
             <=> Len(u) = 6 /\ u[1] \in a /\ u[2] \in b /\ \A i \in 3 .. 6 : u[i] \in d
<1> DEFINE s == <<a, b, d, d, d, d>>
<1>1. Len(s) = 6 /\ DOMAIN s = 1 .. 6 /\ s[1] = a /\ s[2] = b
  OBVIOUS
<1>2. s[3] = d /\ s[4] = d /\ s[5] = d /\ s[6] = d
  OBVIOUS
<1>3. \A i : i \in 3 .. 6 <=> i = 3 \/ i = 4 \/ i = 5 \/ i = 6
  OBVIOUS
<1>4. \A i : i \in 1 .. 6 <=> i = 1 \/ i = 2 \/ i \in 3 .. 6
  OBVIOUS
<1>5. \A i \in 3 .. 6 : s[i] = d
  BY <1>2, <1>3
<1> HIDE DEF s
<1>6. Alike(u, s) <=> Len(u) = 6 /\ u[1] \in a /\ u[2] \in b /\ \A i \in 3 .. 6 : u[i] \in d
  BY <1>1, <1>4, <1>5 DEF Alike
<1> QED
  BY <1>6 DEF s

\* The characters behind m and up to n are a unit of a kind.
IsPlain(b, m, n) == n = m + 1 /\ b[m + 1] \notin Special
IsEscape(b, m, n) == n = m + 2 /\ b[m + 1] = "bslash" /\ b[m + 2] \in Escaped
IsCode(b, m, n) ==
    n = m + 6 /\ b[m + 1] = "bslash" /\ b[m + 2] = "u" /\ \A i \in m + 3 .. m + 6 : b[i] \in Digits
IsSequence(b, m, n) ==
    \/ n = m + 2 /\ b[m + 1] = "lead2" /\ b[m + 2] = "tail"
    \/ n = m + 3 /\ b[m + 1] = "lead3" /\ b[m + 2] = "tail" /\ b[m + 3] = "tail"

CodeMeaning(b, m) == IF \A i \in m + 3 .. m + 6 : b[i] = "zero" THEN "NUL" ELSE "wide"

Body(b) == b \in Seq(Symbols)

\* A piece of what is behind the quote.
LEMMA PieceOf ==
    ASSUME NEW b, Body(b), NEW m \in Nat, NEW n \in m + 1 .. Len(b)
    PROVE  LET u == SubSeq(b, m + 1, n)
           IN  /\ Len(u) = n - m /\ Len(u) \in Nat \ {0}
               /\ \A i \in 1 .. n - m : u[i] = b[m + i]
BY DEF Body

\* JSON's units: a plain character, an escape, a code or a sequence.
LEMMA JsonUnitIs ==
    ASSUME NEW b, Body(b), NEW m \in Nat, NEW n \in m + 1 .. Len(b)
    PROVE  /\ LastUnit(b, "json", m, n) # {} =>
                IsPlain(b, m, n) \/ IsEscape(b, m, n) \/ IsCode(b, m, n) \/ IsSequence(b, m, n)
           /\ IsPlain(b, m, n) => <<b[m + 1]>> \in LastUnit(b, "json", m, n)
           /\ IsEscape(b, m, n) => <<Meaning(b[m + 2])>> \in LastUnit(b, "json", m, n)
           /\ IsCode(b, m, n) => <<CodeMeaning(b, m)>> \in LastUnit(b, "json", m, n)
           /\ IsSequence(b, m, n) => <<"wide">> \in LastUnit(b, "json", m, n)
<1> DEFINE u == SubSeq(b, m + 1, n)
<1>1. /\ Len(u) = n - m /\ Len(u) \in Nat \ {0}
      /\ \A i \in 1 .. n - m : u[i] = b[m + i]
  BY PieceOf
<1>2. LastUnit(b, "json", m, n) = JsonUnit(u)
  BY DEF LastUnit
<1> HIDE DEF u
<1>3. Len(u) >= 1 => u[1] = b[m + 1]
  BY <1>1
<1>4. Len(u) >= 2 => u[2] = b[m + 2]
  BY <1>1
<1>5. Len(u) >= 3 => u[3] = b[m + 3]
  BY <1>1
<1>6. Len(u) = 6 => \A d : (\A i \in 3 .. 6 : u[i] \in d) <=> (\A i \in m + 3 .. m + 6 : b[i] \in d)
  <2> SUFFICES ASSUME Len(u) = 6, NEW d
               PROVE (\A i \in 3 .. 6 : u[i] \in d) <=> (\A i \in m + 3 .. m + 6 : b[i] \in d)
    OBVIOUS
  <2>3. \A i \in 1 .. 6 : u[i] = b[m + i]
    BY <1>1
  <2>1. \A i \in 3 .. 6 : m + i \in m + 3 .. m + 6 /\ u[i] = b[m + i]
    BY <2>3
  <2>2. \A j \in m + 3 .. m + 6 : j - m \in 3 .. 6 /\ u[j - m] = b[j]
    <3> SUFFICES ASSUME NEW j \in m + 3 .. m + 6 PROVE j - m \in 3 .. 6 /\ u[j - m] = b[j]
      OBVIOUS
    <3>1. j - m \in 3 .. 6 /\ m + (j - m) = j
      OBVIOUS
    <3> QED
      BY <2>1, <3>1
  <2> QED
    BY <2>1, <2>2
<1>7. /\ Len(u) = 1 <=> n = m + 1
      /\ Len(u) = 2 <=> n = m + 2
      /\ Len(u) = 3 <=> n = m + 3
      /\ Len(u) = 6 <=> n = m + 6
  BY <1>1
<1>8. PlainUnit(u) = IF IsPlain(b, m, n) THEN {<<b[m + 1]>>} ELSE {}
  <2>1. Len(u) = 1 => u[1] = b[m + 1]
    BY <1>3
  <2> QED
    BY <1>7, <2>1 DEF PlainUnit, IsPlain
<1>9. /\ IsEscape(b, m, n) => EscapeUnit(u) = {<<Meaning(b[m + 2])>>}
      /\ IsCode(b, m, n) => EscapeUnit(u) = {<<CodeMeaning(b, m)>>}
      /\ EscapeUnit(u) # {} => IsEscape(b, m, n) \/ IsCode(b, m, n)
  <2> DEFINE A1 == Alike(u, <<{"bslash"}, {"quote", "bslash"}>>)
             A2 == Alike(u, <<{"bslash"}, {"n"}>>)
             A3 == Alike(u, <<{"bslash"}, {"u"}, {"zero"}, {"zero"}, {"zero"}, {"zero"}>>)
             A4 == Alike(u, <<{"bslash"}, {"u"}, Digits, Digits, Digits, Digits>>)
  <2>1. EscapeUnit(u) = IF A1 THEN {<<u[2]>>} ELSE IF A2 THEN {<<"nl">>}
                        ELSE IF A3 THEN {<<"NUL">>} ELSE IF A4 THEN {<<"wide">>} ELSE {}
    BY DEF EscapeUnit
  <2>2. A1 <=> n = m + 2 /\ b[m + 1] = "bslash" /\ b[m + 2] \in {"quote", "bslash"}
    <3>1. A1 <=> Len(u) = 2 /\ u[1] \in {"bslash"} /\ u[2] \in {"quote", "bslash"}
      BY AlikeIs
    <3> HIDE DEF A1
    <3> QED
      BY <1>1, <1>3, <1>4, <1>7, <3>1
  <2>3. A2 <=> n = m + 2 /\ b[m + 1] = "bslash" /\ b[m + 2] = "n"
    <3>1. A2 <=> Len(u) = 2 /\ u[1] \in {"bslash"} /\ u[2] \in {"n"}
      BY AlikeIs
    <3> HIDE DEF A2
    <3> QED
      BY <1>1, <1>3, <1>4, <1>7, <3>1
  <2>4. A3 <=> /\ n = m + 6 /\ b[m + 1] = "bslash" /\ b[m + 2] = "u"
               /\ \A i \in m + 3 .. m + 6 : b[i] \in {"zero"}
    <3>1. A3 <=> /\ Len(u) = 6 /\ u[1] \in {"bslash"} /\ u[2] \in {"u"}
                 /\ \A i \in 3 .. 6 : u[i] \in {"zero"}
      BY AlikeCode
    <3> HIDE DEF A3
    <3>2. CASE n = m + 6
      <4>1. Len(u) = 6 /\ u[1] = b[m + 1] /\ u[2] = b[m + 2]
        BY <1>1, <1>3, <1>4, <1>7, <3>2
      <4>2. (\A i \in 3 .. 6 : u[i] \in {"zero"}) <=> (\A i \in m + 3 .. m + 6 : b[i] \in {"zero"})
        BY <1>6, <4>1
      <4> QED
        BY <3>1, <3>2, <4>1, <4>2
    <3> QED
      BY <1>7, <3>1, <3>2
  <2>5. A4 <=> /\ n = m + 6 /\ b[m + 1] = "bslash" /\ b[m + 2] = "u"
               /\ \A i \in m + 3 .. m + 6 : b[i] \in Digits
    <3>1. A4 <=> /\ Len(u) = 6 /\ u[1] \in {"bslash"} /\ u[2] \in {"u"}
                 /\ \A i \in 3 .. 6 : u[i] \in Digits
      BY AlikeCode
    <3> HIDE DEF A4
    <3>2. CASE n = m + 6
      <4>1. Len(u) = 6 /\ u[1] = b[m + 1] /\ u[2] = b[m + 2]
        BY <1>1, <1>3, <1>4, <1>7, <3>2
      <4>2. (\A i \in 3 .. 6 : u[i] \in Digits) <=> (\A i \in m + 3 .. m + 6 : b[i] \in Digits)
        BY <1>6, <4>1
      <4> QED
        BY <3>1, <3>2, <4>1, <4>2
    <3> QED
      BY <1>7, <3>1, <3>2
  <2> HIDE DEF A1, A2, A3, A4
  <2>6. A1 => u[2] = b[m + 2]
    BY <1>1, <1>4, <1>7, <2>2
  <2>7. IsEscape(b, m, n) <=> A1 \/ A2
    BY <2>2, <2>3 DEF IsEscape, Escaped
  <2>8. IsCode(b, m, n) <=> A4
    BY <2>5 DEF IsCode
  <2>9. A3 => A4
    BY <2>4, <2>5 DEF Digits
  <2>10. A4 => (A3 <=> \A i \in m + 3 .. m + 6 : b[i] = "zero")
    BY <2>4, <2>5
  <2>11. A4 => ~A1 /\ ~A2
    BY <2>2, <2>3, <2>5, <1>7
  <2>12. ASSUME A1 PROVE EscapeUnit(u) = {<<Meaning(b[m + 2])>>}
    BY <2>1, <2>2, <2>6, <2>12 DEF Meaning
  <2>13. ASSUME A2 PROVE EscapeUnit(u) = {<<Meaning(b[m + 2])>>}
    BY <2>1, <2>2, <2>3, <2>13 DEF Meaning
  <2>14. ASSUME A4 PROVE EscapeUnit(u) = {<<CodeMeaning(b, m)>>}
    BY <2>1, <2>10, <2>11, <2>14 DEF CodeMeaning
  <2>15. ASSUME EscapeUnit(u) # {} PROVE A1 \/ A2 \/ A4
    BY <2>1, <2>9, <2>15
  <2> QED
    BY <2>7, <2>8, <2>12, <2>13, <2>14, <2>15
<1>10. SequenceUnit(u) = IF IsSequence(b, m, n) THEN {<<"wide">>} ELSE {}
  <2> DEFINE A1 == Alike(u, <<{"lead2"}, {"tail"}>>)
             A2 == Alike(u, <<{"lead3"}, {"tail"}, {"tail"}>>)
  <2>1. /\ A1 <=> Len(u) = 2 /\ u[1] \in {"lead2"} /\ u[2] \in {"tail"}
        /\ A2 <=> Len(u) = 3 /\ u[1] \in {"lead3"} /\ u[2] \in {"tail"} /\ u[3] \in {"tail"}
    BY AlikeIs
  <2>2. SequenceUnit(u) = IF A1 \/ A2 THEN {<<"wide">>} ELSE {}
    BY DEF SequenceUnit
  <2> HIDE DEF A1, A2
  <2>3. A1 <=> n = m + 2 /\ b[m + 1] = "lead2" /\ b[m + 2] = "tail"
    BY <1>3, <1>4, <1>7, <2>1
  <2>4. A2 <=> n = m + 3 /\ b[m + 1] = "lead3" /\ b[m + 2] = "tail" /\ b[m + 3] = "tail"
    BY <1>3, <1>4, <1>5, <1>7, <2>1
  <2> QED
    BY <2>2, <2>3, <2>4 DEF IsSequence
<1>11. LastUnit(b, "json", m, n) = PlainUnit(u) \union EscapeUnit(u) \union SequenceUnit(u)
  BY <1>2 DEF JsonUnit
<1> QED
  BY <1>8, <1>9, <1>10, <1>11

\* What is a unit of JSON is one for the scanner; so is a backslash, and in a
\* file whatever follows a first byte.
LEMMA LooseUnitIs ==
    ASSUME NEW b, Body(b), NEW end \in EndMarks, NEW m \in Nat, NEW n \in m + 1 .. Len(b)
    PROVE  /\ LastUnit(b, "json", m, n) \subseteq LastUnit(b, end, m, n)
           /\ n = m + 1 /\ b[m + 1] = "bslash" => <<>> \in LastUnit(b, end, m, n)
           /\ b[m + 1] \in DOMAIN Octets /\ n = m + Octets[b[m + 1]] /\ end = "EOF" =>
                <<"odd">> \in LastUnit(b, end, m, n)
<1> DEFINE u == SubSeq(b, m + 1, n)
<1>1. /\ Len(u) = n - m /\ Len(u) \in Nat \ {0} /\ u[1] = b[m + 1]
      /\ u \in Seq(Symbols)
  <2>1. Len(u) = n - m /\ Len(u) \in Nat \ {0} /\ \A i \in 1 .. n - m : u[i] = b[m + i]
    BY PieceOf
  <2>2. u \in Seq(Symbols)
    BY DEF Body
  <2> HIDE DEF u
  <2> QED
    BY <2>1, <2>2
<1>2. LastUnit(b, "json", m, n) = JsonUnit(u) /\ LastUnit(b, end, m, n) = LooseUnit(u, end)
  BY DEF LastUnit, EndMarks
<1> HIDE DEF u
<1>3. ASSUME n = m + 1, b[m + 1] = "bslash" PROVE u = <<"bslash">>
  <2>1. Len(u) = 1 /\ u[1] = "bslash"
    BY <1>1, <1>3
  <2> QED
    BY <1>1, <2>1
<1>4. ASSUME b[m + 1] \in DOMAIN Octets, n = m + Octets[b[m + 1]]
      PROVE  Len(u) = Octets[u[1]] /\ u[1] \in DOMAIN Octets
  <2>1. Octets[b[m + 1]] \in Nat
    BY <1>4 DEF Octets
  <2> QED
    BY <1>1, <1>4, <2>1
<1> QED
  BY <1>2, <1>3, <1>4 DEF LooseUnit

\* Only one unit begins at a place.
LEMMA UnitUnique ==
    ASSUME NEW b, Body(b), NEW m \in Nat, NEW k \in m + 1 .. Len(b), NEW n \in m + 1 .. Len(b),
           LastUnit(b, "json", m, k) # {}, LastUnit(b, "json", m, n) # {}
    PROVE  k = n
<1>1. /\ IsPlain(b, m, k) \/ IsEscape(b, m, k) \/ IsCode(b, m, k) \/ IsSequence(b, m, k)
      /\ IsPlain(b, m, n) \/ IsEscape(b, m, n) \/ IsCode(b, m, n) \/ IsSequence(b, m, n)
  BY JsonUnitIs
<1>2. {"bslash", "lead2", "lead3"} \subseteq Special
  BY DEF Special, Octets
<1>3. "u" \notin Escaped
  BY DEF Escaped
<1> QED
  BY <1>1, <1>2, <1>3 DEF IsPlain, IsEscape, IsCode, IsSequence

\* On the way to where a JSON text goes on, every place that it goes through
\* begins a unit.
LEMMA UnitThere ==
    ASSUME NEW b, Body(b)
    PROVE  \A n \in 0 .. Len(b) : \A m \in 0 .. n - 1 :
              Decodings(b, "json")[n] # {} /\ Decodings(b, "json")[m] # {} =>
                 \E k \in m + 1 .. n : LastUnit(b, "json", m, k) # {}
<1> DEFINE J(n) == Decodings(b, "json")[n] # {}
           U(m, n) == LastUnit(b, "json", m, n) # {}
           P(n) == \A m \in 0 .. n - 1 : J(n) /\ J(m) => \E k \in m + 1 .. n : U(m, k)
           T == { i \in Nat : \A n \in 0 .. i : n <= Len(b) => P(n) }
<1>1. Len(b) \in Nat
  BY DEF Body
<1>2. ASSUME NEW n \in 1 .. Len(b), J(n) PROVE \E m \in 0 .. n - 1 : J(m) /\ U(m, n)
  BY <1>1, <1>2, DecodingsAre
<1>3. ASSUME NEW m \in Nat, NEW k \in m + 1 .. Len(b), NEW n \in m + 1 .. Len(b), U(m, k), U(m, n)
      PROVE  k = n
  BY <1>3, UnitUnique
<1> HIDE DEF J, U
<1>4. 0 \in T
  OBVIOUS
<1>5. ASSUME NEW i \in Nat, i \in T, i + 1 <= Len(b), NEW m \in 0 .. i, J(i + 1), J(m)
      PROVE  \E k \in m + 1 .. i + 1 : U(m, k)
  <2>1. PICK l \in 0 .. i : J(l) /\ U(l, i + 1)
    BY <1>2, <1>5
  <2>2. P(l) /\ P(m)
    BY <1>1, <1>5
  <2>3. CASE l = m
    BY <2>1, <2>3
  <2>4. CASE m < l
    <3>1. PICK k \in m + 1 .. l : U(m, k)
      BY <1>5, <2>1, <2>2, <2>4
    <3> QED
      BY <3>1
  <2>5. CASE l < m
    <3>1. PICK k \in l + 1 .. m : U(l, k)
      BY <1>5, <2>1, <2>2, <2>5
    <3>2. k = i + 1
      BY <1>1, <1>3, <1>5, <2>1, <3>1
    <3> QED
      BY <3>1, <3>2
  <2> QED
    BY <2>3, <2>4, <2>5
<1>6. ASSUME NEW i \in Nat, i \in T PROVE i + 1 \in T
  <2> SUFFICES ASSUME NEW n \in 0 .. i + 1, n <= Len(b) PROVE P(n)
    OBVIOUS
  <2>1. CASE n = i + 1
    <3>1. \A m \in 0 .. n - 1 : m \in 0 .. i
      BY <2>1
    <3> QED
      BY <1>5, <1>6, <2>1, <3>1
  <2>2. CASE n # i + 1
    BY <1>6, <2>2
  <2> QED
    BY <2>1, <2>2
<1>7. Nat \subseteq T
  <2> HIDE DEF T
  <2> QED
    BY <1>4, <1>6, AllNumbers
<1>8. \A n \in 0 .. Len(b) : P(n)
  BY <1>1, <1>7
<1> QED
  BY <1>8 DEF J, U

-----------------------------------------------------------------------------
(***************************************************************************)
(* A literal that is being read: r characters of what is behind the quote  *)
(* have become c.                                                          *)
(***************************************************************************)
\* A JSON literal ends behind the first n characters.
Closes(b, n) == b[n + 1] = "quote" /\ Decodings(b, "json")[n] # {}

\* What has been read is a beginning of a literal, and of every JSON literal
\* that the text begins with.
Reading(b, end, r, c) ==
    /\ r \in 0 .. Len(b)
    /\ c \in Seq(Cells)
    /\ r < Len(b) => c \in Decodings(b, end)[r]
    /\ \A n \in 0 .. Len(b) - 1 : Closes(b, n) => r <= n /\ c \in Decodings(b, "json")[r]

\* Nothing has been read at first.
LEMMA ReadingBegins ==
    ASSUME NEW b, Body(b), NEW end \in EndMarks
    PROVE  Reading(b, end, 0, <<>>)
<1>1. Len(b) \in Nat /\ <<>> \in Seq(Cells)
  BY DEF Body
<1>2. \A n \in 0 .. Len(b) - 1 : 0 <= n
  BY <1>1
<1>3. <<>> \in Decodings(b, "json")[0] /\ <<>> \in Decodings(b, end)[0]
  <2>1. Decodings(b, "json")[0] = {<<>>} /\ Decodings(b, end)[0] = {<<>>}
    BY <1>1, DecodingsAre
  <2> QED
    BY <2>1
<1>4. ASSUME NEW n \in 0 .. Len(b) - 1, Closes(b, n)
      PROVE  0 <= n /\ <<>> \in Decodings(b, "json")[0]
  BY <1>2, <1>3
<1>5. 0 \in 0 .. Len(b)
  BY <1>1
<1> QED
  BY <1>1, <1>3, <1>4, <1>5, Zenon DEF Reading

\* Before its end, a JSON literal goes on with a unit.
LEMMA UnitHere ==
    ASSUME NEW b, Body(b), NEW end \in EndMarks, NEW r, NEW c, Reading(b, end, r, c),
           NEW n \in 0 .. Len(b) - 1, Closes(b, n), b[r + 1] # "quote"
    PROVE  \E k \in r + 1 .. n : /\ LastUnit(b, "json", r, k) # {}
                                 /\ \/ IsPlain(b, r, k) \/ IsEscape(b, r, k)
                                    \/ IsCode(b, r, k) \/ IsSequence(b, r, k)
<1>1. /\ Len(b) \in Nat /\ r \in Nat
      /\ b[n + 1] = "quote" /\ Decodings(b, "json")[n] # {}
      /\ r <= n /\ c \in Decodings(b, "json")[r]
  <2>1. Len(b) \in Nat /\ r \in Nat
    BY DEF Body, Reading
  <2>2. r <= n /\ c \in Decodings(b, "json")[r]
    BY Zenon DEF Reading
  <2> QED
    BY <2>1, <2>2 DEF Closes
<1>2. r \in 0 .. n - 1 /\ n \in 0 .. Len(b)
  <2>1. r # n
    BY <1>1
  <2> QED
    BY <1>1, <2>1
<1>3. PICK k \in r + 1 .. n : LastUnit(b, "json", r, k) # {}
  BY <1>1, <1>2, UnitThere
<1>4. k \in r + 1 .. Len(b)
  BY <1>1, <1>2
<1>5. IsPlain(b, r, k) \/ IsEscape(b, r, k) \/ IsCode(b, r, k) \/ IsSequence(b, r, k)
  BY <1>1, <1>3, <1>4, JsonUnitIs
<1> QED
  BY <1>3, <1>5

\* A unit more.
LEMMA ReadingGrows ==
    ASSUME NEW b, Body(b), NEW end \in EndMarks, NEW r, NEW c, Reading(b, end, r, c),
           NEW k \in r + 1 .. Len(b), NEW last, last \in LastUnit(b, end, r, k),
           \A n \in 0 .. Len(b) - 1 : Closes(b, n) => k <= n /\ last \in LastUnit(b, "json", r, k),
           c \o last \in Seq(Cells)
    PROVE  Reading(b, end, k, c \o last)
<1>1. Len(b) \in Nat /\ r \in 0 .. Len(b)
  BY DEF Body, Reading
<1>2. r < Len(b) /\ k \in 1 .. Len(b) /\ r \in 0 .. k - 1
  BY <1>1
<1>3. c \o last \in Decodings(b, end)[k]
  BY <1>1, <1>2, DecodingsAre DEF Reading
<1>4. ASSUME NEW n \in 0 .. Len(b) - 1, Closes(b, n) PROVE c \o last \in Decodings(b, "json")[k]
  BY <1>1, <1>2, <1>4, DecodingsAre DEF Reading
<1>5. k \in 0 .. Len(b)
  BY <1>1, <1>2
<1> QED
  BY <1>3, <1>4, <1>5, Zenon DEF Reading

\* A cell more, by concatenation.
LEMMA OneMore ==
    ASSUME NEW s \in Seq(Cells), NEW c \in Cells
    PROVE  s \o <<c>> = Append(s, c) /\ Append(s, c) \in Seq(Cells) /\ s \o <<>> = s
<1>1. Append(s, c) \in Seq(Cells)
  OBVIOUS
<1>2. s \o <<c>> = Append(s, c)
  OBVIOUS
<1>3. s \o <<>> = s
  OBVIOUS
<1> QED
  BY <1>1, <1>2, <1>3

\* A unit of JSON more.
LEMMA StrictGrows ==
    ASSUME NEW b, Body(b), NEW end \in EndMarks, NEW r, NEW c, Reading(b, end, r, c),
           NEW k \in r + 1 .. Len(b), NEW x \in Cells, <<x>> \in LastUnit(b, "json", r, k),
           b[r + 1] # "quote"
    PROVE  Reading(b, end, k, Append(c, x))
<1>1. Len(b) \in Nat /\ r \in Nat /\ c \in Seq(Cells)
  BY DEF Body, Reading
<1>2. <<x>> \in LastUnit(b, end, r, k)
  BY <1>1, LooseUnitIs
<1>3. ASSUME NEW n \in 0 .. Len(b) - 1, Closes(b, n) PROVE k <= n
  <2>1. PICK l \in r + 1 .. n : LastUnit(b, "json", r, l) # {}
    BY <1>3, UnitHere
  <2>2. l \in r + 1 .. Len(b)
    BY <1>1, <2>1
  <2>3. l = k
    BY <1>1, <2>1, <2>2, UnitUnique
  <2> QED
    BY <2>1, <2>3
<1>4. c \o <<x>> = Append(c, x) /\ Append(c, x) \in Seq(Cells)
  BY <1>1, OneMore
<1>5. Reading(b, end, k, c \o <<x>>)
  BY <1>2, <1>3, <1>4, ReadingGrows
<1> QED
  BY <1>4, <1>5

\* Where no unit begins, there is no JSON literal.
LEMMA NoUnitHere ==
    ASSUME NEW b, Body(b), NEW end \in EndMarks, NEW r, NEW c, Reading(b, end, r, c),
           r = Len(b) \/ b[r + 1] # "quote",
           \A k \in r + 1 .. Len(b) : /\ ~IsPlain(b, r, k) /\ ~IsEscape(b, r, k)
                                      /\ ~IsCode(b, r, k) /\ ~IsSequence(b, r, k)
    PROVE  \A n \in 0 .. Len(b) - 1 : ~Closes(b, n)
<1> SUFFICES ASSUME NEW n \in 0 .. Len(b) - 1, Closes(b, n) PROVE FALSE
  OBVIOUS
<1>1. Len(b) \in Nat /\ r \in Nat
  BY DEF Body, Reading
<1>2. r <= n
  BY Zenon DEF Reading
<1>3. b[r + 1] # "quote"
  BY <1>1, <1>2
<1>4. PICK k \in r + 1 .. n : \/ IsPlain(b, r, k) \/ IsEscape(b, r, k)
                              \/ IsCode(b, r, k) \/ IsSequence(b, r, k)
  BY <1>3, UnitHere
<1>5. k \in r + 1 .. Len(b)
  BY <1>1, <1>4
<1> QED
  BY <1>4, <1>5

\* The letters of a literal are letters of a string.
LEMMA CellsOf ==
    ASSUME NEW b, Body(b), NEW i \in 1 .. Len(b)
    PROVE  b[i] \in Cells /\ b[i] \notin EndMarks
BY DEF Body, Symbols, Cells

\* A plain character is read ...
LEMMA PlainGrows ==
    ASSUME NEW b, Body(b), NEW end \in EndMarks, NEW r, NEW c, Reading(b, end, r, c),
           r < Len(b), b[r + 1] \notin Special
    PROVE  Reading(b, end, r + 1, Append(c, b[r + 1]))
<1>1. Len(b) \in Nat /\ r \in Nat /\ r + 1 \in r + 1 .. Len(b) /\ r + 1 \in 1 .. Len(b)
  BY DEF Body, Reading
<1>2. b[r + 1] \in Cells /\ b[r + 1] # "quote"
  BY <1>1, CellsOf DEF Special
<1>3. <<b[r + 1]>> \in LastUnit(b, "json", r, r + 1)
  BY <1>1, JsonUnitIs DEF IsPlain
<1> QED
  BY <1>1, <1>2, <1>3, StrictGrows

\* ... an escape ...
LEMMA EscapeGrows ==
    ASSUME NEW b, Body(b), NEW end \in EndMarks, NEW r, NEW c, Reading(b, end, r, c),
           r + 2 <= Len(b),
           b[r + 1] = "bslash", b[r + 2] \in Escaped
    PROVE  /\ Reading(b, end, r + 2, Append(c, Meaning(b[r + 2])))
           /\ Meaning(b[r + 2]) \in Cells
<1>1. /\ Len(b) \in Nat /\ r \in Nat /\ r + 2 \in r + 1 .. Len(b)
      /\ r + 1 \in 1 .. Len(b) /\ r + 2 \in 1 .. Len(b)
  BY DEF Body, Reading
<1>2. b[r + 2] \in Cells
  BY <1>1, CellsOf
<1>3. Meaning(b[r + 2]) \in Cells
  BY <1>2 DEF Meaning, Cells
<1>4. <<Meaning(b[r + 2])>> \in LastUnit(b, "json", r, r + 2)
  BY <1>1, JsonUnitIs DEF IsEscape
<1>5. Reading(b, end, r + 2, Append(c, Meaning(b[r + 2])))
  BY <1>1, <1>3, <1>4, StrictGrows
<1> QED
  BY <1>3, <1>5

\* ... and a code.
LEMMA CodeGrows ==
    ASSUME NEW b, Body(b), NEW end \in EndMarks, NEW r, NEW c, Reading(b, end, r, c),
           r + 6 <= Len(b),
           b[r + 1] = "bslash", b[r + 2] = "u", \A i \in r + 3 .. r + 6 : b[i] \in Digits
    PROVE  /\ Reading(b, end, r + 6, Append(c, CodeMeaning(b, r)))
           /\ CodeMeaning(b, r) \in Cells
<1>1. Len(b) \in Nat /\ r \in Nat /\ r + 6 \in r + 1 .. Len(b) /\ r + 6 = r + 6
  BY DEF Body, Reading
<1>2. CodeMeaning(b, r) \in Cells
  BY DEF CodeMeaning, Cells
<1>3. IsCode(b, r, r + 6)
  BY <1>1 DEF IsCode
<1>4. <<CodeMeaning(b, r)>> \in LastUnit(b, "json", r, r + 6)
  BY <1>1, <1>3, JsonUnitIs
<1>5. Reading(b, end, r + 6, Append(c, CodeMeaning(b, r)))
  BY <1>1, <1>2, <1>4, StrictGrows
<1> QED
  BY <1>2, <1>5

\* A backslash that is skipped begins no unit of JSON.
LEMMA BackslashGrows ==
    ASSUME NEW b, Body(b), NEW end \in EndMarks, NEW r, NEW c, Reading(b, end, r, c), r < Len(b),
           b[r + 1] = "bslash", r + 2 <= Len(b) => b[r + 2] \notin Escaped \union {"u"}
    PROVE  Reading(b, end, r + 1, c)
<1>1. /\ Len(b) \in Nat /\ r \in Nat /\ r + 1 \in r + 1 .. Len(b)
      /\ c \in Seq(Cells)
  BY DEF Body, Reading
<1>2. "bslash" \in Special
  BY DEF Special
<1>3. ASSUME NEW k \in r + 1 .. Len(b)
      PROVE  /\ ~IsPlain(b, r, k) /\ ~IsEscape(b, r, k)
             /\ ~IsCode(b, r, k) /\ ~IsSequence(b, r, k)
  BY <1>1, <1>2 DEF IsPlain, IsEscape, IsCode, IsSequence
<1>4. \A n \in 0 .. Len(b) - 1 : ~Closes(b, n)
  BY <1>3, NoUnitHere
<1>5. <<>> \in LastUnit(b, end, r, r + 1)
  BY <1>1, LooseUnitIs
<1>6. c \o <<>> = c
  BY <1>1
<1>7. Reading(b, end, r + 1, c \o <<>>)
  BY <1>1, <1>4, <1>5, <1>6, ReadingGrows
<1> QED
  BY <1>6, <1>7

\* A sequence that is complete is one of JSON if its other bytes are.
LEMMA SequenceGrows ==
    ASSUME NEW b, Body(b), NEW end \in EndMarks, NEW r, NEW c, Reading(b, end, r, c), end = "EOF",
           r < Len(b), b[r + 1] \in DOMAIN Octets, r + Octets[b[r + 1]] <= Len(b),
           NEW x, x = IF \A i \in r + 2 .. r + Octets[b[r + 1]] : b[i] = "tail"
                      THEN "wide" ELSE "odd"
    PROVE  Reading(b, end, r + Octets[b[r + 1]], Append(c, x)) /\ x \in Cells
<1> DEFINE k == r + Octets[b[r + 1]]
<1>1. /\ Len(b) \in Nat /\ r \in Nat /\ c \in Seq(Cells)
  BY DEF Body, Reading
<1>2. \/ b[r + 1] = "lead2" /\ k = r + 2
      \/ b[r + 1] = "lead3" /\ k = r + 3
  <2>1. /\ b[r + 1] \in {"lead2", "lead3"}
        /\ Octets[b[r + 1]] = IF b[r + 1] = "lead2" THEN 2 ELSE 3
    BY DEF Octets
  <2> QED
    BY <2>1
<1>3. b[r + 1] # "quote" /\ b[r + 1] # "bslash" /\ k \in r + 1 .. Len(b) /\ x \in Cells
  BY <1>1, <1>2 DEF Cells
<1>4. CASE x = "wide"
  <2>1. \A i \in r + 2 .. k : b[i] = "tail"
    BY <1>4
  <2> HIDE DEF k
  <2>2. IsSequence(b, r, k)
    BY <1>1, <1>2, <2>1 DEF IsSequence
  <2>3. <<x>> \in LastUnit(b, "json", r, k)
    BY <1>1, <1>3, <1>4, <2>2, JsonUnitIs
  <2>4. Reading(b, end, k, Append(c, x))
    BY <1>3, <2>3, StrictGrows
  <2> QED
    BY <1>3, <2>4 DEF k
<1>5. CASE x # "wide"
  <2>1. x = "odd" /\ ~\A i \in r + 2 .. k : b[i] = "tail"
    BY <1>5
  <2>2. <<"odd">> \in LastUnit(b, end, r, k)
    BY <1>1, <1>3, LooseUnitIs
  <2> HIDE DEF k
  <2>3. ASSUME NEW l \in r + 1 .. Len(b)
        PROVE  /\ ~IsPlain(b, r, l) /\ ~IsEscape(b, r, l)
               /\ ~IsCode(b, r, l) /\ ~IsSequence(b, r, l)
    <3>1. b[r + 1] \in Special
      BY DEF Special
    <3>2. ~IsSequence(b, r, l)
      <4>1. IsSequence(b, r, l) => \A i \in r + 2 .. k : b[i] = "tail"
        BY <1>1, <1>2 DEF IsSequence
      <4> QED
        BY <2>1, <4>1
    <3> QED
      BY <1>3, <3>1, <3>2 DEF IsPlain, IsEscape, IsCode
  <2>4. \A n \in 0 .. Len(b) - 1 : ~Closes(b, n)
    BY <1>3, <2>3, NoUnitHere
  <2>5. c \o <<x>> = Append(c, x) /\ Append(c, x) \in Seq(Cells)
    BY <1>1, <1>3, OneMore
  <2>6. <<x>> \in LastUnit(b, end, r, k)
    BY <2>1, <2>2
  <2>7. Reading(b, end, k, c \o <<x>>)
    BY <1>3, <2>4, <2>5, <2>6, ReadingGrows
  <2> QED
    BY <1>3, <2>5, <2>7 DEF k
<1> QED
  BY <1>4, <1>5

\* One that is cut off ends the text.
LEMMA SequenceCut ==
    ASSUME NEW b, Body(b), NEW end \in EndMarks, NEW r, NEW c, Reading(b, end, r, c),
           r < Len(b), b[r + 1] \in DOMAIN Octets, r + Octets[b[r + 1]] > Len(b),
           NEW x \in Cells
    PROVE  Reading(b, end, Len(b), Append(c, x))
<1>1. /\ Len(b) \in Nat /\ r \in Nat /\ c \in Seq(Cells)
  BY DEF Body, Reading
<1>2. \/ b[r + 1] = "lead2" /\ r + 2 > Len(b)
      \/ b[r + 1] = "lead3" /\ r + 3 > Len(b)
  BY DEF Octets
<1>3. ASSUME NEW l \in r + 1 .. Len(b)
      PROVE  /\ ~IsPlain(b, r, l) /\ ~IsEscape(b, r, l)
             /\ ~IsCode(b, r, l) /\ ~IsSequence(b, r, l)
  <2>1. b[r + 1] \in Special /\ b[r + 1] # "bslash"
    BY <1>2 DEF Special
  <2>2. ~IsSequence(b, r, l)
    BY <1>1, <1>2 DEF IsSequence
  <2> QED
    BY <2>1, <2>2 DEF IsPlain, IsEscape, IsCode
<1>4. b[r + 1] # "quote"
  BY <1>2
<1>5. \A n \in 0 .. Len(b) - 1 : ~Closes(b, n)
  BY <1>3, <1>4, NoUnitHere
<1>6. Len(b) \in 0 .. Len(b) /\ ~(Len(b) < Len(b))
  BY <1>1
<1>7. Append(c, x) \in Seq(Cells)
  BY <1>1
<1> QED
  BY <1>5, <1>6, <1>7, Zenon DEF Reading

-----------------------------------------------------------------------------
(***************************************************************************)
(* The text that is scanned.                                               *)
(***************************************************************************)
LEMMA TailIs ==
    ASSUME NEW s \in Seq(Symbols), s # <<>>, NEW b, b = Tail(s)
    PROVE  /\ b \in Seq(Symbols) /\ Len(b) = Len(s) - 1
           /\ \A i \in 1 .. Len(b) : b[i] = s[i + 1]
OBVIOUS

\* The text from the call on, and what is behind its first character.
LEMMA SourceIs ==
    ASSUME TextType, NEW p \in 1 .. Len(text)
    PROVE  LET s == SubSeq(text, p, Len(text))
               b == Tail(s)
           IN  /\ Len(text) \in Nat
               /\ s \in Seq(Symbols) /\ s # <<>> /\ Len(s) = Len(text) - p + 1
               /\ \A i \in 1 .. Len(s) : s[i] = text[p + i - 1]
               /\ Body(b) /\ Len(b) = Len(text) - p
               /\ \A i \in 1 .. Len(b) : b[i] = text[p + i] /\ b[i] = s[i + 1]
<1> DEFINE s == SubSeq(text, p, Len(text))
           b == Tail(s)
<1>1. /\ text \in Seq(Symbols) /\ Len(text) \in Nat
  BY DEF TextType
<1>2. /\ s \in Seq(Symbols) /\ Len(s) = Len(text) - p + 1
      /\ \A i \in 1 .. Len(s) : s[i] = text[p + i - 1]
  BY <1>1
<1>3. s # <<>>
  <2>1. Len(s) # 0
    BY <1>1, <1>2
  <2> HIDE DEF s
  <2> QED
    BY <2>1
<1>7. s \in Seq(Symbols)
  BY <1>2
<1> HIDE DEF s
<1>8. /\ b \in Seq(Symbols) /\ Len(b) = Len(s) - 1
      /\ \A i \in 1 .. Len(b) : b[i] = s[i + 1]
  BY <1>3, <1>7, TailIs
<1>4. /\ b \in Seq(Symbols) /\ Len(b) = Len(text) - p
      /\ \A i \in 1 .. Len(b) : b[i] = s[i + 1]
  BY <1>1, <1>2, <1>8
<1> HIDE DEF b
<1>5. ASSUME NEW i \in 1 .. Len(b) PROVE b[i] = text[p + i]
  <2>1. i + 1 \in 1 .. Len(s) /\ p + (i + 1) - 1 = p + i
    BY <1>1, <1>2, <1>4
  <2> QED
    BY <1>2, <1>4, <2>1
<1>6. Body(b)
  BY <1>4 DEF Body
<1> QED
  BY <1>1, <1>2, <1>3, <1>4, <1>5, <1>6 DEF s, b

\* What is read i characters behind p.
LEMMA LetterIs ==
    ASSUME TextType, NEW p \in 1 .. Len(text), NEW i \in Nat \ {0},
           NEW b, b = Tail(SubSeq(text, p, Len(text)))
    PROVE  /\ i <= Len(b) => At(p + i) = b[i]
           /\ i > Len(b) => At(p + i) = ending /\ At(p + i) \in EndMarks
<1>1. /\ Len(text) \in Nat /\ Len(b) = Len(text) - p
      /\ \A j \in 1 .. Len(b) : b[j] = text[p + j]
  BY SourceIs
<1>2. ASSUME i <= Len(b) PROVE At(p + i) = b[i]
  <2>1. i \in 1 .. Len(b) /\ p + i <= Len(text)
    BY <1>1, <1>2
  <2> QED
    BY <1>1, <2>1 DEF At
<1>3. ASSUME i > Len(b) PROVE At(p + i) = ending
  <2>1. ~(p + i <= Len(text))
    BY <1>1, <1>3
  <2> QED
    BY <2>1 DEF At
<1> QED
  BY <1>2, <1>3 DEF TextType

\* The literals that a text begins with are those that close in it.
LEMMA LiteralsAre ==
    ASSUME NEW s \in Seq(Symbols), s # <<>>, NEW b, b = Tail(s)
    PROVE  /\ \A rules, c : \A n \in 0 .. Len(b) - 1 :
                 b[n + 1] = "quote" /\ c \in Decodings(b, rules)[n] =>
                    <<n + 2, UpToZero(c)>> \in Literals(s, rules)
           /\ Literals(s, "json") # {} => \E n \in 0 .. Len(b) - 1 : Closes(b, n)
<1> DEFINE E == { i \in 2 .. Len(s) : s[i] = "quote" }
           Of(rules, e) == { <<e, UpToZero(c)>> : c \in Decodings(b, rules)[e - 2] }
<1>1. /\ Len(s) \in Nat /\ Len(b) = Len(s) - 1 /\ Len(b) \in Nat
      /\ \A i \in 1 .. Len(b) : b[i] = s[i + 1]
  OBVIOUS
<1>2. \A rules : Literals(s, rules) = UNION { Of(rules, e) : e \in E }
  BY DEF Literals
<1>3. ASSUME NEW rules, NEW c, NEW n \in 0 .. Len(b) - 1, b[n + 1] = "quote",
             c \in Decodings(b, rules)[n]
      PROVE  <<n + 2, UpToZero(c)>> \in Literals(s, rules)
  <2>1. n + 2 \in E /\ (n + 2) - 2 = n
    <3>1. n + 1 \in 1 .. Len(b) /\ n + 2 = (n + 1) + 1 /\ n + 2 \in 2 .. Len(s) /\ (n + 2) - 2 = n
      BY <1>1
    <3> QED
      BY <1>1, <1>3, <3>1
  <2>2. <<n + 2, UpToZero(c)>> \in Of(rules, n + 2)
    BY <1>3, <2>1
  <2> HIDE DEF E, Of
  <2> QED
    BY <1>2, <2>1, <2>2
<1>4. ASSUME Literals(s, "json") # {} PROVE \E n \in 0 .. Len(b) - 1 : Closes(b, n)
  <2>1. PICK e \in E : Of("json", e) # {}
    <3> HIDE DEF E, Of
    <3> QED
      BY <1>2, <1>4
  <2>2. Decodings(b, "json")[e - 2] # {}
    BY <2>1
  <2>3. e - 2 \in 0 .. Len(b) - 1 /\ e - 1 \in 1 .. Len(b) /\ (e - 2) + 1 = e - 1 /\ (e - 1) + 1 = e
    BY <1>1
  <2>4. b[(e - 2) + 1] = "quote"
    BY <1>1, <2>3
  <2> QED
    BY <2>2, <2>3, <2>4 DEF Closes
<1> QED
  BY <1>3, <1>4

\* A call of the scanner is a record with these fields.
IsCall(k) == k = [call |-> k.call, at |-> k.at, ds |-> k.ds, source |-> k.source]

\* What EXCEPT changes of it.
LEMMA GoesCall ==
    ASSUME NEW k, IsCall(k), NEW n, NEW d
    PROVE  [k EXCEPT !.ds = d, !.at = n]
             = [call |-> k.call, at |-> n, ds |-> d, source |-> k.source]
<1> DEFINE l == [call |-> k.call, at |-> k.at, ds |-> d, source |-> k.source]
<1>1. k = [call |-> k.call, at |-> k.at, ds |-> k.ds, source |-> k.source]
  BY DEF IsCall
<1>2. [k EXCEPT !.ds = d] = l
  BY <1>1
<1>3. [l EXCEPT !.at = n] = [call |-> k.call, at |-> n, ds |-> d, source |-> k.source]
  OBVIOUS
<1>4. [k EXCEPT !.ds = d, !.at = n] = [[k EXCEPT !.ds = d] EXCEPT !.at = n]
  OBVIOUS
<1> QED
  BY <1>2, <1>3, <1>4

EndsWith(k, c, n, d) == [k EXCEPT !.call = c, !.at = n, !.ds = d]

\* The record of a call that changes three of its fields ...
LEMMA EndsCall ==
    ASSUME NEW k, IsCall(k), NEW c, NEW n, NEW d
    PROVE  EndsWith(k, c, n, d)
             = [call |-> c, at |-> n, ds |-> d, source |-> k.source]
<1> DEFINE l == [call |-> c, at |-> k.at, ds |-> k.ds, source |-> k.source]
           o == [call |-> c, at |-> n, ds |-> k.ds, source |-> k.source]
<1>1. k = [call |-> k.call, at |-> k.at, ds |-> k.ds, source |-> k.source]
  BY DEF IsCall
<1>2. [k EXCEPT !.call = c] = l
  BY <1>1
<1>3. [l EXCEPT !.at = n] = o
  OBVIOUS
<1>4. [o EXCEPT !.ds = d] = [call |-> c, at |-> n, ds |-> d, source |-> k.source]
  OBVIOUS
<1>5. [k EXCEPT !.call = c, !.at = n, !.ds = d]
        = [[[k EXCEPT !.call = c] EXCEPT !.at = n] EXCEPT !.ds = d]
  OBVIOUS
<1> QED
  BY <1>2, <1>3, <1>4, <1>5 DEF EndsWith

\* ... and one.
LEMMA OneChange ==
    ASSUME NEW k, IsCall(k), NEW c, NEW n
    PROVE  /\ [k EXCEPT !.call = c]
                = [call |-> c, at |-> k.at, ds |-> k.ds, source |-> k.source]
           /\ [k EXCEPT !.at = n]
                = [call |-> k.call, at |-> n, ds |-> k.ds, source |-> k.source]
<1>1. k = [call |-> k.call, at |-> k.at, ds |-> k.ds, source |-> k.source]
  BY DEF IsCall
<1> QED
  BY <1>1

\* A call's fields.
LEMMA CallIs ==
    ASSUME NEW c, NEW n, NEW d, NEW s, NEW k, k = [call |-> c, at |-> n, ds |-> d, source |-> s]
    PROVE  IsCall(k) /\ k.call = c /\ k.at = n /\ k.ds = d /\ k.source = s
BY DEF IsCall

-----------------------------------------------------------------------------
(***************************************************************************)
(* Where the parser is.                                                    *)
(***************************************************************************)
Where == TextType /\ pos \in 1 .. Len(text) + 1

\* What is no mark is in the text.
LEMMA ReadOn ==
    ASSUME Where, NEW p \in 1 .. Len(text) + 1, At(p) \notin EndMarks
    PROVE  p \in 1 .. Len(text) /\ p + 1 \in 1 .. Len(text) + 1 /\ At(p) = text[p]
<1>1. Len(text) \in Nat /\ p # Len(text) + 1
  BY AfterText DEF Where, TextType
<1>2. p \in 1 .. Len(text)
  BY <1>1
<1> QED
  BY <1>1, <1>2, AfterText DEF Where

\* The parser stays in the text, and never prints.
LEMMA WhereStep ==
    ASSUME Where, Next
    PROVE  Where' /\ pc # "print" /\ pc' # "print"
<1> DEFINE L == Len(text)
<1>1. text' = text /\ ending' = ending /\ pc # "print" /\ pc' # "print"
  BY DEF Next, SkipSpace, ParseLeaf, ParseLeafNoMemory, ParseLeafFails, OpenContainer,
         OpenNoMemory, CloseContainer, Comma, NextChild, LoopFails, ReturnItem,
         AppendNoMemory, ArrayEnds, ReturnName, ReturnMember, MemberFails, Finish,
         input, Return, ReturnError, FailContainer, AfterChild
<1>2. L \in Nat /\ pos \in 1 .. L + 1
  BY DEF Where, TextType
<1>3. Peek \notin EndMarks => pos + 1 \in 1 .. L + 1
  BY <1>2, ReadOn DEF Peek
<1>4. Peek \in Leaves => LeafEnd \in 1 .. L + 1
  <2>1. NumberEnd(pos) \in pos .. L + 1
    BY <1>2, NumberEndIs DEF Where
  <2> QED
    BY <1>2, <1>3, <2>1, LeavesPlain DEF LeafEnd
<1>5. skipSpaces(pos) \in 1 .. L + 1
  <2>1. skipSpaces(pos) \in pos .. L + 1
    BY <1>2, skipSpacesIs DEF Where
  <2> QED
    BY <1>2, <2>1
<1>6. pos' \in 1 .. L + 1
  <2>1. CASE SkipSpace \/ OpenContainer \/ Comma \/ CloseContainer
    <3>1. Peek \notin EndMarks /\ pos' = pos + 1
      BY <2>1 DEF SkipSpace, OpenContainer, Comma, CloseContainer, Spaces, EndMarks
    <3> QED
      BY <1>3, <3>1
  <2>2. CASE ParseLeaf \/ ParseLeafNoMemory
    BY <1>4, <2>2 DEF ParseLeaf, ParseLeafNoMemory
  <2>3. CASE ParseLeafFails
    <3>1. \/ Peek \in {"true", "broken"} /\ pos' = pos + 1
          \/ pos' = L + 1 \/ pos' = pos
      BY <2>3 DEF ParseLeafFails
    <3>2. {"true", "broken"} \intersect EndMarks = {}
      BY DEF EndMarks
    <3> QED
      BY <1>2, <1>3, <3>1, <3>2
  <2>4. CASE OpenNoMemory \/ NextChild \/ LoopFails \/ AppendNoMemory \/ MemberFails \/ Finish
    <3>1. pos' = pos
      BY <2>4 DEF OpenNoMemory, NextChild, LoopFails, AppendNoMemory, MemberFails, Finish
    <3> QED
      BY <1>2, <3>1
  <2>5. CASE ReturnItem \/ ReturnMember \/ ArrayEnds
    <3>1. pos' = skipSpaces(pos)
      BY <2>5 DEF ReturnItem, ReturnMember, ArrayEnds, AfterChild
    <3> QED
      BY <1>5, <3>1
  <2>6. CASE ReturnName
    <3>1. \/ At(skipSpaces(pos)) = ":" /\ pos' = skipSpaces(pos) + 1
          \/ pos' = skipSpaces(pos) \/ pos' = pos
      BY <2>6 DEF ReturnName
    <3>2. At(skipSpaces(pos)) = ":" => skipSpaces(pos) + 1 \in 1 .. L + 1
      BY <1>5, ReadOn DEF EndMarks
    <3> QED
      BY <1>2, <1>5, <3>1, <3>2
  <2> QED
    BY <2>1, <2>2, <2>3, <2>4, <2>5, <2>6 DEF Next
<1> QED
  BY <1>1, <1>6 DEF Where, TextType

\* The text after a scan.
LEMMA FoldedText ==
    ASSUME TextType, NEW p \in 1 .. Len(text), NEW symbol \in Symbols,
           NEW n \in p .. Len(text) + 1,
           NEW t, t = SubSeq(text, 1, p - 1) \o <<symbol>> \o SubSeq(text, n, Len(text))
    PROVE  t \in Seq(Symbols) /\ p \in 1 .. Len(t) /\ t[p] = symbol
<1> DEFINE x == SubSeq(text, 1, p - 1)
           y == <<symbol>>
           z == SubSeq(text, n, Len(text))
<1>1. text \in Seq(Symbols) /\ Len(text) \in Nat
  BY DEF TextType
<1>2. x \in Seq(Symbols) /\ Len(x) = p - 1
  BY <1>1
<1>3. y \in Seq(Symbols) /\ Len(y) = 1 /\ y[1] = symbol
  OBVIOUS
<1>4. z \in Seq(Symbols)
  BY <1>1
<1>5. t = (x \o y) \o z
  OBVIOUS
<1> HIDE DEF x, y, z
<1>6. /\ x \o y \in Seq(Symbols) /\ Len(x \o y) = p /\ (x \o y)[p] = symbol
  <2>1. /\ x \o y \in Seq(Symbols) /\ Len(x \o y) = Len(x) + Len(y)
        /\ \A i \in 1 .. Len(x) + Len(y) :
              (x \o y)[i] = IF i <= Len(x) THEN x[i] ELSE y[i - Len(x)]
    BY <1>2, <1>3, ConcatProperties
  <2>2. p \in 1 .. Len(x) + Len(y) /\ ~(p <= Len(x)) /\ p - Len(x) = 1
    BY <1>1, <1>2, <1>3
  <2> QED
    BY <1>2, <1>3, <2>1, <2>2
<1> DEFINE w == x \o y
<1> HIDE DEF w
<1>7. w \in Seq(Symbols) /\ Len(w) = p /\ w[p] = symbol
  BY <1>6 DEF w
<1>8. /\ w \o z \in Seq(Symbols) /\ Len(w \o z) = Len(w) + Len(z)
      /\ \A i \in 1 .. Len(w) + Len(z) :
            (w \o z)[i] = IF i <= Len(w) THEN w[i] ELSE z[i - Len(w)]
  BY <1>4, <1>7, ConcatProperties
<1>9. p \in 1 .. Len(w) + Len(z) /\ p <= Len(w) /\ Len(z) \in Nat
  BY <1>4, <1>7
<1> QED
  BY <1>5, <1>7, <1>8, <1>9 DEF w

Folded(symbol, n) == SubSeq(text, 1, pos - 1) \o <<symbol>> \o SubSeq(text, n, Len(text))

\* The text with the characters from pos on as one symbol.
LEMMA FoldedIs ==
    ASSUME TextType, pos \in 1 .. Len(text), NEW symbol \in Symbols, NEW n \in pos .. Len(text) + 1
    PROVE  /\ Folded(symbol, n) \in Seq(Symbols)
           /\ pos \in 1 .. Len(Folded(symbol, n)) /\ Folded(symbol, n)[pos] = symbol
<1> DEFINE t == Folded(symbol, n)
<1>1. t = SubSeq(text, 1, pos - 1) \o <<symbol>> \o SubSeq(text, n, Len(text))
  BY DEF Folded
<1> HIDE DEF t
<1>2. t \in Seq(Symbols) /\ pos \in 1 .. Len(t) /\ t[pos] = symbol
  BY <1>1, FoldedText
<1> QED
  BY <1>2 DEF t

-----------------------------------------------------------------------------
(***************************************************************************)
(* The scanner.  What it scans begins at pos with `first` and goes on at   *)
(* scan.at.                                                                *)
(***************************************************************************)
Scanning(first) ==
    /\ pos \in 1 .. Len(text) /\ text[pos] = first
    /\ scan.source = SubSeq(text, pos, Len(text))
    /\ scan.at \in pos .. Len(text) + 1
    /\ IsString(scan.ds)

\* What is behind a quote, and how much of it has been read.
Behind == Tail(scan.source)
Done == scan.at - pos - 1

LiteralRead ==
    /\ Scanning("quote")
    /\ scan.at > pos
    /\ Reading(Behind, ending, Done, Content(scan.ds))

\* How much of a number has been read.
Taken == scan.at - pos

\* The first k characters are digits, and in the string.
AreDigits(source, k, ds) ==
    /\ Content(ds) = SubSeq(source, 1, k)
    /\ \A i \in 1 .. k : source[i] = "num"

DigitsRead ==
    /\ Scanning("num")
    /\ "number memory" \notin failed => AreDigits(scan.source, Taken, scan.ds)

ScanInv ==
    /\ Where
    /\ IsCall(scan)
    /\ pc = "print" => pos = 1 /\ scan.call = "none"
    /\ InString => LiteralRead
    /\ InNumber => DigitsRead
    /\ LeavesReadWhole

\* Any step of the parser ends a scan.
LEMMA IdleKeeps ==
    ASSUME ScanInv, ParseNext
    PROVE  ScanInv'
<1>1. Where' /\ pc' # "print"
  BY WhereStep DEF ScanInv, ParseNext
<1>2. IsCall(scan') /\ scan'.call = "none"
  BY CallIs DEF ParseNext, Idle
<1> QED
  BY <1>1, <1>2 DEF ScanInv, InString, InNumber, LeavesReadWhole, ready, dead, IsCall

\* Nothing of it depends on the rest of the state.
LEMMA SameScan ==
    ASSUME ScanInv, UNCHANGED <<text, ending, pos, pc, failed, scan>>
    PROVE  ScanInv'
BY DEF ScanInv, Where, TextType, IsCall, InString, InNumber, LiteralRead, DigitsRead, Taken, Scanning,
       Behind, Done, LeavesReadWhole, ready, dead

\* A string goes on with what has been read.
LEMMA LiteralGoesOn ==
    ASSUME ScanInv, InString, pc # "print",
           NEW d, IsString(d), NEW n \in pos + 1 .. Len(text) + 1,
           Reading(Behind, ending, n - pos - 1, Content(d)),
           Goes(d, n)
    PROVE  ScanInv'
<1>1. /\ text' = text /\ ending' = ending /\ pos' = pos /\ pc' = pc
      /\ scan' = [call |-> scan.call, at |-> n, ds |-> d, source |-> scan.source]
  <2>1. IsCall(scan)
    BY DEF ScanInv
  <2>2. [scan EXCEPT !.ds = d, !.at = n]
          = [call |-> scan.call, at |-> n, ds |-> d, source |-> scan.source]
    BY <2>1, GoesCall
  <2> QED
    BY <2>2 DEF Goes, vars
<1>2. IsCall(scan') /\ scan'.call = "string" /\ scan'.at = n /\ scan'.ds = d
      /\ scan'.source = scan.source
  BY <1>1, CallIs DEF InString
<1>3. Where'
  BY <1>1 DEF ScanInv, Where, TextType
<1>4. LiteralRead'
  <2>1. Scanning("quote") /\ pos \in 1 .. Len(text) /\ Len(text) \in Nat
    BY DEF ScanInv, LiteralRead, Scanning, Where, TextType
  <2>2. n \in pos .. Len(text) + 1 /\ n > pos
    BY <2>1
  <2> QED
    BY <1>1, <1>2, <2>1, <2>2 DEF LiteralRead, Scanning, Behind, Done
<1> QED
  BY <1>1, <1>2, <1>3, <1>4 DEF ScanInv, InString, InNumber, LeavesReadWhole, ready, dead, IsCall

\* What is known while a string is read.
LEMMA InLiteral ==
    ASSUME ScanInv, InString
    PROVE  /\ TextType /\ Len(text) \in Nat /\ pos \in 1 .. Len(text) /\ ending \in EndMarks
           /\ scan.source = SubSeq(text, pos, Len(text))
           /\ scan.source \in Seq(Symbols) /\ scan.source # <<>> /\ scan.source[1] = "quote"
           /\ Body(Behind) /\ Len(Behind) = Len(text) - pos
           /\ Done \in Nat /\ Done <= Len(Behind) /\ scan.at = pos + 1 + Done
           /\ Len(scan.source) = Len(Behind) + 1
           /\ \A i \in 1 .. Len(Behind) : Behind[i] = scan.source[i + 1]
           /\ IsString(scan.ds) /\ Reading(Behind, ending, Done, Content(scan.ds))
<1>1. /\ TextType /\ Len(text) \in Nat /\ pos \in 1 .. Len(text) /\ text[pos] = "quote"
      /\ scan.source = SubSeq(text, pos, Len(text))
      /\ scan.at \in pos .. Len(text) + 1 /\ scan.at > pos
      /\ IsString(scan.ds) /\ Reading(Behind, ending, Done, Content(scan.ds))
      /\ ending \in EndMarks
  BY DEF ScanInv, LiteralRead, Scanning, Where, TextType
<1>2. /\ scan.source \in Seq(Symbols) /\ scan.source # <<>>
      /\ Len(scan.source) = Len(text) - pos + 1
      /\ \A i \in 1 .. Len(scan.source) : scan.source[i] = text[pos + i - 1]
      /\ Body(Behind) /\ Len(Behind) = Len(text) - pos
      /\ \A i \in 1 .. Len(Behind) : Behind[i] = scan.source[i + 1]
  BY <1>1, SourceIs DEF Behind
<1>3. scan.source[1] = "quote"
  <2>1. 1 \in 1 .. Len(scan.source) /\ pos + 1 - 1 = pos
    BY <1>1, <1>2
  <2> QED
    BY <1>1, <1>2, <2>1
<1>4. /\ Done \in Nat /\ Done <= Len(Behind) /\ scan.at = pos + 1 + Done
      /\ Len(scan.source) = Len(Behind) + 1
  <2>1. /\ Len(text) \in Nat /\ pos \in 1 .. Len(text) /\ scan.at \in pos .. Len(text) + 1
        /\ scan.at > pos /\ Len(Behind) = Len(text) - pos /\ Len(scan.source) = Len(text) - pos + 1
    BY <1>1, <1>2
  <2> QED
    BY ONLY <2>1 DEF Done
<1> QED
  BY <1>1, <1>2, <1>3, <1>4, Zenon

\* A string that is not taken, which is the fault of memory, of the encoding or
\* of a sequence in a string, or of the text.
LEMMA LiteralFails ==
    ASSUME ScanInv, InString, pc # "print",
           NEW n \in pos + 1 .. Len(text) + 1, NEW why, ScanFails(n, why),
           \/ why # {}
           \/ ending = "NUL" /\ \E i \in DOMAIN scan.source : scan.source[i] \in DOMAIN Octets
           \/ \A i \in 0 .. Len(Behind) - 1 : ~Closes(Behind, i)
    PROVE  ScanInv'
<1>1. /\ TextType /\ Len(text) \in Nat /\ pos \in 1 .. Len(text)
      /\ scan.source \in Seq(Symbols) /\ scan.source # <<>> /\ scan.source[1] = "quote"
  BY InLiteral
<1>2. /\ text' = SubSeq(text, 1, pos - 1) \o <<"broken">> \o SubSeq(text, n, Len(text))
      /\ ending' = ending /\ pos' = pos /\ pc' = pc /\ failed' = failed \union why
      /\ scan' = [call |-> "ready", at |-> n, ds |-> NoBuffer, source |-> scan.source]
  <2>1. [scan EXCEPT !.call = "ready", !.at = n, !.ds = NoBuffer]
          = [call |-> "ready", at |-> n, ds |-> NoBuffer, source |-> scan.source]
    <3>1. IsCall(scan)
      BY DEF ScanInv
    <3>2. EndsWith(scan, "ready", n, NoBuffer)
            = [call |-> "ready", at |-> n, ds |-> NoBuffer, source |-> scan.source]
      BY <3>1, EndsCall
    <3> QED
      BY <3>2 DEF EndsWith
  <2>2. /\ text' = SubSeq(text, 1, pos - 1) \o <<"broken">> \o SubSeq(text, n, Len(text))
        /\ ending' = ending /\ pos' = pos /\ pc' = pc /\ failed' = failed \union why
        /\ scan' = [scan EXCEPT !.call = "ready", !.at = n, !.ds = NoBuffer]
    BY DEF ScanFails, ScanEnds
  <2> QED
    BY <2>1, <2>2, Zenon
<1>3. IsCall(scan') /\ scan'.call = "ready" /\ scan'.source = scan.source
  BY <1>2, CallIs
<1>4. "broken" \in Symbols /\ n \in pos .. Len(text) + 1
  BY <1>1 DEF Symbols, EndMarks
<1>5. text' \in Seq(Symbols) /\ pos \in 1 .. Len(text') /\ text'[pos] = "broken"
  <2>1. TextType /\ pos \in 1 .. Len(text)
    BY <1>1
  <2>2. /\ Folded("broken", n) \in Seq(Symbols)
        /\ pos \in 1 .. Len(Folded("broken", n)) /\ Folded("broken", n)[pos] = "broken"
    BY <1>4, <2>1, FoldedIs
  <2>3. text' = Folded("broken", n)
    BY <1>2, Zenon DEF Folded
  <2> QED
    BY <2>2, <2>3, Zenon
<1>6. Where'
  <2>1. Len(text') \in Nat /\ ending \in EndMarks
    BY <1>1, <1>5 DEF TextType
  <2>2. pos' \in 1 .. Len(text') + 1
    BY <1>2, <1>5, <2>1
  <2> QED
    BY <1>2, <1>5, <2>1, <2>2 DEF Where, TextType
<1>7. \/ failed' # {}
      \/ ending = "NUL" /\ \E i \in DOMAIN scan.source : scan.source[i] \in DOMAIN Octets
      \/ Literals(scan.source, "json") = {}
  <2>1. Literals(scan.source, "json") # {} =>
           \E i \in 0 .. Len(Behind) - 1 : Closes(Behind, i)
    BY <1>1, LiteralsAre DEF Behind
  <2>2. why # {} => failed' # {}
    BY <1>2
  <2> QED
    BY <2>1, <2>2, Zenon
<1>8. LeavesReadWhole'
  <2>1. pos' = pos /\ scan'.source[1] = "quote" /\ text'[pos] = "broken" /\ scan'.call = "ready"
    BY <1>1, <1>2, <1>3, <1>5
  <2> QED
    BY <1>2, <1>3, <1>7, <2>1 DEF LeavesReadWhole, ready, dead
<1> QED
  BY <1>2, <1>3, <1>6, <1>8 DEF ScanInv, InString, InNumber, IsCall

\* One character more, or no memory.
LEMMA AppendsKeeps ==
    ASSUME ScanInv, InString, pc # "print", NEW c \in Cells,
           NEW next \in pos + 1 .. Len(text) + 1, NEW stuck \in pos + 1 .. Len(text) + 1,
           Reading(Behind, ending, next - pos - 1, Append(Content(scan.ds), c)),
           Appends(c, next, stuck)
    PROVE  ScanInv'
<1> DEFINE d == dsAppend(scan.ds, c)
<1>1. CASE Goes(d, next)
  <2>1. IsString(scan.ds)
    BY InLiteral
  <2>2. IsString(d) /\ Content(d) = Append(Content(scan.ds), c)
    BY <2>1, dsAppendIs
  <2> HIDE DEF d
  <2>3. Reading(Behind, ending, next - pos - 1, Content(d))
    BY <2>2
  <2> QED
    BY <1>1, <2>2, <2>3, LiteralGoesOn
<1>2. CASE ScanFails(stuck, {"string memory"})
  <2>1. {"string memory"} # {}
    OBVIOUS
  <2> QED
    BY <1>2, <2>1, LiteralFails
<1> QED
  BY <1>1, <1>2 DEF Appends

\* A character that has to be encoded first, which can fail.
LEMMA AppendsWideKeeps ==
    ASSUME ScanInv, InString, pc # "print", NEW c \in Cells,
           NEW next \in pos + 1 .. Len(text) + 1,
           Reading(Behind, ending, next - pos - 1, Append(Content(scan.ds), c)),
           AppendsWide(c, next)
    PROVE  ScanInv'
<1>1. CASE ScanFails(next, {"encoding"})
  <2>1. {"encoding"} # {}
    OBVIOUS
  <2> QED
    BY <1>1, <2>1, LiteralFails
<1> QED
  BY <1>1, AppendsKeeps DEF AppendsWide

\* The character i places ahead.
LEMMA AheadIs ==
    ASSUME ScanInv, InString, NEW i \in Nat
    PROVE  /\ Done + 1 + i <= Len(Behind) =>
                /\ At(scan.at + i) = Behind[Done + 1 + i]
                /\ scan.at + i + 1 \in pos + 1 .. Len(text) + 1
                /\ Done + 1 + i \in 1 .. Len(Behind)
           /\ Done + 1 + i > Len(Behind) => At(scan.at + i) = ending
           /\ At(scan.at + i) \notin EndMarks => Done + 1 + i <= Len(Behind)
           /\ scan.at + i + 1 - pos - 1 = Done + 1 + i
<1> DEFINE j == Done + 1 + i
<1>1. /\ TextType /\ Len(text) \in Nat /\ pos \in 1 .. Len(text)
      /\ Behind = Tail(SubSeq(text, pos, Len(text)))
      /\ Len(Behind) = Len(text) - pos /\ Done \in Nat
      /\ scan.at = pos + 1 + Done /\ ending \in EndMarks
  BY InLiteral DEF Behind
<1>2. /\ j \in Nat \ {0} /\ scan.at + i = pos + j /\ Len(Behind) \in Nat
      /\ scan.at + i + 1 - pos - 1 = j
  BY <1>1
<1>4. j <= Len(Behind) => scan.at + i + 1 \in pos + 1 .. Len(text) + 1 /\ j \in 1 .. Len(Behind)
  BY <1>1
<1>5. j <= Len(Behind) \/ j > Len(Behind)
  BY <1>1
<1> HIDE DEF j
<1>3. /\ j <= Len(Behind) => At(pos + j) = Behind[j]
      /\ j > Len(Behind) => At(pos + j) = ending /\ At(pos + j) \in EndMarks
  BY <1>1, <1>2, LetterIs
<1>6. At(scan.at + i) = At(pos + j)
  BY <1>2
<1>7. /\ j <= Len(Behind) => /\ At(scan.at + i) = Behind[j]
                             /\ scan.at + i + 1 \in pos + 1 .. Len(text) + 1
                             /\ j \in 1 .. Len(Behind)
      /\ j > Len(Behind) => At(scan.at + i) = ending
      /\ At(scan.at + i) \notin EndMarks => j <= Len(Behind)
      /\ scan.at + i + 1 - pos - 1 = j
  BY <1>2, <1>3, <1>4, <1>5, <1>6, Zenon
<1> QED
  BY <1>7 DEF j

\* What the next character is, and where the string goes on behind it.
LEMMA CharIs ==
    ASSUME ScanInv, InString
    PROVE  /\ Body(Behind) /\ Reading(Behind, ending, Done, Content(scan.ds))
           /\ ending \in EndMarks /\ Done \in Nat /\ Len(Behind) \in Nat
           /\ scan.at \in pos + 1 .. Len(text) + 1 /\ scan.at = pos + 1 + Done
           /\ Char \notin EndMarks =>
                 /\ Done < Len(Behind) /\ Done + 1 \in 1 .. Len(Behind)
                 /\ Char = Behind[Done + 1] /\ Char \in Cells
                 /\ scan.at + 1 \in pos + 1 .. Len(text) + 1
                 /\ (scan.at + 1) - pos - 1 = Done + 1
           /\ Char \in EndMarks => Done = Len(Behind)
<1>1. /\ Body(Behind) /\ Reading(Behind, ending, Done, Content(scan.ds))
      /\ ending \in EndMarks /\ Len(text) \in Nat /\ pos \in 1 .. Len(text)
      /\ Len(Behind) = Len(text) - pos
      /\ Done \in Nat /\ scan.at = pos + 1 + Done /\ Done <= Len(Behind)
  BY InLiteral
<1>2. /\ Len(Behind) \in Nat /\ scan.at \in pos + 1 .. Len(text) + 1
      /\ scan.at + 0 = scan.at /\ Done + 1 + 0 = Done + 1
      /\ scan.at + 0 + 1 = scan.at + 1
      /\ Done + 1 <= Len(Behind) => Done < Len(Behind)
      /\ ~(Done + 1 <= Len(Behind)) => Done = Len(Behind)
      /\ (scan.at + 1) - pos - 1 = Done + 1
  BY <1>1
<1>3. /\ Done + 1 <= Len(Behind) => /\ Char = Behind[Done + 1]
                                    /\ scan.at + 1 \in pos + 1 .. Len(text) + 1
                                    /\ Done + 1 \in 1 .. Len(Behind)
      /\ Char \notin EndMarks => Done + 1 <= Len(Behind)
  <2>1. /\ Done + 1 + 0 <= Len(Behind) =>
              /\ At(scan.at + 0) = Behind[Done + 1 + 0]
              /\ scan.at + 0 + 1 \in pos + 1 .. Len(text) + 1
              /\ Done + 1 + 0 \in 1 .. Len(Behind)
        /\ At(scan.at + 0) \notin EndMarks => Done + 1 + 0 <= Len(Behind)
    BY AheadIs
  <2> QED
    BY <1>2, <2>1, Zenon DEF Char
<1>4. Done + 1 <= Len(Behind) => Char \in Cells /\ Char \notin EndMarks
  BY <1>1, <1>3, CellsOf
<1> QED
  BY <1>1, <1>2, <1>3, <1>4, Zenon

\* ReadPlain appends the character,
LEMMA ReadPlainKeeps == ASSUME ScanInv, pc # "print", ReadPlain PROVE ScanInv'
<1>1. /\ InString /\ Char \notin Special /\ Char \notin EndMarks
      /\ Appends(Char, scan.at + 1, scan.at)
  BY DEF ReadPlain, Special
<1>2. /\ Body(Behind) /\ Reading(Behind, ending, Done, Content(scan.ds)) /\ ending \in EndMarks
      /\ Done < Len(Behind) /\ Char = Behind[Done + 1] /\ Char \in Cells
      /\ scan.at \in pos + 1 .. Len(text) + 1 /\ scan.at + 1 \in pos + 1 .. Len(text) + 1
      /\ (scan.at + 1) - pos - 1 = Done + 1
  BY <1>1, CharIs
<1>3. Reading(Behind, ending, Done + 1, Append(Content(scan.ds), Char))
  BY <1>1, <1>2, PlainGrows
<1>4. Reading(Behind, ending, (scan.at + 1) - pos - 1, Append(Content(scan.ds), Char))
  BY <1>2, <1>3
<1> QED
  BY <1>1, <1>2, <1>4, AppendsKeeps

\* The character behind the one at hand.
LEMMA NextIs ==
    ASSUME ScanInv, InString
    PROVE  /\ Done + 2 <= Len(Behind) =>
                /\ NextChar = Behind[Done + 2]
                /\ scan.at + 2 \in pos + 1 .. Len(text) + 1
           /\ NextChar \notin EndMarks => Done + 2 <= Len(Behind)
           /\ (scan.at + 2) - pos - 1 = Done + 2
<1>1. Done \in Nat /\ scan.at = pos + 1 + Done /\ pos \in Nat
  BY InLiteral
<1>2. /\ Done + 1 + 1 = Done + 2 /\ scan.at + 1 + 1 = scan.at + 2
      /\ (scan.at + 2) - pos - 1 = Done + 2
  BY <1>1
<1>3. /\ Done + 1 + 1 <= Len(Behind) =>
            /\ At(scan.at + 1) = Behind[Done + 1 + 1]
            /\ scan.at + 1 + 1 \in pos + 1 .. Len(text) + 1
      /\ At(scan.at + 1) \notin EndMarks => Done + 1 + 1 <= Len(Behind)
  BY AheadIs, 1 \in Nat
<1> QED
  BY <1>2, <1>3, Zenon DEF NextChar

\* Several characters ahead.
LEMMA AheadAll ==
    ASSUME ScanInv, InString, NEW lo \in Nat, NEW hi \in Nat, lo <= hi,
           NEW S, S \intersect EndMarks = {}
    PROVE  (\A i \in scan.at + lo .. scan.at + hi : At(i) \in S)
             <=> /\ Done + 1 + hi <= Len(Behind)
                 /\ \A i \in Done + 1 + lo .. Done + 1 + hi : Behind[i] \in S
<1>1. Done \in Nat /\ scan.at = pos + 1 + Done /\ pos \in Nat /\ Len(Behind) \in Nat
  BY InLiteral, CharIs
<1>2. \A i \in Nat : /\ Done + 1 + i <= Len(Behind) => At(scan.at + i) = Behind[Done + 1 + i]
                     /\ At(scan.at + i) \notin EndMarks => Done + 1 + i <= Len(Behind)
  BY AheadIs
<1>3. ASSUME \A i \in scan.at + lo .. scan.at + hi : At(i) \in S
      PROVE  /\ Done + 1 + hi <= Len(Behind)
             /\ \A i \in Done + 1 + lo .. Done + 1 + hi : Behind[i] \in S
  <2>1. Done + 1 + hi <= Len(Behind)
    <3>1. scan.at + hi \in scan.at + lo .. scan.at + hi
      BY <1>1
    <3> QED
      BY <1>2, <1>3, <3>1
  <2>2. ASSUME NEW i \in Done + 1 + lo .. Done + 1 + hi PROVE Behind[i] \in S
    <3> DEFINE j == i - Done - 1
    <3>1. /\ j \in Nat /\ Done + 1 + j = i /\ i <= Len(Behind)
          /\ scan.at + j \in scan.at + lo .. scan.at + hi
      BY <1>1, <2>1
    <3> HIDE DEF j
    <3>2. At(scan.at + j) = Behind[i]
      BY <1>2, <3>1
    <3> QED
      BY <1>3, <3>1, <3>2
  <2> QED
    BY <2>1, <2>2
<1>4. ASSUME Done + 1 + hi <= Len(Behind),
             \A i \in Done + 1 + lo .. Done + 1 + hi : Behind[i] \in S,
             NEW i \in scan.at + lo .. scan.at + hi
      PROVE  At(i) \in S
  <2> DEFINE j == i - scan.at
  <2>1. /\ j \in Nat /\ scan.at + j = i /\ Done + 1 + j <= Len(Behind)
        /\ Done + 1 + j \in Done + 1 + lo .. Done + 1 + hi
    BY <1>1, <1>4
  <2> HIDE DEF j
  <2>2. At(i) = Behind[Done + 1 + j]
    BY <1>2, <2>1
  <2> QED
    BY <1>4, <2>1, <2>2
<1> QED
  BY <1>3, <1>4

\* StringEnds fails: the text ends within the literal.
LEMMA StringEndsKeeps == ASSUME ScanInv, pc # "print", StringEnds PROVE ScanInv'
<1>1. InString /\ Char \in EndMarks /\ ScanFails(scan.at, {})
  BY DEF StringEnds
<1>2. /\ Body(Behind) /\ Reading(Behind, ending, Done, Content(scan.ds)) /\ ending \in EndMarks
      /\ Done = Len(Behind) /\ Len(Behind) \in Nat
      /\ scan.at \in pos + 1 .. Len(text) + 1
  BY <1>1, CharIs
<1>3. \A k \in Done + 1 .. Len(Behind) : FALSE
  BY <1>2
<1>4. \A i \in 0 .. Len(Behind) - 1 : ~Closes(Behind, i)
  BY <1>2, <1>3, NoUnitHere
<1> QED
  BY <1>1, <1>2, <1>4, LiteralFails

\* ReadEscape appends what it means,
LEMMA ReadEscapeKeeps == ASSUME ScanInv, pc # "print", ReadEscape PROVE ScanInv'
<1>1. /\ InString /\ Char = "bslash" /\ NextChar \in Escaped
      /\ Appends(Meaning(NextChar), scan.at + 2, scan.at + 1)
  BY DEF ReadEscape
<1>2. Char \notin EndMarks /\ NextChar \notin EndMarks
  BY <1>1 DEF Escaped, EndMarks
<1>3. /\ Body(Behind) /\ Reading(Behind, ending, Done, Content(scan.ds)) /\ ending \in EndMarks
      /\ Char = Behind[Done + 1] /\ scan.at + 1 \in pos + 1 .. Len(text) + 1
  BY <1>1, <1>2, CharIs
<1>4. /\ Done + 2 <= Len(Behind) /\ NextChar = Behind[Done + 2]
      /\ scan.at + 2 \in pos + 1 .. Len(text) + 1 /\ (scan.at + 2) - pos - 1 = Done + 2
  BY <1>1, <1>2, NextIs
<1>5. /\ Reading(Behind, ending, Done + 2, Append(Content(scan.ds), Meaning(Behind[Done + 2])))
      /\ Meaning(Behind[Done + 2]) \in Cells
  BY <1>1, <1>3, <1>4, EscapeGrows
<1>6. /\ Reading(Behind, ending, (scan.at + 2) - pos - 1,
                 Append(Content(scan.ds), Meaning(NextChar)))
      /\ Meaning(NextChar) \in Cells
  BY <1>4, <1>5
<1> QED
  BY <1>1, <1>3, <1>4, <1>6, AppendsKeeps

\* SkipBackslash leaves it out, in what JSON does not allow,
LEMMA SkipBackslashKeeps == ASSUME ScanInv, pc # "print", SkipBackslash PROVE ScanInv'
<1>1. /\ InString /\ Char = "bslash" /\ NextChar \notin Escaped \union EndMarks \union {"u"}
      /\ Goes(scan.ds, scan.at + 1)
  BY DEF SkipBackslash
<1>2. /\ Body(Behind) /\ Reading(Behind, ending, Done, Content(scan.ds)) /\ ending \in EndMarks
      /\ Char = Behind[Done + 1] /\ scan.at + 1 \in pos + 1 .. Len(text) + 1
      /\ (scan.at + 1) - pos - 1 = Done + 1 /\ Done < Len(Behind)
  BY <1>1, CharIs DEF EndMarks
<1>3. Done + 2 <= Len(Behind) => Behind[Done + 2] \notin Escaped \union {"u"}
  BY <1>1, NextIs
<1>4. Reading(Behind, ending, Done + 1, Content(scan.ds))
  BY <1>1, <1>2, <1>3, BackslashGrows
<1>5. Reading(Behind, ending, (scan.at + 1) - pos - 1, Content(scan.ds))
  BY <1>2, <1>4
<1>6. IsString(scan.ds)
  BY <1>1, InLiteral
<1> QED
  BY <1>1, <1>2, <1>5, <1>6, LiteralGoesOn

\* EscapeEnds fails: the text ends behind the backslash.
LEMMA EscapeEndsKeeps == ASSUME ScanInv, pc # "print", EscapeEnds PROVE ScanInv'
<1>1. /\ InString /\ Char = "bslash" /\ NextChar \in EndMarks
      /\ ScanFails(scan.at + 1, {})
  BY DEF EscapeEnds
<1>2. /\ Body(Behind) /\ Reading(Behind, ending, Done, Content(scan.ds)) /\ ending \in EndMarks
      /\ Behind[Done + 1] = "bslash" /\ scan.at + 1 \in pos + 1 .. Len(text) + 1
      /\ Done \in Nat /\ Len(Behind) \in Nat
  BY <1>1, CharIs DEF EndMarks
<1>3. ~(Done + 2 <= Len(Behind))
  <2>1. ASSUME Done + 2 <= Len(Behind) PROVE FALSE
    <3>1. NextChar = Behind[Done + 2]
      BY <1>1, <2>1, NextIs
    <3>2. Done + 2 \in 1 .. Len(Behind)
      BY <1>2, <2>1
    <3> QED
      BY <1>1, <1>2, <3>1, <3>2, CellsOf
  <2> QED
    BY <2>1
<1>4. ASSUME NEW k \in Done + 1 .. Len(Behind)
      PROVE  /\ ~IsPlain(Behind, Done, k) /\ ~IsEscape(Behind, Done, k)
             /\ ~IsCode(Behind, Done, k) /\ ~IsSequence(Behind, Done, k)
  BY <1>2, <1>3 DEF IsPlain, IsEscape, IsCode, IsSequence, Special
<1>5. \A i \in 0 .. Len(Behind) - 1 : ~Closes(Behind, i)
  BY <1>2, <1>4, NoUnitHere
<1> QED
  BY <1>1, <1>2, <1>5, LiteralFails

\* ReadCode appends what the digits name, or fails at the one missing,
LEMMA ReadCodeKeeps == ASSUME ScanInv, pc # "print", ReadCode PROVE ScanInv'
<1> DEFINE first == scan.at + 2
           Good(n) == \A i \in first .. first + n - 1 : At(i) \in Digits
           c == IF \A i \in first .. first + 3 : At(i) = "zero" THEN "NUL" ELSE "wide"
<1>1. /\ InString /\ Char = "bslash" /\ NextChar = "u"
      /\ IF Good(4) THEN AppendsWide(c, first + 4)
         ELSE \E n \in 0 .. 3 : Good(n) /\ ~Good(n + 1) /\ ScanFails(first + n, {})
  BY DEF ReadCode
<1>2. /\ Char \notin EndMarks /\ NextChar \notin EndMarks
      /\ Digits \intersect EndMarks = {} /\ {"zero"} \intersect EndMarks = {}
  BY <1>1 DEF Digits, EndMarks
<1>3. /\ Body(Behind) /\ Reading(Behind, ending, Done, Content(scan.ds)) /\ ending \in EndMarks
      /\ Behind[Done + 1] = "bslash" /\ Done \in Nat /\ Len(Behind) \in Nat
      /\ scan.at = pos + 1 + Done /\ scan.at \in pos + 1 .. Len(text) + 1
  BY <1>1, <1>2, CharIs
<1>4. /\ Done + 2 <= Len(Behind) /\ Behind[Done + 2] = "u"
      /\ scan.at + 2 \in pos + 1 .. Len(text) + 1
  BY <1>1, <1>2, NextIs
<1>10. InString
  BY <1>1
<1>5. /\ pos \in Nat /\ Len(text) \in Nat /\ scan.at \in Nat
      /\ Len(Behind) = Len(text) - pos
  <2>1. pos \in 1 .. Len(text) /\ Len(text) \in Nat /\ Len(Behind) = Len(text) - pos
    BY <1>10, InLiteral
  <2> QED
    BY <1>3, <2>1
<1>6. /\ first + 4 - 1 = scan.at + 5 /\ first = scan.at + 2 /\ first + 3 = scan.at + 5
      /\ first + 4 = scan.at + 6 /\ (scan.at + 6) - pos - 1 = Done + 6
      /\ Done + 1 + 2 = Done + 3 /\ Done + 1 + 5 = Done + 6
      /\ scan.at + 5 + 1 = scan.at + 6
  BY <1>3, <1>5
<1>7. Good(4) <=> /\ Done + 6 <= Len(Behind)
                  /\ \A i \in Done + 3 .. Done + 6 : Behind[i] \in Digits
  <2>1. (\A i \in scan.at + 2 .. scan.at + 5 : At(i) \in Digits)
          <=> /\ Done + 1 + 5 <= Len(Behind)
              /\ \A i \in Done + 1 + 2 .. Done + 1 + 5 : Behind[i] \in Digits
    BY <1>2, <1>10, AheadAll, 2 \in Nat, 5 \in Nat, 2 <= 5
  <2> QED
    BY <1>6, <2>1, Zenon
<1>8. CASE Good(4)
  <2>1. (\A i \in scan.at + 2 .. scan.at + 5 : At(i) \in {"zero"})
          <=> /\ Done + 1 + 5 <= Len(Behind)
              /\ \A i \in Done + 1 + 2 .. Done + 1 + 5 : Behind[i] \in {"zero"}
    BY <1>2, <1>10, AheadAll, 2 \in Nat, 5 \in Nat, 2 <= 5
  <2>2. (\A i \in first .. first + 3 : At(i) = "zero")
           <=> \A i \in Done + 3 .. Done + 6 : Behind[i] = "zero"
    <3>1. (\A i \in scan.at + 2 .. scan.at + 5 : At(i) \in {"zero"})
            <=> \A i \in Done + 3 .. Done + 6 : Behind[i] \in {"zero"}
      BY <1>6, <1>7, <1>8, <2>1, Zenon
    <3>2. (\A i \in scan.at + 2 .. scan.at + 5 : At(i) = "zero")
            <=> \A i \in Done + 3 .. Done + 6 : Behind[i] = "zero"
      BY <3>1
    <3> QED
      BY <1>6, <3>2, Zenon
  <2>3. c = CodeMeaning(Behind, Done)
    BY <2>2 DEF CodeMeaning
  <2>4. /\ Reading(Behind, ending, Done + 6, Append(Content(scan.ds), CodeMeaning(Behind, Done)))
        /\ CodeMeaning(Behind, Done) \in Cells
    BY <1>3, <1>4, <1>7, <1>8, CodeGrows
  <2>5. AppendsWide(c, first + 4)
    BY <1>1, <1>8
  <2>6. scan.at + 6 \in pos + 1 .. Len(text) + 1
    BY <1>3, <1>5, <1>7, <1>8
  <2> HIDE DEF c, first
  <2>7. Reading(Behind, ending, (scan.at + 6) - pos - 1, Append(Content(scan.ds), c)) /\ c \in Cells
    BY <1>6, <2>3, <2>4
  <2>8. AppendsWide(c, scan.at + 6)
    BY <1>6, <2>5
  <2> QED
    BY <1>1, <2>6, <2>7, <2>8, AppendsWideKeeps
<1>9. CASE ~Good(4)
  <2>1. PICK n \in 0 .. 3 : Good(n) /\ ~Good(n + 1) /\ ScanFails(first + n, {})
    BY <1>1, <1>9
  <2>2. first + n \in pos + 1 .. Len(text) + 1
    <3>1. CASE n = 0
      BY <1>4, <1>5, <3>1
    <3>2. CASE n # 0
      <4> DEFINE m == n + 1
      <4>1. first + n - 1 \in first .. first + n - 1
        BY <1>5, <3>2
      <4>2. At(first + n - 1) \in Digits
        BY <2>1, <4>1
      <4>3. m \in Nat /\ first + n - 1 = scan.at + m /\ scan.at + m + 1 = first + n
        BY <1>5
      <4> HIDE DEF m
      <4>4. At(scan.at + m) \notin EndMarks
        BY <1>2, <4>2, <4>3
      <4>5. scan.at + m + 1 \in pos + 1 .. Len(text) + 1
        BY <1>1, <4>3, <4>4, AheadIs
      <4> QED
        BY <4>3, <4>5
    <3> QED
      BY <3>1, <3>2
  <2>3. ASSUME NEW k \in Done + 1 .. Len(Behind)
        PROVE  /\ ~IsPlain(Behind, Done, k) /\ ~IsEscape(Behind, Done, k)
               /\ ~IsCode(Behind, Done, k) /\ ~IsSequence(Behind, Done, k)
    <3>1. ~IsCode(Behind, Done, k)
      BY <1>3, <1>7, <1>9 DEF IsCode
    <3> QED
      BY <1>3, <1>4, <3>1 DEF IsPlain, IsEscape, IsSequence, Special, Escaped
  <2>4. \A i \in 0 .. Len(Behind) - 1 : ~Closes(Behind, i)
    BY <1>3, <2>3, NoUnitHere
  <2> QED
    BY <1>1, <2>1, <2>2, <2>4, LiteralFails
<1> QED
  BY <1>8, <1>9

\* ReadSequence appends a character of several octets,
LEMMA ReadSequenceKeeps == ASSUME ScanInv, pc # "print", ReadSequence PROVE ScanInv'
<1> DEFINE o == Octets[Char]
           last == scan.at + o - 1
           next == IF last > Len(text) THEN Len(text) + 1 ELSE last + 1
           x == IF \A i \in scan.at + 1 .. last : At(i) = "tail" THEN "wide" ELSE "odd"
<1>1. /\ InString /\ Char \in DOMAIN Octets /\ ending = "EOF"
      /\ AppendsWide(x, next)
  BY DEF ReadSequence
<1>2. /\ Char \in {"lead2", "lead3"} /\ o \in {2, 3} /\ Char \notin EndMarks
      /\ {"tail"} \intersect EndMarks = {}
  BY <1>1 DEF Octets, EndMarks
<1>3. /\ Body(Behind) /\ Reading(Behind, ending, Done, Content(scan.ds)) /\ ending \in EndMarks
      /\ Char = Behind[Done + 1] /\ Done \in Nat /\ Len(Behind) \in Nat /\ Done < Len(Behind)
      /\ scan.at = pos + 1 + Done /\ scan.at \in pos + 1 .. Len(text) + 1
  BY <1>1, <1>2, CharIs
<1>4. /\ pos \in 1 .. Len(text) /\ Len(text) \in Nat /\ scan.at \in Nat
      /\ Len(Behind) = Len(text) - pos
  BY <1>1, <1>3, InLiteral
<1>5. x \in Cells
  BY DEF Cells
<1>6. CASE last > Len(text)
  <2>1. Done + o > Len(Behind)
    BY <1>2, <1>3, <1>4, <1>6
  <2>2. Done + Octets[Behind[Done + 1]] > Len(Behind) /\ Behind[Done + 1] \in DOMAIN Octets
    BY <1>1, <1>3, <2>1
  <2>3. AppendsWide(x, Len(text) + 1)
    BY <1>1, <1>6
  <2>4. Len(text) + 1 \in pos + 1 .. Len(text) + 1 /\ (Len(text) + 1) - pos - 1 = Len(Behind)
    BY <1>4
  <2> HIDE DEF x
  <2>5. Reading(Behind, ending, Len(Behind), Append(Content(scan.ds), x))
    BY <1>3, <1>5, <2>2, SequenceCut
  <2>6. Reading(Behind, ending, (Len(text) + 1) - pos - 1, Append(Content(scan.ds), x))
    BY <2>4, <2>5
  <2> QED
    BY <1>1, <1>5, <2>3, <2>4, <2>6, AppendsWideKeeps
<1>7. CASE ~(last > Len(text))
  <2> DEFINE hi == o - 1
  <2>1. /\ Done + o <= Len(Behind) /\ hi \in Nat /\ 1 <= hi /\ last = scan.at + hi
        /\ Done + 1 + hi = Done + o /\ Done + 1 + 1 = Done + 2
        /\ last + 1 \in pos + 1 .. Len(text) + 1 /\ (last + 1) - pos - 1 = Done + o
    <3>1. o \in {2, 3} /\ ~(scan.at + o - 1 > Len(text))
      BY <1>2, <1>7
    <3> HIDE DEF o
    <3> QED
      BY <1>3, <1>4, <3>1
  <2>2. AppendsWide(x, last + 1)
    BY <1>1, <1>7
  <2> HIDE DEF hi, last, o
  <2>3. (\A i \in scan.at + 1 .. scan.at + hi : At(i) \in {"tail"})
          <=> /\ Done + 1 + hi <= Len(Behind)
              /\ \A i \in Done + 1 + 1 .. Done + 1 + hi : Behind[i] \in {"tail"}
    BY <1>1, <1>2, <2>1, AheadAll
  <2>4. (\A i \in scan.at + 1 .. last : At(i) \in {"tail"})
          <=> \A i \in Done + 2 .. Done + o : Behind[i] \in {"tail"}
    BY <2>1, <2>3, Zenon
  <2>5. (\A i \in scan.at + 1 .. last : At(i) = "tail")
          <=> \A i \in Done + 2 .. Done + o : Behind[i] = "tail"
    BY <2>4
  <2>6. x = IF \A i \in Done + 2 .. Done + o : Behind[i] = "tail" THEN "wide" ELSE "odd"
    BY <2>5
  <2> HIDE DEF x
  <2>7. o = Octets[Behind[Done + 1]] /\ Behind[Done + 1] \in DOMAIN Octets
    BY <1>1, <1>3 DEF o
  <2>8. Reading(Behind, ending, Done + o, Append(Content(scan.ds), x))
    BY <1>1, <1>3, <2>1, <2>6, <2>7, SequenceGrows
  <2>9. Reading(Behind, ending, (last + 1) - pos - 1, Append(Content(scan.ds), x))
    BY <2>1, <2>8
  <2> QED
    BY <1>1, <1>5, <2>1, <2>2, <2>9, AppendsWideKeeps
<1> QED
  BY <1>6, <1>7

\* SequenceFails refuses one in a string.
LEMMA SequenceFailsKeeps == ASSUME ScanInv, pc # "print", SequenceFails PROVE ScanInv'
<1>1. /\ InString /\ Char \in DOMAIN Octets /\ ending = "NUL" /\ ScanFails(scan.at + 1, {})
  BY DEF SequenceFails
<1>2. Char \notin EndMarks
  BY <1>1 DEF Octets, EndMarks
<1>3. /\ Char = Behind[Done + 1] /\ Done + 1 \in 1 .. Len(Behind)
      /\ scan.at + 1 \in pos + 1 .. Len(text) + 1
  BY <1>1, <1>2, CharIs
<1>4. /\ Behind[Done + 1] = scan.source[(Done + 1) + 1] /\ Len(scan.source) = Len(Behind) + 1
      /\ scan.source \in Seq(Symbols) /\ Len(Behind) \in Nat /\ Done \in Nat
  BY <1>1, <1>3, InLiteral, CharIs
<1>5. (Done + 1) + 1 \in DOMAIN scan.source
  <2>1. (Done + 1) + 1 \in 1 .. Len(Behind) + 1
    BY <1>3, <1>4
  <2> QED
    BY <1>4, <2>1
<1>6. \E i \in DOMAIN scan.source : scan.source[i] \in DOMAIN Octets
  BY <1>1, <1>3, <1>4, <1>5
<1> QED
  BY <1>1, <1>3, <1>6, LiteralFails

\* An assertion fails on what is no JSON.
LEMMA ReadStrayKeeps == ASSUME ScanInv, pc # "print", ReadStray PROVE ScanInv'
<1>1. /\ InString /\ Char \in Stray
      /\ \/ scan' = [scan EXCEPT !.call = "dead"] /\ UNCHANGED vars
         \/ ScanFails(scan.at, {})
  BY DEF ReadStray
<1>2. Char \notin EndMarks /\ Char \in Special /\ Char # "quote" /\ Char # "bslash"
      /\ Char \notin {"lead2", "lead3"}
  BY <1>1 DEF Stray, EndMarks, Special
<1>3. /\ Body(Behind) /\ Reading(Behind, ending, Done, Content(scan.ds)) /\ ending \in EndMarks
      /\ Char = Behind[Done + 1] /\ scan.at \in pos + 1 .. Len(text) + 1
      /\ Done \in Nat /\ Len(Behind) \in Nat
  BY <1>1, <1>2, CharIs
<1>4. ASSUME NEW k \in Done + 1 .. Len(Behind)
      PROVE  /\ ~IsPlain(Behind, Done, k) /\ ~IsEscape(Behind, Done, k)
             /\ ~IsCode(Behind, Done, k) /\ ~IsSequence(Behind, Done, k)
  BY <1>2, <1>3 DEF IsPlain, IsEscape, IsCode, IsSequence
<1>5. \A i \in 0 .. Len(Behind) - 1 : ~Closes(Behind, i)
  BY <1>2, <1>3, <1>4, NoUnitHere
<1>6. CASE ScanFails(scan.at, {})
  BY <1>1, <1>3, <1>5, <1>6, LiteralFails
<1>7. CASE scan' = [scan EXCEPT !.call = "dead"] /\ UNCHANGED vars
  <2>1. IsCall(scan)
    BY DEF ScanInv
  <2>2. scan' = [call |-> "dead", at |-> scan.at, ds |-> scan.ds, source |-> scan.source]
    BY <1>7, <2>1, OneChange
  <2>3. IsCall(scan') /\ scan'.call = "dead" /\ scan'.source = scan.source
    BY <2>2, CallIs
  <2>4. scan.source \in Seq(Symbols) /\ scan.source # <<>> /\ scan.source[1] = "quote"
    BY <1>1, InLiteral
  <2>5. Literals(scan.source, "json") = {}
    BY <1>5, <2>4, LiteralsAre DEF Behind
  <2>6. LeavesReadWhole'
    BY <2>3, <2>4, <2>5 DEF LeavesReadWhole, ready, dead
  <2> QED
    BY <1>7, <2>3, <2>6 DEF ScanInv, Where, TextType, InString, InNumber, vars, IsCall
<1> QED
  BY <1>1, <1>6, <1>7

\* What a string is folded into is one of the parser's strings.
LEMMA SymbolIs == \A c : SymbolOf(c) \in Strings
<1> SUFFICES ASSUME NEW c PROVE SymbolOf(c) \in Strings
  OBVIOUS
<1>1. CASE \E s \in DOMAIN Contents : Contents[s] = c
  BY <1>1, ContentsAssumption DEF SymbolOf
<1>2. CASE ~\E s \in DOMAIN Contents : Contents[s] = c
  BY <1>2, ContentsAssumption DEF SymbolOf
<1> QED
  BY <1>1, <1>2

\* CloseString: what the literal means has been read.
LEMMA CloseStringKeeps == ASSUME ScanInv, pc # "print", CloseString PROVE ScanInv'
<1> DEFINE closed == dsAppend(scan.ds, "NUL")
           read == CString(closed)
           symbol == SymbolOf(read)
           n == scan.at + 1
<1>1. /\ InString /\ Char = "quote"
      /\ \/ ScanEnds(symbol, closed, n) /\ UNCHANGED failed
         \/ ScanFails(scan.at, {"string memory"})
  BY DEF CloseString
<1>2. /\ Body(Behind) /\ Reading(Behind, ending, Done, Content(scan.ds)) /\ ending \in EndMarks
      /\ Behind[Done + 1] = "quote" /\ scan.at \in pos + 1 .. Len(text) + 1
      /\ n \in pos + 1 .. Len(text) + 1 /\ n - pos = Done + 2
      /\ Done \in 0 .. Len(Behind) - 1 /\ Done < Len(Behind)
  <2>1. Char \notin EndMarks
    BY <1>1 DEF EndMarks
  <2>2. /\ Body(Behind) /\ Reading(Behind, ending, Done, Content(scan.ds)) /\ ending \in EndMarks
        /\ Behind[Done + 1] = "quote" /\ scan.at \in pos + 1 .. Len(text) + 1
        /\ n \in pos + 1 .. Len(text) + 1
        /\ Done < Len(Behind) /\ Done \in Nat /\ Len(Behind) \in Nat /\ scan.at = pos + 1 + Done
    BY <1>1, <2>1, CharIs
  <2>5. InString
    BY <1>1
  <2>3. pos \in 1 .. Len(text)
    BY <2>5, InLiteral
  <2>4. n - pos = Done + 2 /\ Done \in 0 .. Len(Behind) - 1
    BY <2>2, <2>3
  <2> QED
    BY <2>2, <2>4
<1>3. CASE ScanFails(scan.at, {"string memory"})
  <2>1. {"string memory"} # {}
    OBVIOUS
  <2> QED
    BY <1>1, <1>2, <1>3, <2>1, LiteralFails
<1>4. CASE ScanEnds(symbol, closed, n) /\ UNCHANGED failed
  <2>1. /\ TextType /\ Len(text) \in Nat /\ pos \in 1 .. Len(text)
        /\ scan.source \in Seq(Symbols) /\ scan.source # <<>> /\ scan.source[1] = "quote"
        /\ IsString(scan.ds)
    BY <1>1, InLiteral
  <2>2. read = UpToZero(Content(scan.ds))
    <3>1. /\ IsString(closed) /\ closed.buffer # <<>>
          /\ Content(closed) = Append(Content(scan.ds), "NUL")
      BY <2>1, dsAppendIs DEF Cells
    <3> HIDE DEF closed
    <3>2. read = UpToZero(Content(closed))
      BY <3>1, CStringIs
    <3>3. Content(scan.ds) \in Seq(Cells)
      BY <2>1, ContentIs
    <3> QED
      BY <3>1, <3>2, <3>3, UpToZeroAppend
  <2>3. symbol \in Strings /\ symbol \in Symbols /\ symbol # "broken"
    <3>1. symbol \in Strings
      BY SymbolIs
    <3> HIDE DEF symbol
    <3> QED
      BY <3>1, StringsAssumption DEF Symbols
  <2> HIDE DEF symbol, closed, read
  <2>4. EndsWith(scan, "ready", n, closed)
          = [call |-> "ready", at |-> n, ds |-> closed, source |-> scan.source]
    BY EndsCall DEF ScanInv
  <2>5. /\ text' = SubSeq(text, 1, pos - 1) \o <<symbol>> \o SubSeq(text, n, Len(text))
        /\ ending' = ending /\ pos' = pos /\ pc' = pc /\ failed' = failed
        /\ scan' = EndsWith(scan, "ready", n, closed)
    BY <1>4 DEF ScanEnds, EndsWith
  <2>6. /\ IsCall(scan') /\ scan'.call = "ready" /\ scan'.at = n /\ scan'.ds = closed
        /\ scan'.source = scan.source
    BY <2>4, <2>5, CallIs
  <2>7. text' \in Seq(Symbols) /\ pos \in 1 .. Len(text') /\ text'[pos] = symbol
    <3>1. n \in pos .. Len(text) + 1
      BY <1>2, <2>1
    <3>2. TextType /\ pos \in 1 .. Len(text) /\ symbol \in Symbols
      BY <2>1, <2>3
    <3> HIDE DEF n
    <3>3. /\ Folded(symbol, n) \in Seq(Symbols)
          /\ pos \in 1 .. Len(Folded(symbol, n)) /\ Folded(symbol, n)[pos] = symbol
      BY <3>1, <3>2, FoldedIs
    <3>4. text' = Folded(symbol, n)
      BY <2>5, Zenon DEF Folded
    <3> QED
      BY <3>3, <3>4, Zenon
  <2>8. Where'
    <3>1. Len(text') \in Nat /\ pos' \in 1 .. Len(text') + 1
      BY <2>5, <2>7
    <3> QED
      BY <1>2, <2>5, <2>7, <3>1 DEF Where, TextType
  <2>9. <<Done + 2, read>> \in Literals(scan.source, ending)
    <3>1. Content(scan.ds) \in Decodings(Behind, ending)[Done]
      BY <1>2, Zenon DEF Reading
    <3> DEFINE c == Content(scan.ds)
    <3>2. c \in Decodings(Behind, ending)[Done]
            => <<Done + 2, UpToZero(c)>> \in Literals(scan.source, ending)
      <4> HIDE DEF c
      <4> QED
        BY <1>2, <2>1, LiteralsAre DEF Behind
    <3> QED
      BY <2>2, <3>1, <3>2
  <2>10. ASSUME Literals(scan.source, "json") # {}
         PROVE  <<Done + 2, read>> \in Literals(scan.source, "json")
    <3>1. PICK i \in 0 .. Len(Behind) - 1 : Closes(Behind, i)
      BY <2>1, <2>10, LiteralsAre DEF Behind
    <3>2. Content(scan.ds) \in Decodings(Behind, "json")[Done]
      BY <1>2, <3>1, Zenon DEF Reading
    <3> QED
      BY <1>2, <2>1, <2>2, <3>2, LiteralsAre DEF Behind
  <2>11. CString(scan'.ds) = read /\ scan'.at - pos' = Done + 2
    BY <1>2, <2>5, <2>6 DEF read
  <2>12. LeavesReadWhole'
    BY <2>1, <2>3, <2>5, <2>6, <2>7, <2>9, <2>10, <2>11 DEF LeavesReadWhole, ready, dead
  <2> QED
    BY <2>5, <2>6, <2>8, <2>12 DEF ScanInv, InString, InNumber, IsCall
<1> QED
  BY <1>1, <1>3, <1>4

-----------------------------------------------------------------------------
(***************************************************************************)
(* Numbers                                                                 *)
(***************************************************************************)
LEMMA InNumberIs ==
    ASSUME ScanInv, InNumber
    PROVE  /\ TextType /\ Len(text) \in Nat /\ pos \in 1 .. Len(text) /\ text[pos] = "num"
           /\ scan.source = SubSeq(text, pos, Len(text))
           /\ scan.source \in Seq(Symbols) /\ scan.source[1] = "num"
           /\ Len(scan.source) = Len(text) - pos + 1
           /\ \A i \in 1 .. Len(scan.source) : scan.source[i] = text[pos + i - 1]
           /\ Taken \in Nat /\ Taken <= Len(scan.source) /\ scan.at = pos + Taken
           /\ IsString(scan.ds)
           /\ "number memory" \notin failed => AreDigits(scan.source, Taken, scan.ds)
<1>1. /\ TextType /\ Len(text) \in Nat /\ pos \in 1 .. Len(text) /\ text[pos] = "num"
      /\ scan.source = SubSeq(text, pos, Len(text))
      /\ scan.at \in pos .. Len(text) + 1
      /\ IsString(scan.ds)
      /\ "number memory" \notin failed => AreDigits(scan.source, Taken, scan.ds)
  <2>1. DigitsRead /\ TextType
    BY DEF ScanInv, Where
  <2>2. Scanning("num") /\ ("number memory" \notin failed => AreDigits(scan.source, Taken, scan.ds))
    BY <2>1, Zenon DEF DigitsRead
  <2>3. Len(text) \in Nat
    BY <2>1 DEF TextType
  <2> QED
    BY <2>1, <2>2, <2>3, Zenon DEF Scanning
<1>2. /\ scan.source \in Seq(Symbols) /\ Len(scan.source) = Len(text) - pos + 1
      /\ \A i \in 1 .. Len(scan.source) : scan.source[i] = text[pos + i - 1]
  <2>1. TextType /\ pos \in 1 .. Len(text) /\ scan.source = SubSeq(text, pos, Len(text))
    BY <1>1
  <2> DEFINE s == SubSeq(text, pos, Len(text))
  <2>2. /\ s \in Seq(Symbols) /\ Len(s) = Len(text) - pos + 1
        /\ \A i \in 1 .. Len(s) : s[i] = text[pos + i - 1]
    BY <2>1, SourceIs, Zenon
  <2> QED
    BY <2>1, <2>2, Zenon
<1>5. /\ Len(text) \in Nat /\ pos \in 1 .. Len(text) /\ scan.at \in pos .. Len(text) + 1
      /\ Len(scan.source) = Len(text) - pos + 1
  BY <1>1, <1>2
<1>3. scan.source[1] = "num"
  <2>1. 1 \in 1 .. Len(scan.source) /\ pos + 1 - 1 = pos
    BY ONLY <1>5
  <2> QED
    BY <1>1, <1>2, <2>1
<1>4. Taken \in Nat /\ Taken <= Len(scan.source) /\ scan.at = pos + Taken
  BY ONLY <1>5 DEF Taken
<1> QED
  BY <1>1, <1>2, <1>3, <1>4, Zenon

\* A beginning that is longer by one.
LEMMA OneLonger ==
    ASSUME NEW s \in Seq(Symbols), NEW k \in Nat, k < Len(s)
    PROVE  SubSeq(s, 1, k + 1) = Append(SubSeq(s, 1, k), s[k + 1])
<1> DEFINE x == SubSeq(s, 1, k + 1)
           z == SubSeq(s, 1, k)
           y == Append(z, s[k + 1])
<1>1. x \in Seq(Symbols) /\ Len(x) = k + 1 /\ \A i \in 1 .. k + 1 : x[i] = s[i]
  OBVIOUS
<1>2. z \in Seq(Symbols) /\ Len(z) = k /\ \A i \in 1 .. k : z[i] = s[i]
  OBVIOUS
<1>3. s[k + 1] \in Symbols
  OBVIOUS
<1>7. z \in Seq(Symbols) /\ Len(z) = k
  BY <1>2
<1> HIDE DEF z
<1>4. y \in Seq(Symbols) /\ Len(y) = k + 1 /\ y[k + 1] = s[k + 1] /\ \A i \in 1 .. k : y[i] = z[i]
  BY <1>3, <1>7
<1> HIDE DEF x, y
<1>5. \A i \in 1 .. k + 1 : x[i] = y[i]
  <2> SUFFICES ASSUME NEW i \in 1 .. k + 1 PROVE x[i] = y[i]
    OBVIOUS
  <2>1. CASE i = k + 1
    BY <1>1, <1>4, <2>1
  <2>2. CASE i # k + 1
    <3>1. i \in 1 .. k
      BY <2>2
    <3> QED
      BY <1>1, <1>2, <1>4, <3>1
  <2> QED
    BY <2>1, <2>2
<1>6. x = y
  BY <1>1, <1>4, <1>5, SeqEqual
<1> QED
  BY <1>6 DEF x, y, z

\* What a digit leads to.
LEMMA NumberGoesOn ==
    ASSUME ScanInv, InNumber, pc # "print", NEW d, IsString(d), Taken < Len(scan.source),
           scan' = [call |-> scan.call, at |-> scan.at + 1, ds |-> d, source |-> scan.source],
           text' = text, ending' = ending, pos' = pos, pc' = pc,
           "number memory" \notin failed' => AreDigits(scan.source, Taken + 1, d)
    PROVE  ScanInv'
<1>1. /\ IsCall(scan') /\ scan'.call = "number" /\ scan'.at = scan.at + 1 /\ scan'.ds = d
      /\ scan'.source = scan.source
  <2>1. scan.call = "number"
    BY DEF InNumber
  <2>2. scan' = [call |-> "number", at |-> scan.at + 1, ds |-> d, source |-> scan.source]
    BY <2>1
  <2> QED
    BY ONLY <2>2, CallIs
<1>2. Where'
  BY DEF ScanInv, Where, TextType
<1>3. /\ Len(text) \in Nat /\ pos \in 1 .. Len(text) /\ text[pos] = "num"
      /\ scan.source = SubSeq(text, pos, Len(text)) /\ Len(scan.source) = Len(text) - pos + 1
      /\ Taken \in Nat /\ scan.at = pos + Taken
  BY InNumberIs
<1>4. scan.at + 1 \in pos .. Len(text) + 1 /\ (scan.at + 1) - pos = Taken + 1
  <2>1. /\ Len(text) \in Nat /\ pos \in 1 .. Len(text) /\ Taken \in Nat /\ scan.at = pos + Taken
        /\ Taken < Len(text) - pos + 1
    BY <1>3
  <2> QED
    BY ONLY <2>1
<1>6. Taken' = Taken + 1
  BY <1>1, <1>4 DEF Taken
<1>5. DigitsRead'
  BY <1>1, <1>3, <1>4, <1>6 DEF DigitsRead, Scanning
<1> QED
  BY <1>1, <1>2, <1>5 DEF ScanInv, InString, InNumber, LeavesReadWhole, ready, dead, IsCall

\* The next character of a number, or behind it.
LEMMA DigitIs ==
    ASSUME ScanInv, InNumber
    PROVE  /\ Char = "num" => Taken < Len(scan.source) /\ scan.source[Taken + 1] = "num"
           /\ Taken = 0 => Char = "num"
<1>1. /\ TextType /\ Len(text) \in Nat /\ pos \in 1 .. Len(text) /\ text[pos] = "num"
      /\ Len(scan.source) = Len(text) - pos + 1
      /\ \A i \in 1 .. Len(scan.source) : scan.source[i] = text[pos + i - 1]
      /\ Taken \in Nat /\ Taken <= Len(scan.source) /\ scan.at = pos + Taken
  BY InNumberIs
<1>2. ASSUME Char = "num"
      PROVE  Taken < Len(scan.source) /\ scan.source[Taken + 1] = "num"
  <2>1. scan.at \in 1 .. Len(text) + 1
    BY <1>1
  <2>2. Where /\ Char \notin EndMarks
    BY <1>2 DEF ScanInv, EndMarks
  <2>3. scan.at \in 1 .. Len(text) /\ Char = text[scan.at]
    BY <2>1, <2>2, ReadOn DEF Char
  <2>4. /\ Taken < Len(scan.source) /\ Taken + 1 \in 1 .. Len(scan.source)
        /\ pos + (Taken + 1) - 1 = scan.at
    BY <1>1, <2>3
  <2> QED
    BY <1>1, <1>2, <2>3, <2>4
<1>3. ASSUME Taken = 0 PROVE Char = "num"
  <2>1. scan.at = pos
    BY <1>1, <1>3
  <2> QED
    BY <1>1, <2>1 DEF Char, At
<1> QED
  BY <1>2, <1>3

\* ReadDigit appends a digit, or has no memory to,
LEMMA ReadDigitKeeps == ASSUME ScanInv, pc # "print", ReadDigit PROVE ScanInv'
<1>1. /\ Char = "num"
      /\ \/ Goes(dsAppend(scan.ds, Char), scan.at + 1)
         \/ /\ scan' = [scan EXCEPT !.at = scan.at + 1]
            /\ failed' = failed \union {"number memory"}
            /\ UNCHANGED <<input, pos, pc>>
  BY DEF ReadDigit
<1>2. IsCall(scan) /\ InNumber
  BY DEF ScanInv, ReadDigit
<1>3. Taken < Len(scan.source) /\ scan.source[Taken + 1] = "num"
  BY <1>1, <1>2, DigitIs
<1>4. /\ scan.source \in Seq(Symbols) /\ IsString(scan.ds) /\ Taken \in Nat
      /\ "number memory" \notin failed => AreDigits(scan.source, Taken, scan.ds)
  BY <1>2, InNumberIs
<1>5. CASE Goes(dsAppend(scan.ds, Char), scan.at + 1)
  <2> DEFINE d == dsAppend(scan.ds, Char)
  <2>1. /\ IsString(d) /\ Content(d) = Append(Content(scan.ds), "num")
    BY <1>1, <1>4, dsAppendIs DEF Cells
  <2> HIDE DEF d
  <2>2. [scan EXCEPT !.ds = d, !.at = scan.at + 1]
          = [call |-> scan.call, at |-> scan.at + 1, ds |-> d, source |-> scan.source]
    BY <1>2, GoesCall
  <2>3. /\ scan' = [call |-> scan.call, at |-> scan.at + 1, ds |-> d, source |-> scan.source]
        /\ text' = text /\ ending' = ending /\ pos' = pos /\ pc' = pc /\ failed' = failed
    BY <1>5, <2>2 DEF Goes, vars, d
  <2>4. SubSeq(scan.source, 1, Taken + 1) = Append(SubSeq(scan.source, 1, Taken), "num")
    BY <1>3, <1>4, OneLonger
  <2>5. ASSUME "number memory" \notin failed PROVE AreDigits(scan.source, Taken + 1, d)
    <3>1. /\ Content(scan.ds) = SubSeq(scan.source, 1, Taken)
          /\ \A i \in 1 .. Taken : scan.source[i] = "num"
      BY <1>4, <2>5 DEF AreDigits
    <3>2. Taken \in Nat /\ scan.source[Taken + 1] = "num"
      BY <1>3, <1>4
    <3>3. ASSUME NEW i \in 1 .. Taken + 1 PROVE scan.source[i] = "num"
      <4>1. i \in 1 .. Taken \/ i = Taken + 1
        BY ONLY <3>2, <3>3
      <4> QED
        BY <3>1, <3>2, <4>1
    <3> QED
      BY <2>1, <2>4, <3>1, <3>3 DEF AreDigits
  <2>6. "number memory" \notin failed' => AreDigits(scan.source, Taken + 1, d)
    BY <2>3, <2>5
  <2> QED
    BY <1>2, <1>3, <2>1, <2>3, <2>6, NumberGoesOn
<1>6. CASE /\ scan' = [scan EXCEPT !.at = scan.at + 1]
           /\ failed' = failed \union {"number memory"}
           /\ UNCHANGED <<input, pos, pc>>
  <2>1. [scan EXCEPT !.at = scan.at + 1]
          = [call |-> scan.call, at |-> scan.at + 1, ds |-> scan.ds, source |-> scan.source]
    BY <1>2, OneChange
  <2>2. /\ scan' = [call |-> scan.call, at |-> scan.at + 1, ds |-> scan.ds, source |-> scan.source]
        /\ text' = text /\ ending' = ending /\ pos' = pos /\ pc' = pc
        /\ ~("number memory" \notin failed')
    BY <1>6, <2>1 DEF input
  <2> QED
    BY <1>2, <1>3, <1>4, <2>2, NumberGoesOn
<1> QED
  BY <1>1, <1>5, <1>6

\* The characters of a number are all its string holds.
LEMMA DigitsAre ==
    ASSUME NEW s \in Seq(Symbols), NEW k \in Nat, k <= Len(s), NEW d, IsString(d),
           AreDigits(s, k, d)
    PROVE  /\ d.len = k
           /\ d.buffer # <<>> => CString(d) = SubSeq(s, 1, k)
<1>1. /\ Content(d) = SubSeq(s, 1, k)
      /\ \A i \in 1 .. k : s[i] = "num"
  BY DEF AreDigits
<1>2. Content(d) \in Seq(Cells) /\ Len(Content(d)) = d.len
  BY ContentIs
<1>3. Len(SubSeq(s, 1, k)) = k /\ \A i \in 1 .. k : SubSeq(s, 1, k)[i] = s[i]
  OBVIOUS
<1>4. \A i \in 1 .. Len(Content(d)) : Content(d)[i] # "NUL"
  BY <1>1, <1>3
<1>5. UpToZero(Content(d)) = Content(d)
  BY <1>2, <1>4, UpToZeroAll
<1>6. d.buffer # <<>> => CString(d) = UpToZero(Content(d))
  BY CStringIs
<1> QED
  BY <1>1, <1>2, <1>3, <1>5, <1>6

\* NumberEnds: all digits have been read.
LEMMA NumberEndsKeeps == ASSUME ScanInv, pc # "print", NumberEnds PROVE ScanInv'
<1>1. /\ InNumber /\ Char # "num"
      /\ \/ scan.ds = NoBuffer /\ scan' = [scan EXCEPT !.call = "dead"] /\ UNCHANGED vars
         \/ scan.ds # NoBuffer /\ ScanEnds("num", scan.ds, scan.at) /\ UNCHANGED failed
  BY DEF NumberEnds
<1>2. /\ TextType /\ Len(text) \in Nat /\ pos \in 1 .. Len(text) /\ text[pos] = "num"
      /\ scan.source = SubSeq(text, pos, Len(text))
      /\ scan.source \in Seq(Symbols) /\ scan.source[1] = "num"
      /\ Len(scan.source) = Len(text) - pos + 1
      /\ Taken \in Nat /\ Taken <= Len(scan.source) /\ scan.at = pos + Taken
      /\ IsString(scan.ds)
      /\ "number memory" \notin failed => AreDigits(scan.source, Taken, scan.ds)
  BY <1>1, InNumberIs
<1>3. IsCall(scan) /\ Taken # 0 /\ ending \in EndMarks
  <2>1. Taken # 0
    BY <1>1, DigitIs
  <2>2. ending \in EndMarks
    BY <1>2 DEF TextType
  <2> QED
    BY <2>1, <2>2 DEF ScanInv
<1>4. "number memory" \notin failed => scan.ds.len = Taken
  <2> SUFFICES ASSUME "number memory" \notin failed PROVE scan.ds.len = Taken
    OBVIOUS
  <2>1. /\ scan.source \in Seq(Symbols) /\ Taken \in Nat /\ Taken <= Len(scan.source)
        /\ IsString(scan.ds) /\ AreDigits(scan.source, Taken, scan.ds)
    BY <1>2
  <2> QED
    BY ONLY <2>1, DigitsAre
<1>5. CASE scan.ds = NoBuffer /\ scan' = [scan EXCEPT !.call = "dead"] /\ UNCHANGED vars
  <2>1. "number memory" \in failed
    <3>1. NoBuffer.len = 0
      BY DEF NoBuffer
    <3>2. scan.ds = NoBuffer
      BY <1>5
    <3>3. scan.ds.len = 0
      BY ONLY <3>1, <3>2
    <3> QED
      BY ONLY <1>3, <1>4, <3>3
  <2>2. scan' = [call |-> "dead", at |-> scan.at, ds |-> scan.ds, source |-> scan.source]
    BY <1>3, <1>5, OneChange
  <2>3. IsCall(scan') /\ scan'.call = "dead" /\ scan'.source = scan.source
    BY <2>2, CallIs
  <2>4. text' = text /\ ending' = ending /\ pos' = pos /\ pc' = pc /\ failed' = failed
    BY <1>5 DEF vars
  <2>5. LeavesReadWhole'
    <3>1. scan'.source[1] # "quote"
      BY <1>2, <2>3
    <3> QED
      BY <2>1, <2>3, <2>4, <3>1 DEF LeavesReadWhole, ready, dead
  <2>6. Where'
    BY <2>4 DEF ScanInv, Where, TextType
  <2> QED
    BY <2>3, <2>4, <2>5, <2>6 DEF ScanInv, InString, InNumber, IsCall
<1>6. CASE scan.ds # NoBuffer /\ ScanEnds("num", scan.ds, scan.at) /\ UNCHANGED failed
  <2>1. EndsWith(scan, "ready", scan.at, scan.ds)
          = [call |-> "ready", at |-> scan.at, ds |-> scan.ds, source |-> scan.source]
    BY <1>3, EndsCall
  <2>2. /\ text' = SubSeq(text, 1, pos - 1) \o <<"num">> \o SubSeq(text, scan.at, Len(text))
        /\ ending' = ending /\ pos' = pos /\ pc' = pc /\ failed' = failed
        /\ scan' = EndsWith(scan, "ready", scan.at, scan.ds)
    BY <1>6 DEF ScanEnds, EndsWith
  <2>3. /\ IsCall(scan') /\ scan'.call = "ready" /\ scan'.at = scan.at /\ scan'.ds = scan.ds
        /\ scan'.source = scan.source
    BY <2>1, <2>2, CallIs
  <2>4. text' \in Seq(Symbols) /\ pos \in 1 .. Len(text') /\ text'[pos] = "num"
    <3>1. /\ Len(text) \in Nat /\ pos \in 1 .. Len(text) /\ Taken \in Nat
          /\ Taken <= Len(text) - pos + 1 /\ scan.at = pos + Taken
      BY <1>2
    <3>2. scan.at \in pos .. Len(text) + 1
      BY ONLY <3>1
    <3>3. TextType /\ pos \in 1 .. Len(text) /\ "num" \in Symbols
      BY <1>2 DEF Symbols, EndMarks
    <3>4. /\ Folded("num", scan.at) \in Seq(Symbols)
          /\ pos \in 1 .. Len(Folded("num", scan.at)) /\ Folded("num", scan.at)[pos] = "num"
      BY <3>2, <3>3, FoldedIs
    <3>5. text' = Folded("num", scan.at)
      BY <2>2, Zenon DEF Folded
    <3> QED
      BY <3>4, <3>5, Zenon
  <2>5. Where'
    <3>1. Len(text') \in Nat /\ pos' \in 1 .. Len(text') + 1
      BY <2>2, <2>4
    <3> QED
      BY <1>3, <2>2, <2>4, <3>1 DEF Where, TextType
  <2>6. ASSUME "number memory" \notin failed
        PROVE  CString(scan.ds) = SubSeq(scan.source, 1, Taken)
    <3>1. scan.ds.buffer # <<>>
      <4>1. IsString(scan.ds)
        BY <1>2
      <4>2. scan.ds.buffer = <<>> => scan.ds.len = 0
        BY ONLY <4>1 DEF IsString
      <4> QED
        BY ONLY <1>3, <1>4, <2>6, <4>2
    <3> QED
      BY <1>2, <2>6, <3>1, DigitsAre
  <2>7. scan'.at - pos' = Taken /\ CString(scan'.ds) = CString(scan.ds)
    BY <2>2, <2>3 DEF Taken
  <2>8. LeavesReadWhole'
    <3>1. scan'.source[1] = "num"
      BY <1>2, <2>3
    <3> QED
      BY <2>2, <2>3, <2>6, <2>7, <3>1 DEF LeavesReadWhole, ready, dead
  <2> QED
    BY <2>2, <2>3, <2>5, <2>8 DEF ScanInv, InString, InNumber, IsCall
<1> QED
  BY <1>1, <1>5, <1>6

-----------------------------------------------------------------------------
(***************************************************************************)
(* The whole program.                                                      *)
(***************************************************************************)
LEMMA ScanBeginKeeps ==
    ASSUME ScanInv, pc # "print", Peek \in {"quote", "num"}, ScanBegin
    PROVE  ScanInv'
<1> DEFINE first == Peek
           source == SubSeq(text, pos, Len(text))
           at == IF first = "quote" THEN pos + 1 ELSE pos
           call == IF first = "quote" THEN "string" ELSE "number"
<1>1. /\ scan' = [call |-> call, at |-> at, ds |-> NoBuffer, source |-> source]
      /\ text' = text /\ ending' = ending /\ pos' = pos /\ pc' = pc /\ failed' = failed
  BY DEF ScanBegin, vars
<1>2. Where /\ TextType /\ Len(text) \in Nat /\ ending \in EndMarks
  BY DEF ScanInv, Where, TextType
<1>3. pos \in 1 .. Len(text) /\ pos + 1 \in 1 .. Len(text) + 1 /\ text[pos] = first
  <2>1. Peek \notin EndMarks
    BY DEF EndMarks
  <2> QED
    BY <1>2, <2>1, ReadOn DEF Peek, Where
<1>4. first \in {"quote", "num"}
  OBVIOUS
<1>5. /\ Body(Tail(source)) /\ source \in Seq(Symbols)
  BY <1>2, <1>3, SourceIs
<1>6. IsString(NoBuffer) /\ Content(NoBuffer) = <<>>
  BY NoBufferIs
<1> HIDE DEF first, source
<1>7. /\ IsCall(scan') /\ scan'.call = call /\ scan'.at = at /\ scan'.ds = NoBuffer
      /\ scan'.source = source
  BY ONLY <1>1, CallIs
<1>8. Where'
  BY <1>1, <1>2 DEF Where, TextType
<1>9. CASE first = "quote"
  <2>1. call = "string" /\ at = pos + 1
    BY <1>9
  <2> HIDE DEF at, call
  <2>2. at \in pos .. Len(text) + 1 /\ at > pos /\ at - pos - 1 = 0
    <3>1. Len(text) \in Nat /\ pos \in 1 .. Len(text) /\ at = pos + 1
      BY <1>2, <1>3, <2>1
    <3> QED
      BY ONLY <3>1
  <2>3. Done' = 0 /\ Behind' = Tail(source) /\ scan'.at > pos'
    BY <1>1, <1>7, <2>2 DEF Done, Behind
  <2>4. Scanning("quote")'
    BY <1>1, <1>3, <1>6, <1>7, <1>9, <2>2 DEF Scanning, source
  <2>5. Reading(Tail(source), ending, 0, <<>>)
    BY <1>2, <1>5, ReadingBegins
  <2>6. Reading(Behind, ending, Done, Content(scan.ds))'
    BY <1>1, <1>6, <1>7, <2>3, <2>5
  <2>7. LiteralRead'
    BY <2>3, <2>4, <2>6 DEF LiteralRead
  <2> QED
    BY <1>1, <1>7, <1>8, <2>1, <2>7
       DEF ScanInv, InString, InNumber, LeavesReadWhole, ready, dead, IsCall
<1>10. CASE first = "num"
  <2>1. call = "number" /\ at = pos
    BY <1>10
  <2> HIDE DEF at, call
  <2>2. at \in pos .. Len(text) + 1 /\ at - pos = 0
    <3>1. Len(text) \in Nat /\ pos \in 1 .. Len(text) /\ at = pos
      BY <1>2, <1>3, <2>1
    <3> QED
      BY ONLY <3>1
  <2>3. Taken' = 0
    BY <1>1, <1>7, <2>2 DEF Taken
  <2>4. Scanning("num")'
    BY <1>1, <1>3, <1>6, <1>7, <1>10, <2>2 DEF Scanning, source
  <2>5. AreDigits(source, 0, NoBuffer)
    <3>1. SubSeq(source, 1, 0) = <<>>
      BY <1>5
    <3> QED
      BY <1>6, <3>1 DEF AreDigits
  <2>6. DigitsRead'
    BY <1>7, <2>3, <2>4, <2>5 DEF DigitsRead
  <2> QED
    BY <1>1, <1>7, <1>8, <2>1, <2>6
       DEF ScanInv, InString, InNumber, LeavesReadWhole, ready, dead, IsCall
<1> QED
  BY <1>4, <1>9, <1>10

\* Every step of a scan keeps the invariant.
LEMMA ScanNextKeeps ==
    ASSUME ScanInv, pc # "print", Peek \in {"quote", "num"}, ScanNext
    PROVE  ScanInv'
<1>1. CASE ScanBegin
  BY <1>1, ScanBeginKeeps
<1>2. CASE ReadPlain
  BY <1>2, ReadPlainKeeps
<1>3. CASE CloseString
  BY <1>3, CloseStringKeeps
<1>4. CASE StringEnds
  BY <1>4, StringEndsKeeps
<1>5. CASE ReadEscape
  BY <1>5, ReadEscapeKeeps
<1>6. CASE SkipBackslash
  BY <1>6, SkipBackslashKeeps
<1>7. CASE EscapeEnds
  BY <1>7, EscapeEndsKeeps
<1>8. CASE ReadCode
  BY <1>8, ReadCodeKeeps
<1>9. CASE ReadSequence
  BY <1>9, ReadSequenceKeeps
<1>10. CASE SequenceFails
  BY <1>10, SequenceFailsKeeps
<1>11. CASE ReadStray
  BY <1>11, ReadStrayKeeps
<1>12. CASE ReadDigit
  BY <1>12, ReadDigitKeeps
<1>13. CASE NumberEnds
  BY <1>13, NumberEndsKeeps
<1> QED
  BY <1>1, <1>2, <1>3, <1>4, <1>5, <1>6, <1>7, <1>8, <1>9, <1>10, <1>11, <1>12, <1>13
     DEF ScanNext

\* What is printed is text for the parser.
WriteText ==
    /\ written \in Seq(Symbols)
    /\ todo \in Seq(Chunks)
    /\ \A i \in 1 .. Len(todo) : todo[i].text \in Seq(Symbols)

\* A printout holds no mark that ends a text ...
LEMMA WriteTextInit ==
    ASSUME NEW d \in Docs, todo = Printed[d], written = <<>>
    PROVE  WriteText
<1>1. STRING \ EndMarks \subseteq Symbols
  BY DEF Symbols
<1>2. todo \in Seq(Chunks)
  <2>1. Printed[d] \in Printouts
    BY DocsAssumption
  <2> QED
    BY <2>1, PrintoutsAssumption
<1>3. ASSUME NEW i \in 1 .. Len(todo) PROVE todo[i].text \in Seq(Symbols)
  <2>1. i \in DOMAIN Printed[d]
    BY <1>2
  <2>2. Printed[d][i].text \in Seq(STRING \ EndMarks)
    BY <2>1, DocsAssumption
  <2> DEFINE x == Printed[d][i].text
  <2>3. x \in Seq(STRING \ EndMarks)
    BY <2>2
  <2> HIDE DEF x
  <2>4. x \in Seq(Symbols)
    BY <1>1, <2>3
  <2> QED
    BY <2>4 DEF x
<1> QED
  BY <1>2, <1>3 DEF WriteText

\* ... nor does what has been written of it.
LEMMA WriteTextStep ==
    ASSUME WriteText, WriteNext
    PROVE  WriteText'
<1> DEFINE more == Head(todo).text
<1>1. todo # <<>> /\ todo' = Tail(todo) /\ (written' = written \/ written' = written \o more)
  <2>1. chunk = Head(todo)
    BY DEF chunk
  <2>2. todo # <<>> /\ todo' = Tail(todo) /\ (Written \/ NotWritten)
    BY Zenon DEF WriteNext, simple_write_string, simple_write_file
  <2>3. written' = written \/ written' = written \o chunk.text
    BY <2>2, Zenon DEF Written, NotWritten
  <2> QED
    BY <2>1, <2>2, <2>3, Zenon
<1>2. /\ todo \in Seq(Chunks) /\ written \in Seq(Symbols)
      /\ \A i \in 1 .. Len(todo) : todo[i].text \in Seq(Symbols)
  BY DEF WriteText
<1> DEFINE rest == Tail(todo)
<1>3. /\ rest \in Seq(Chunks) /\ Len(todo) \in Nat /\ 1 \in 1 .. Len(todo)
      /\ Len(rest) = Len(todo) - 1 /\ \A i \in 1 .. Len(rest) : rest[i] = todo[i + 1]
  BY <1>1, <1>2
<1> HIDE DEF rest
<1>4. ASSUME NEW i \in 1 .. Len(rest) PROVE rest[i].text \in Seq(Symbols)
  <2>1. i + 1 \in 1 .. Len(todo)
    BY <1>3
  <2> QED
    BY <1>2, <1>3, <2>1
<1>5. more \in Seq(Symbols)
  <2>1. Head(todo) = todo[1]
    BY <1>1, <1>2
  <2>2. todo[1].text \in Seq(Symbols)
    BY <1>2, <1>3
  <2> QED
    BY <2>1, <2>2, Zenon
<1>6. written' \in Seq(Symbols)
  <2>1. more \in Seq(Symbols) /\ (written' = written \/ written' = written \o more)
    BY <1>1, <1>5
  <2>2. written \in Seq(Symbols)
    BY <1>2
  <2> HIDE DEF more
  <2>3. written \o more \in Seq(Symbols)
    BY ONLY <2>1, <2>2
  <2> QED
    BY ONLY <2>1, <2>2, <2>3
<1>7. todo' = rest
  BY <1>1 DEF rest
<1> QED
  BY <1>3, <1>4, <1>6, <1>7 DEF WriteText

LiteralInv == ScanInv /\ (pc = "print" => WriteText)

\* No call scans at first.
LEMMA LiteralInit == ASSUME TextInit PROVE LiteralInv
<1>1. /\ IsCall(scan) /\ scan.call = "none" /\ pos = 1
  <2>1. scan = [call |-> "none", at |-> 0, ds |-> NoBuffer, source |-> <<>>]
    BY DEF TextInit, Idle
  <2>2. pos = 1
    BY DEF TextInit, Init
  <2> QED
    BY <2>1, <2>2, CallIs
<1>2. CASE Init
  <2>1. text \in Seq(STRING \ EndMarks) /\ STRING \ EndMarks \subseteq Symbols
    BY <1>2, TextsAssumption DEF Init, Symbols
  <2>2. text \in Seq(Symbols) /\ Len(text) \in Nat
    BY <2>1
  <2>3. ending \in EndMarks /\ pc # "print"
    BY <1>2, EndsAssumption DEF Init
  <2>4. 1 \in 1 .. Len(text) + 1
    BY <2>2
  <2> QED
    BY <1>1, <2>2, <2>3, <2>4
       DEF LiteralInv, ScanInv, Where, TextType, InString, InNumber, LeavesReadWhole, ready, dead
<1>3. CASE ~Init
  <2>1. /\ doc \in Docs /\ text = <<>> /\ ending = "NUL" /\ todo = Printed[doc] /\ written = <<>>
    BY <1>3 DEF TextInit, WriteInit
  <2>2. WriteText
    BY <2>1, WriteTextInit
  <2>3. Where
    <3>1. text \in Seq(Symbols) /\ 1 \in 1 .. Len(text) + 1 /\ ending \in EndMarks
      BY <2>1 DEF EndMarks
    <3> QED
      BY <1>1, <3>1 DEF Where, TextType
  <2> QED
    BY <1>1, <2>2, <2>3
       DEF LiteralInv, ScanInv, InString, InNumber, LeavesReadWhole, ready, dead
<1> QED
  BY <1>2, <1>3

\* ParseWritten makes a text of what has been written.
LEMMA ParseWrittenKeeps == ASSUME LiteralInv, ParseWritten PROVE LiteralInv'
<1>1. /\ pc = "print" /\ text' = written /\ ending' \in EndMarks /\ pc' # "print"
      /\ pos' = pos /\ failed' = failed /\ scan' = scan
  BY DEF ParseWritten, EndMarks
<1>2. /\ IsCall(scan) /\ scan.call = "none" /\ pos = 1 /\ written \in Seq(Symbols)
  BY <1>1 DEF LiteralInv, ScanInv, WriteText
<1>3. 1 \in 1 .. Len(written) + 1
  BY <1>2
<1>4. Where'
  BY <1>1, <1>2, <1>3 DEF Where, TextType
<1> QED
  BY <1>1, <1>2, <1>4
     DEF LiteralInv, ScanInv, InString, InNumber, LeavesReadWhole, ready, dead, IsCall

\* Every step of a client keeps the invariant.
LEMMA LiteralStep == ASSUME LiteralInv, [TextNext]_textVars PROVE LiteralInv'
<1>1. ScanInv
  BY DEF LiteralInv
<1>2. CASE PrintChunk
  <2>1. UNCHANGED <<text, ending, pos, pc, failed, scan>> /\ pc = "print" /\ WriteNext
    BY <1>2 DEF PrintChunk, parseVars, vars
  <2>2. ScanInv'
    BY <1>1, <2>1, SameScan
  <2>3. WriteText'
    BY <2>1, WriteTextStep DEF LiteralInv
  <2> QED
    BY <2>2, <2>3 DEF LiteralInv
<1>3. CASE ParseWritten
  BY <1>3, ParseWrittenKeeps
<1>4. CASE Parse /\ NeedsScan
  <2>1. ScanNext /\ pc = "value" /\ Peek \in {"quote", "num"}
    BY <1>4 DEF Parse, NeedsScan
  <2>2. ScanInv'
    BY <1>1, <2>1, ScanNextKeeps
  <2>3. pc' # "print"
    BY <2>1 DEF ScanNext, ScanBegin, ReadPlain, CloseString, StringEnds, ReadEscape, SkipBackslash,
           EscapeEnds, ReadCode, ReadSequence, SequenceFails, ReadStray, ReadDigit, NumberEnds,
           Appends, AppendsWide, Goes, ScanFails, ScanEnds, vars
  <2> QED
    BY <2>2, <2>3 DEF LiteralInv
<1>5. CASE Parse /\ ~NeedsScan
  <2>1. ParseNext /\ Next
    BY <1>5 DEF Parse, ParseNext
  <2>2. pc' # "print"
    BY <1>1, <2>1, WhereStep DEF ScanInv
  <2> QED
    BY <1>1, <2>1, <2>2, IdleKeeps DEF LiteralInv
<1>6. CASE Look \/ Find \/ UNCHANGED textVars
  <2>1. UNCHANGED <<text, ending, pos, pc, failed, scan, todo, written>>
    BY <1>6 DEF Look, Find, textVars, parseVars, vars, writeVars
  <2>2. ScanInv'
    BY <1>1, <2>1, SameScan
  <2> QED
    BY <2>1, <2>2 DEF LiteralInv, WriteText
<1> QED
  BY <1>2, <1>3, <1>4, <1>5, <1>6 DEF TextNext

\* On every text, written by the client or printed, and with every failure on
\* the way: the scanner reads a JSON string to its end and gives what it says,
\* and takes nothing else for one that is no literal in the looser sense; all
\* digits of a number reach strtod unless memory failed; and an assertion fails
\* only on what is no JSON string.
THEOREM LiteralTheorem == TextSpec => []LeavesReadWhole
<1>1. TextInit => LiteralInv
  BY LiteralInit
<1>2. LiteralInv /\ [TextNext]_textVars => LiteralInv'
  BY LiteralStep
<1>3. LiteralInv => LeavesReadWhole
  BY DEF LiteralInv, ScanInv
<1> QED
  BY <1>1, <1>2, <1>3, PTL DEF TextSpec

-----------------------------------------------------------------------------
(***************************************************************************)
(* The grammar.                                                            *)
(***************************************************************************)
\* The step of Grammar.
GrammarStep(s, n, f) ==
    [w \in Kinds \X (1 .. Len(s) + 1) |-> OfKind(w[1], s, w[2], w[2] + n - 1, f)]

ByGrammar == INSTANCE StepRecursion WITH Step <- LAMBDA s, n, f : GrammarStep(s, n, f)

\* What n symbols stand for depends on what fewer stand for.
LEMMA ValuesAtAgree ==
    ASSUME NEW s, NEW n \in Nat, NEW f, NEW g, \A k \in 0 .. n - 1 : f[k] = g[k],
           NEW i \in Nat, NEW j \in Int, j = i + n - 1
    PROVE  ValuesAt(s, i, j, f) = ValuesAt(s, i, j, g)
<1> DEFINE Between(h, kind, p) == Inner(h, kind, p[1] + 1, p[2] - 1)
           Arrays(h, p) == { Array(kids) : kids \in Between(h, "values", p) }
           Objects(h, p) == { ObjectOf(mems) : mems \in Between(h, "members", p) }
           E(l, r) == Enclosing(s, i, j, l, r)
<1>1. \A l, r : \A p \in E(l, r), kind \in Kinds : Between(f, kind, p) = Between(g, kind, p)
  <2>1. ASSUME NEW l, NEW r, NEW p \in E(l, r)
        PROVE  (p[2] - 1) - (p[1] + 1) + 1 \in 0 .. n - 1
    <3>1. p[1] \in i .. j /\ p[2] \in i .. j /\ p[1] < p[2]
      BY DEF Enclosing
    <3> QED
      BY ONLY <3>1, n \in Nat, i \in Nat, j \in Int, j = i + n - 1
  <2> QED
    BY <2>1 DEF Inner
<1>2. \A p \in E("[", "]") : Arrays(f, p) = Arrays(g, p)
  BY <1>1 DEF Kinds
<1>3. \A p \in E("{", "}") : Objects(f, p) = Objects(g, p)
  BY <1>1 DEF Kinds
<1> HIDE DEF Arrays, Objects, E
<1>4. /\ { Arrays(f, p) : p \in E("[", "]") } = { Arrays(g, p) : p \in E("[", "]") }
      /\ { Objects(f, p) : p \in E("{", "}") } = { Objects(g, p) : p \in E("{", "}") }
  BY <1>2, <1>3
<1> QED
  BY <1>4 DEF ValuesAt, Arrays, Objects, E

\* The same of a member ...
LEMMA MembersAtAgree ==
    ASSUME NEW s, NEW n \in Nat, NEW f, NEW g, \A k \in 0 .. n - 1 : f[k] = g[k],
           NEW i \in Nat, NEW j \in Int, j = i + n - 1
    PROVE  MembersAt(s, i, j, f) = MembersAt(s, i, j, g)
<1> DEFINE Rest(h, c) == Inner(h, "value", c + 1, j)
           WithColon(h, c) == { <<s[a], value>> : a \in Alone(s, i, c - 1, Strings), value \in Rest(h, c) }
           C == { k \in i .. j : s[k] = ":" }
<1>1. ASSUME NEW c \in C PROVE Rest(f, c) = Rest(g, c)
  <2>1. j - (c + 1) + 1 \in 0 .. n - 1
    OBVIOUS
  <2> QED
    BY <2>1 DEF Inner
<1>2. \A c \in C : WithColon(f, c) = WithColon(g, c)
  BY <1>1
<1> HIDE DEF WithColon, C
<1>3. { WithColon(f, c) : c \in C } = { WithColon(g, c) : c \in C }
  BY <1>2
<1>4. \A h : MembersAt(s, i, j, h) = UNION { WithColon(h, c) : c \in C }
  BY DEF MembersAt, WithColon, C
<1> QED
  BY <1>3, <1>4

\* ... and of a list.
LEMMA ListsAtAgree ==
    ASSUME NEW s, NEW n \in Nat, NEW f, NEW g, \A k \in 0 .. n - 1 : f[k] = g[k],
           NEW i \in Nat, NEW j \in Int, j = i + n - 1, NEW ones, NEW one, NEW list
    PROVE  ListsAt(ones, s, i, j, f, one, list) = ListsAt(ones, s, i, j, g, one, list)
<1>0. \A c \in i .. j : (c - 1) - i + 1 \in 0 .. n - 1 /\ j - (c + 1) + 1 \in 0 .. n - 1
  OBVIOUS
<1> DEFINE Before(h, c) == Inner(h, list, i, c - 1)
           Rest(h, c) == Inner(h, one, c + 1, j)
           Longer(A, B) == { Append(front, t) : front \in A \ {<<>>}, t \in B }
           Split(h, c) == Longer(Before(h, c), Rest(h, c))
           C == { k \in i .. j : s[k] = "," }
<1>1. ASSUME NEW c \in C PROVE Before(f, c) = Before(g, c) /\ Rest(f, c) = Rest(g, c)
  <2>1. (c - 1) - i + 1 \in 0 .. n - 1 /\ j - (c + 1) + 1 \in 0 .. n - 1
    <3>1. c \in i .. j
      OBVIOUS
    <3> QED
      BY <3>1, <1>0
  <2> QED
    BY <2>1 DEF Inner
<1>2. ASSUME NEW c \in C PROVE Split(f, c) = Split(g, c)
  <2>1. Before(f, c) = Before(g, c) /\ Rest(f, c) = Rest(g, c)
    BY <1>1
  <2> HIDE DEF Before, Rest, Longer
  <2> QED
    BY <2>1
<1> HIDE DEF Split, C
<1>3. { Split(f, c) : c \in C } = { Split(g, c) : c \in C }
  BY <1>2
<1>4. \A h : ListsAt(ones, s, i, j, h, one, list)
               = UNION { { <<>> : k \in { l \in {i} : Blank(s, i, j) } },
                         { <<t>> : t \in ones },
                         UNION { Split(h, c) : c \in C } }
  BY DEF ListsAt, Split, C
<1> QED
  BY <1>3, <1>4

\* So the function that goes by their number exists: Grammar is what it says.
LEMMA GrammarByLength ==
    ASSUME NEW s, Len(s) \in Nat
    PROVE  Grammar(s) = [n \in 0 .. Len(s) |-> GrammarStep(s, n, Grammar(s))]
<1>1. ASSUME NEW n \in 0 .. Len(s), NEW f, NEW g, \A k \in 0 .. n - 1 : f[k] = g[k]
      PROVE  GrammarStep(s, n, f) = GrammarStep(s, n, g)
  <2>1. ASSUME NEW kind \in Kinds, NEW i \in 1 .. Len(s) + 1
        PROVE  OfKind(kind, s, i, i + n - 1, f) = OfKind(kind, s, i, i + n - 1, g)
    <3> DEFINE j == i + n - 1
    <3>1. n \in Nat /\ i \in Nat /\ j \in Int
      OBVIOUS
    <3>2. j = i + n - 1
      OBVIOUS
    <3> HIDE DEF j
    <3>3. /\ ValuesAt(s, i, j, f) = ValuesAt(s, i, j, g)
          /\ MembersAt(s, i, j, f) = MembersAt(s, i, j, g)
      BY <1>1, <3>1, <3>2, ValuesAtAgree, MembersAtAgree
    <3>4. \A ones, one, list : ListsAt(ones, s, i, j, f, one, list) = ListsAt(ones, s, i, j, g, one, list)
      BY <1>1, <3>1, <3>2, ListsAtAgree
    <3> QED
      BY <3>2, <3>3, <3>4 DEF OfKind, Kinds
  <2> QED
    BY <2>1 DEF GrammarStep
<1>2. \E g : g = [n \in 0 .. Len(s) |-> GrammarStep(s, n, g)]
  <2>1. \A n \in 0 .. Len(s) : \A f, g : (\A k \in 0 .. n - 1 : f[k] = g[k]) =>
           GrammarStep(s, n, f) = GrammarStep(s, n, g)
    BY <1>1
  <2> QED
    BY <2>1, ByGrammar!Exists
<1>3. Grammar(s) = CHOOSE g : g = [n \in 0 .. Len(s) |-> GrammarStep(s, n, g)]
  BY DEF Grammar, GrammarStep
<1> QED
  BY <1>2, <1>3

\* What the symbols from i to j stand for.
Said(s, kind, i, j) == Inner(Grammar(s), kind, i, j)

IsSpan(s, i, j) == Len(s) \in Nat /\ i \in 1 .. Len(s) + 1 /\ j \in i - 1 .. Len(s)

IsAlone(s, i, j, symbols, a) ==
    a \in i .. j /\ s[a] \in symbols /\ Blank(s, i, a - 1) /\ Blank(s, a + 1, j)

AreAround(s, i, j, left, right, o, e) ==
    /\ o \in i .. j /\ e \in i .. j /\ o < e /\ s[o] = left /\ s[e] = right
    /\ Blank(s, i, o - 1) /\ Blank(s, e + 1, j)

IsLeafAt(s, i, j, t) == \E a : IsAlone(s, i, j, Leaves, a) /\ t = Leaf(s[a])
IsArrayAt(s, i, j, t) ==
    \E o, e : AreAround(s, i, j, "[", "]", o, e)
              /\ \E kids \in Said(s, "values", o + 1, e - 1) : t = Array(kids)
IsObjectAt(s, i, j, t) ==
    \E o, e : AreAround(s, i, j, "{", "}", o, e)
              /\ \E mems \in Said(s, "members", o + 1, e - 1) : t = ObjectOf(mems)
IsMemberAt(s, i, j, m) ==
    \E c \in i .. j : \E a, t :
        /\ s[c] = ":" /\ IsAlone(s, i, c - 1, Strings, a)
        /\ t \in Said(s, "value", c + 1, j) /\ m = <<s[a], t>>

AreListed(one, list) ==
    (one = "value" /\ list = "values") \/ (one = "member" /\ list = "members")
IsLonger(s, one, list, i, j, l) ==
    \E c \in i .. j : \E front, t :
        /\ s[c] = "," /\ front # <<>> /\ l = Append(front, t)
        /\ front \in Said(s, list, i, c - 1)
        /\ t \in Said(s, one, c + 1, j)

\* What is said is what the rules say.
LEMMA SaidIs ==
    ASSUME NEW s, NEW i, NEW j, IsSpan(s, i, j), NEW kind \in Kinds
    PROVE  Said(s, kind, i, j) = OfKind(kind, s, i, j, Grammar(s))
<1> DEFINE n == j - i + 1
<1>1. n \in 0 .. Len(s) /\ i + n - 1 = j /\ <<kind, i>> \in Kinds \X (1 .. Len(s) + 1)
  BY DEF IsSpan
<1>2. Grammar(s)[n] = GrammarStep(s, n, Grammar(s))
  BY <1>1, GrammarByLength DEF IsSpan
<1> HIDE DEF n
<1>3. Grammar(s)[n][<<kind, i>>] = OfKind(kind, s, i, i + n - 1, Grammar(s))
  BY <1>1, <1>2 DEF GrammarStep
<1> QED
  BY <1>1, <1>3 DEF Said, Inner, n

\* A value is a leaf, an array or an object,
LEMMA ValuesAre ==
    ASSUME NEW s, NEW i, NEW j, IsSpan(s, i, j), NEW t
    PROVE  t \in Said(s, "value", i, j)
             <=> IsLeafAt(s, i, j, t) \/ IsArrayAt(s, i, j, t) \/ IsObjectAt(s, i, j, t)
<1> DEFINE E(l, r) == Enclosing(s, i, j, l, r)
           Between(kind, p) == Said(s, kind, p[1] + 1, p[2] - 1)
<1>1. Said(s, "value", i, j) = ValuesAt(s, i, j, Grammar(s))
  BY SaidIs DEF OfKind, Kinds
<1>2. t \in ValuesAt(s, i, j, Grammar(s))
        <=> \/ \E a \in Alone(s, i, j, Leaves) : t = Leaf(s[a])
            \/ \E p \in E("[", "]") : \E kids \in Between("values", p) : t = Array(kids)
            \/ \E p \in E("{", "}") : \E mems \in Between("members", p) : t = ObjectOf(mems)
  <2> DEFINE L == { Leaf(s[a]) : a \in Alone(s, i, j, Leaves) }
             Arrays(p) == { Array(kids) : kids \in Between("values", p) }
             Objects(p) == { ObjectOf(mems) : mems \in Between("members", p) }
             A == UNION { Arrays(p) : p \in E("[", "]") }
             O == UNION { Objects(p) : p \in E("{", "}") }
  <2>1. ValuesAt(s, i, j, Grammar(s)) = UNION { L, A, O }
    BY DEF ValuesAt, Said
  <2>2. t \in L <=> \E a \in Alone(s, i, j, Leaves) : t = Leaf(s[a])
    OBVIOUS
  <2>3. t \in A <=> \E p \in E("[", "]") : t \in Arrays(p)
    OBVIOUS
  <2>4. t \in O <=> \E p \in E("{", "}") : t \in Objects(p)
    OBVIOUS
  <2>5. \A p : t \in Arrays(p) <=> \E kids \in Between("values", p) : t = Array(kids)
    OBVIOUS
  <2>6. \A p : t \in Objects(p) <=> \E mems \in Between("members", p) : t = ObjectOf(mems)
    OBVIOUS
  <2> HIDE DEF L, A, O, Arrays, Objects, E, Between
  <2>7. t \in UNION { L, A, O } <=> t \in L \/ t \in A \/ t \in O
    OBVIOUS
  <2> QED
    BY <2>1, <2>2, <2>3, <2>4, <2>5, <2>6, <2>7
<1>3. \A a : a \in Alone(s, i, j, Leaves) <=> IsAlone(s, i, j, Leaves, a)
  BY DEF Alone, IsAlone
<1>4. \A l, r, o, e : <<o, e>> \in E(l, r) <=> AreAround(s, i, j, l, r, o, e)
  BY DEF Enclosing, AreAround
<1>5. \A l, r : \A p \in E(l, r) : p = <<p[1], p[2]>> /\ AreAround(s, i, j, l, r, p[1], p[2])
  BY DEF Enclosing, AreAround
<1>6. \A o, e, kind : Between(kind, <<o, e>>) = Said(s, kind, o + 1, e - 1)
  OBVIOUS
<1> HIDE DEF E, Between
<1>7. IsLeafAt(s, i, j, t) <=> \E a \in Alone(s, i, j, Leaves) : t = Leaf(s[a])
  BY <1>3 DEF IsLeafAt
<1>8. IsArrayAt(s, i, j, t)
        <=> \E p \in E("[", "]") : \E kids \in Between("values", p) : t = Array(kids)
  <2>1. ASSUME IsArrayAt(s, i, j, t)
        PROVE  \E p \in E("[", "]") : \E kids \in Between("values", p) : t = Array(kids)
    <3>1. PICK o, e : /\ AreAround(s, i, j, "[", "]", o, e)
                      /\ \E kids \in Said(s, "values", o + 1, e - 1) : t = Array(kids)
      BY <2>1 DEF IsArrayAt
    <3>2. <<o, e>> \in E("[", "]") /\ Between("values", <<o, e>>) = Said(s, "values", o + 1, e - 1)
      BY <1>4, <1>6, <3>1
    <3> QED
      BY <3>1, <3>2
  <2>2. ASSUME NEW p \in E("[", "]"), NEW kids \in Between("values", p), t = Array(kids)
        PROVE  IsArrayAt(s, i, j, t)
    <3>1. p = <<p[1], p[2]>> /\ AreAround(s, i, j, "[", "]", p[1], p[2])
      BY <1>5
    <3>2. kids \in Said(s, "values", p[1] + 1, p[2] - 1)
      BY <1>6, <3>1
    <3> QED
      BY <2>2, <3>1, <3>2 DEF IsArrayAt
  <2> QED
    BY <2>1, <2>2
<1>9. IsObjectAt(s, i, j, t)
        <=> \E p \in E("{", "}") : \E mems \in Between("members", p) : t = ObjectOf(mems)
  <2>1. ASSUME IsObjectAt(s, i, j, t)
        PROVE  \E p \in E("{", "}") : \E mems \in Between("members", p) : t = ObjectOf(mems)
    <3>1. PICK o, e : /\ AreAround(s, i, j, "{", "}", o, e)
                      /\ \E mems \in Said(s, "members", o + 1, e - 1) : t = ObjectOf(mems)
      BY <2>1 DEF IsObjectAt
    <3>2. <<o, e>> \in E("{", "}") /\ Between("members", <<o, e>>) = Said(s, "members", o + 1, e - 1)
      BY <1>4, <1>6, <3>1
    <3> QED
      BY <3>1, <3>2
  <2>2. ASSUME NEW p \in E("{", "}"), NEW mems \in Between("members", p), t = ObjectOf(mems)
        PROVE  IsObjectAt(s, i, j, t)
    <3>1. p = <<p[1], p[2]>> /\ AreAround(s, i, j, "{", "}", p[1], p[2])
      BY <1>5
    <3>2. mems \in Said(s, "members", p[1] + 1, p[2] - 1)
      BY <1>6, <3>1
    <3> QED
      BY <2>2, <3>1, <3>2 DEF IsObjectAt
  <2> QED
    BY <2>1, <2>2
<1> QED
  BY <1>1, <1>2, <1>7, <1>8, <1>9

\* a member a string, a colon and a value,
LEMMA MembersAre ==
    ASSUME NEW s, NEW i, NEW j, IsSpan(s, i, j), NEW m
    PROVE  m \in Said(s, "member", i, j) <=> IsMemberAt(s, i, j, m)
<1>1. Said(s, "member", i, j) = MembersAt(s, i, j, Grammar(s))
  BY SaidIs DEF OfKind, Kinds
<1>2. m \in MembersAt(s, i, j, Grammar(s))
        <=> \E c \in { k \in i .. j : s[k] = ":" } :
               \E a \in Alone(s, i, c - 1, Strings), t \in Said(s, "value", c + 1, j) : m = <<s[a], t>>
  BY DEF MembersAt, Said
<1>3. \A a, c : a \in Alone(s, i, c - 1, Strings) <=> IsAlone(s, i, c - 1, Strings, a)
  BY DEF Alone, IsAlone
<1> QED
  BY <1>1, <1>2, <1>3 DEF IsMemberAt

\* and a list empty, one element, or a list, a comma and an element.
LEMMA ListsAre ==
    ASSUME NEW s, NEW i, NEW j, IsSpan(s, i, j), NEW one, NEW list, AreListed(one, list), NEW l
    PROVE  l \in Said(s, list, i, j)
             <=> \/ l = <<>> /\ Blank(s, i, j)
                 \/ \E t \in Said(s, one, i, j) : l = <<t>>
                 \/ IsLonger(s, one, list, i, j, l)
<1> DEFINE Lists(ones) == ListsAt(ones, s, i, j, Grammar(s), one, list)
<1>1. Said(s, list, i, j) = Lists(Said(s, one, i, j))
  BY SaidIs DEF OfKind, Kinds, AreListed
<1>2. ASSUME NEW ones
      PROVE  l \in Lists(ones)
        <=> \/ l = <<>> /\ Blank(s, i, j)
            \/ \E t \in ones : l = <<t>>
            \/ \E c \in { k \in i .. j : s[k] = "," } :
                 \E front \in Said(s, list, i, c - 1) \ {<<>>}, t \in Said(s, one, c + 1, j) :
                    l = Append(front, t)
  <2> DEFINE N == { <<>> : k \in { x \in {i} : Blank(s, i, j) } }
             S == { <<t>> : t \in ones }
             C == { k \in i .. j : s[k] = "," }
             Longer(c) == { Append(front, t) : front \in Said(s, list, i, c - 1) \ {<<>>},
                                               t \in Said(s, one, c + 1, j) }
             L == UNION { Longer(c) : c \in C }
  <2>1. Lists(ones) = UNION { N, S, L }
    BY DEF ListsAt, Said
  <2>2. l \in N <=> l = <<>> /\ Blank(s, i, j)
    OBVIOUS
  <2>3. l \in S <=> \E t \in ones : l = <<t>>
    OBVIOUS
  <2>4. \A c : l \in Longer(c)
           <=> \E front \in Said(s, list, i, c - 1) \ {<<>>}, t \in Said(s, one, c + 1, j) :
                  l = Append(front, t)
    OBVIOUS
  <2> HIDE DEF Longer
  <2>5. l \in L <=> \E c \in C : l \in Longer(c)
    OBVIOUS
  <2> HIDE DEF N, S, L, Longer, Lists
  <2>6. l \in UNION { N, S, L } <=> l \in N \/ l \in S \/ l \in L
    OBVIOUS
  <2> QED
    BY <2>1, <2>2, <2>3, <2>4, <2>5, <2>6
<1> HIDE DEF Lists
<1> QED
  BY <1>1, <1>2 DEF IsLonger

-----------------------------------------------------------------------------
(***************************************************************************)
(* The object of a list of members.                                        *)
(***************************************************************************)
\* A set of positions, and its beginnings.
NotAfter(F, i) == { j \in F : j <= i }

\* The rank of a position among those of a set.
LEMMA RankType ==
    ASSUME NEW n \in Nat, NEW F \in SUBSET (1 .. n)
    PROVE  /\ IsFiniteSet(F) /\ Cardinality(F) \in Nat
           /\ \A i \in Int : IsFiniteSet(NotAfter(F, i)) /\ Cardinality(NotAfter(F, i)) \in Nat
           /\ \A i \in F : Cardinality(NotAfter(F, i)) \in 1 .. Cardinality(F)
<1>1. IsFiniteSet(F) /\ Cardinality(F) \in Nat
  <2>1. IsFiniteSet(1 .. n)
    BY FS_Interval
  <2> QED
    BY <2>1, FS_Subset, FS_CardinalityType
<1>2. \A i : NotAfter(F, i) \in SUBSET F
  BY DEF NotAfter
<1>3. \A i : /\ IsFiniteSet(NotAfter(F, i)) /\ Cardinality(NotAfter(F, i)) \in Nat
             /\ Cardinality(NotAfter(F, i)) <= Cardinality(F)
  BY <1>1, <1>2, FS_Subset, FS_CardinalityType
<1>4. ASSUME NEW i \in F PROVE Cardinality(NotAfter(F, i)) # 0
  <2>1. i \in NotAfter(F, i)
    BY DEF NotAfter
  <2> QED
    BY <2>1, <1>3, FS_EmptySet
<1>5. \A i \in F : Cardinality(NotAfter(F, i)) \in 1 .. Cardinality(F)
  BY <1>1, <1>3, <1>4
<1> QED
  BY <1>1, <1>3, <1>5

\* No two have the same rank ...
LEMMA RankUnique ==
    ASSUME NEW n \in Nat, NEW F \in SUBSET (1 .. n), NEW i \in F, NEW j \in F,
           Cardinality(NotAfter(F, i)) = Cardinality(NotAfter(F, j))
    PROVE  i = j
<1>0. \A k \in F : k \in Int
  OBVIOUS
<1>1. ASSUME NEW k \in F, NEW l \in F, k < l,
             Cardinality(NotAfter(F, k)) = Cardinality(NotAfter(F, l))
      PROVE  FALSE
  <2>1. NotAfter(F, k) \in SUBSET NotAfter(F, l)
    <3>1. \A r \in F : r <= k => r <= l
      BY <1>0, <1>1
    <3> QED
      BY <3>1 DEF NotAfter
  <2>2. IsFiniteSet(NotAfter(F, l))
    BY <1>0, RankType
  <2>3. NotAfter(F, k) = NotAfter(F, l)
    BY <1>1, <2>1, <2>2, FS_Subset
  <2>4. l \in NotAfter(F, l) /\ l \notin NotAfter(F, k)
    BY <1>1 DEF NotAfter
  <2> QED
    BY <2>3, <2>4
<1>2. i \in Nat /\ j \in Nat
  OBVIOUS
<1>3. i < j \/ j < i \/ i = j
  BY <1>2
<1> QED
  BY <1>1, <1>3

\* ... and every rank is there.
LEMMA RankThere ==
    ASSUME NEW n \in Nat, NEW F \in SUBSET (1 .. n), NEW x \in 1 .. Cardinality(F)
    PROVE  \E i \in F : Cardinality(NotAfter(F, i)) = x
<1>0. \A i \in F : i \in Int /\ 1 <= i /\ i <= n
  OBVIOUS
<1> DEFINE C(i) == Cardinality(NotAfter(F, i))
           T == { m \in Nat : x <= C(m) => \E i \in F : C(i) = x }
<1>1. 0 \in T
  <2>1. NotAfter(F, 0) = {}
    <3>1. \A j \in F : ~(j <= 0)
      BY <1>0
    <3> QED
      BY <3>1 DEF NotAfter
  <2>2. C(0) = 0
    BY <2>1, FS_EmptySet
  <2> QED
    BY <2>2
<1>2. ASSUME NEW m \in Nat, m \in T PROVE m + 1 \in T
  <2>1. IsFiniteSet(NotAfter(F, m)) /\ C(m) \in Nat
    <3>1. m \in Int
      OBVIOUS
    <3> QED
      BY <3>1, RankType
  <2>2. CASE m + 1 \in F
    <3>1. NotAfter(F, m + 1) = NotAfter(F, m) \union {m + 1} /\ m + 1 \notin NotAfter(F, m)
      <4>1. \A j \in F : j <= m + 1 <=> j <= m \/ j = m + 1
        BY <1>0
      <4>2. m + 1 <= m + 1 /\ ~(m + 1 <= m)
        OBVIOUS
      <4> QED
        BY <2>2, <4>1, <4>2 DEF NotAfter
    <3>2. C(m + 1) = C(m) + 1
      BY <2>1, <3>1, FS_AddElement
    <3> HIDE DEF C
    <3>3. CASE x <= C(m)
      BY <1>2, <3>3
    <3>4. CASE ~(x <= C(m))
      <4>1. x <= C(m + 1) => C(m + 1) = x
        BY <2>1, <3>2, <3>4
      <4> QED
        BY <2>2, <4>1
    <3> QED
      BY <3>3, <3>4
  <2>3. CASE m + 1 \notin F
    <3>1. NotAfter(F, m + 1) = NotAfter(F, m)
      <4>1. \A j \in F : j <= m + 1 <=> j <= m
        BY <1>0, <2>3
      <4> QED
        BY <4>1 DEF NotAfter
    <3>2. C(m + 1) = C(m)
      BY <3>1
    <3> HIDE DEF C
    <3> QED
      BY <1>2, <3>2
  <2> QED
    BY <2>2, <2>3
<1>3. n \in T
  <2> HIDE DEF T
  <2> QED
    BY <1>1, <1>2, AllNumbers
<1>4. NotAfter(F, n) = F
  BY <1>0 DEF NotAfter
<1>5. x <= C(n)
  BY <1>4
<1> QED
  BY <1>3, <1>5

AnySeq(q) == \E S : q \in Seq(S)

\* A sequence of whatever elements.
LEMMA AnySeqIs ==
    ASSUME NEW q, AnySeq(q)
    PROVE  Len(q) \in Nat /\ DOMAIN q = 1 .. Len(q)
BY DEF AnySeq

\* It has one more element when one is appended.
LEMMA AppendIs ==
    ASSUME NEW q, AnySeq(q), NEW x
    PROVE  /\ AnySeq(Append(q, x)) /\ Len(Append(q, x)) = Len(q) + 1
           /\ DOMAIN Append(q, x) = 1 .. Len(q) + 1
           /\ Append(q, x)[Len(q) + 1] = x
           /\ \A i \in 1 .. Len(q) : Append(q, x)[i] = q[i]
           /\ Append(q, x) # <<>>
           /\ Append(q, x) = [i \in 1 .. Len(q) + 1 |-> Append(q, x)[i]]
<1>1. PICK S : q \in Seq(S)
  BY DEF AnySeq
<1> DEFINE R == S \union {x}
<1>2. q \in Seq(R) /\ x \in R
  BY <1>1
<1> HIDE DEF R
<1>3. Append(q, x) \in Seq(R) /\ Len(Append(q, x)) = Len(q) + 1 /\ Len(q) \in Nat
  BY <1>2
<1>4. /\ Append(q, x)[Len(q) + 1] = x
      /\ \A i \in 1 .. Len(q) : Append(q, x)[i] = q[i]
  BY <1>2
<1>5. Append(q, x) = [i \in 1 .. Len(q) + 1 |-> Append(q, x)[i]]
  <2> DEFINE more == Append(q, x)
             n == Len(q) + 1
  <2>1. more \in Seq(R) /\ Len(more) = n
    BY <1>3
  <2> HIDE DEF more, n
  <2>2. more = [i \in 1 .. n |-> more[i]]
    BY <2>1
  <2> QED
    BY <2>2 DEF more, n
<1> QED
  BY <1>3, <1>4, <1>5 DEF AnySeq

\* The places a list of members takes in its object.
LEMMA PlacesAre ==
    ASSUME NEW mems, AnySeq(mems)
    PROVE  /\ Firsts(mems) \in SUBSET (1 .. Len(mems))
           /\ Cardinality(Firsts(mems)) \in Nat /\ IsFiniteSet(Firsts(mems))
           /\ \A i \in Firsts(mems) : /\ Rank(mems, i) \in 1 .. Cardinality(Firsts(mems))
                                      /\ AtPlace(mems, Rank(mems, i)) = i
           /\ \A x \in 1 .. Cardinality(Firsts(mems)) :
                 AtPlace(mems, x) \in Firsts(mems) /\ Rank(mems, AtPlace(mems, x)) = x
<1> DEFINE F == Firsts(mems)
<1>1. Len(mems) \in Nat /\ F \in SUBSET (1 .. Len(mems))
  BY AnySeqIs DEF Firsts
<1> HIDE DEF F
<1>2. \A i : Rank(mems, i) = Cardinality(NotAfter(F, i))
  BY DEF Rank, NotAfter, F
<1>3. /\ IsFiniteSet(F) /\ Cardinality(F) \in Nat
      /\ \A i \in F : Rank(mems, i) \in 1 .. Cardinality(F)
  BY <1>1, <1>2, RankType
<1>4. \A x : AtPlace(mems, x) = CHOOSE i \in F : Rank(mems, i) = x
  BY DEF AtPlace, F
<1>5. ASSUME NEW x \in 1 .. Cardinality(F)
      PROVE  AtPlace(mems, x) \in F /\ Rank(mems, AtPlace(mems, x)) = x
  <2>1. PICK i \in F : Cardinality(NotAfter(F, i)) = x
    BY <1>1, RankThere
  <2>2. Rank(mems, i) = x
    BY <1>2, <2>1
  <2> QED
    BY <1>4, <2>2
<1>6. ASSUME NEW i \in F PROVE AtPlace(mems, Rank(mems, i)) = i
  <2>1. /\ AtPlace(mems, Rank(mems, i)) \in F
        /\ Rank(mems, AtPlace(mems, Rank(mems, i))) = Rank(mems, i)
    BY <1>3, <1>5
  <2> QED
    BY <1>1, <1>2, <2>1, RankUnique
<1> QED
  BY <1>1, <1>3, <1>5, <1>6 DEF F

\* The last member of a name.
LEMMA LastOfIs ==
    ASSUME NEW mems, AnySeq(mems), NEW name, \E i \in DOMAIN mems : mems[i][1] = name
    PROVE  /\ LastOf(mems, name) \in DOMAIN mems
           /\ mems[LastOf(mems, name)][1] = name
           /\ \A j \in LastOf(mems, name) + 1 .. Len(mems) : mems[j][1] # name
<1> DEFINE n == Len(mems)
           T == { i \in 1 .. n : mems[i][1] = name }
<1>1. n \in Nat /\ DOMAIN mems = 1 .. n
  BY AnySeqIs
<1>2. n + 1 \in Nat /\ T \in SUBSET (0 .. (n + 1) - 1) /\ T # {}
  BY <1>1
<1> HIDE DEF n
<1>3. PICK m \in T : \A i \in T : i <= m
  BY <1>2, GreatestNumber
<1>4. m \in 1 .. n /\ mems[m][1] = name
  BY <1>3
<1>5. ASSUME NEW j \in m + 1 .. n, mems[j][1] = name PROVE FALSE
  <2>1. j \in 1 .. n /\ ~(j <= m)
    BY <1>1, <1>4
  <2> QED
    BY <1>3, <1>5, <2>1
<1>6. \E i \in DOMAIN mems : mems[i][1] = name /\ \A j \in i + 1 .. Len(mems) : mems[j][1] # name
  BY <1>1, <1>4, <1>5 DEF n
<1> QED
  BY <1>6 DEF LastOf

\* The object's members.
KidsOf(mems) ==
    [x \in 1 .. Cardinality(Firsts(mems)) |-> Final(mems, mems[AtPlace(mems, x)][1])]

\* They have the names of the first members, and the values of the last.
LEMMA KidsAre ==
    ASSUME NEW mems, AnySeq(mems)
    PROVE  /\ ObjectOf(mems) = Object(KidsOf(mems)) /\ ObjectOf(mems)[2] = KidsOf(mems)
           /\ AnySeq(KidsOf(mems)) /\ Len(KidsOf(mems)) = Cardinality(Firsts(mems))
           /\ DOMAIN KidsOf(mems) = 1 .. Cardinality(Firsts(mems))
           /\ \A x \in DOMAIN KidsOf(mems) :
                 /\ KidsOf(mems)[x] = Final(mems, KidsOf(mems)[x][1])
                 /\ KidsOf(mems)[x][1] = mems[AtPlace(mems, x)][1]
<1> DEFINE n == Cardinality(Firsts(mems))
           kids == KidsOf(mems)
           Place(x) == mems[AtPlace(mems, x)][1]
<1>1. n \in Nat
  BY PlacesAre
<1>2. ObjectOf(mems) = Object(kids) /\ Object(kids)[2] = kids
  BY DEF ObjectOf, KidsOf, Object
<1>3. kids = [x \in 1 .. n |-> Final(mems, Place(x))]
  BY DEF KidsOf
<1> HIDE DEF n, kids, Place
<1>4. AnySeq(kids) /\ Len(kids) = n /\ DOMAIN kids = 1 .. n
  <2> DEFINE S == { kids[x] : x \in 1 .. n }
  <2>1. kids \in [1 .. n -> S]
    BY <1>3
  <2> HIDE DEF S
  <2>2. kids \in Seq(S) /\ Len(kids) = n
    BY <1>1, <2>1
  <2> QED
    BY <1>3, <2>2 DEF AnySeq
<1>5. \A name : Final(mems, name)[1] = name
  BY DEF Final
<1>6. \A x \in 1 .. n : kids[x] = Final(mems, kids[x][1]) /\ kids[x][1] = Place(x)
  BY <1>3, <1>5
<1> QED
  BY <1>2, <1>4, <1>6 DEF n, kids, Place

\* One more member.
LEMMA FirstsAppend ==
    ASSUME NEW mems, AnySeq(mems), NEW m
    PROVE  LET more == Append(mems, m)
               n == Len(mems)
               new == \A i \in 1 .. n : mems[i][1] # m[1]
           IN  /\ Firsts(more) = IF new THEN Firsts(mems) \union {n + 1} ELSE Firsts(mems)
               /\ Cardinality(Firsts(more)) = Cardinality(Firsts(mems)) + IF new THEN 1 ELSE 0
               /\ \A x \in 1 .. Cardinality(Firsts(mems)) : AtPlace(more, x) = AtPlace(mems, x)
               /\ new => AtPlace(more, Cardinality(Firsts(mems)) + 1) = n + 1
<1> DEFINE more == Append(mems, m)
           n == Len(mems)
           new == \A i \in 1 .. n : mems[i][1] # m[1]
           c == Cardinality(Firsts(mems))
<1>1. /\ n \in Nat /\ DOMAIN mems = 1 .. n
      /\ AnySeq(more) /\ DOMAIN more = 1 .. n + 1 /\ more[n + 1] = m
      /\ \A i \in 1 .. n : more[i] = mems[i]
  BY AnySeqIs, AppendIs
<1>2. /\ Firsts(mems) \in SUBSET (1 .. n) /\ c \in Nat /\ IsFiniteSet(Firsts(mems))
      /\ \A x \in 1 .. c : AtPlace(mems, x) \in Firsts(mems) /\ Rank(mems, AtPlace(mems, x)) = x
  BY PlacesAre
<1> HIDE DEF more, n
<1>3. \A i \in 1 .. n : i \in Firsts(more) <=> i \in Firsts(mems)
  <2>1. \A i \in 1 .. n : i \in 1 .. n + 1 /\ \A j \in 1 .. i - 1 : j \in 1 .. n
    BY <1>1
  <2> QED
    BY <1>1, <2>1 DEF Firsts
<1>4. n + 1 \in Firsts(more) <=> new
  <2>1. n + 1 \in 1 .. n + 1 /\ (n + 1) - 1 = n
    BY <1>1
  <2> QED
    BY <1>1, <2>1 DEF Firsts
<1>5. Firsts(more) \subseteq 1 .. n + 1
  BY <1>1 DEF Firsts
<1>6. Firsts(more) = IF new THEN Firsts(mems) \union {n + 1} ELSE Firsts(mems)
  <2>1. \A i : i \in 1 .. n + 1 <=> i \in 1 .. n \/ i = n + 1
    BY <1>1
  <2> HIDE DEF new
  <2>2. \A i : i \in Firsts(more) <=> i \in Firsts(mems) \/ (new /\ i = n + 1)
    <3>1. \A i \in Firsts(mems) : i \in 1 .. n
      BY <1>2
    <3>2. \A i \in Firsts(more) : i \in 1 .. n \/ i = n + 1
      BY <1>5, <2>1
    <3> QED
      BY <1>3, <1>4, <3>1, <3>2
  <2> QED
    BY <2>2
<1> HIDE DEF new, c
<1>7. Cardinality(Firsts(more)) = c + IF new THEN 1 ELSE 0
  <2>1. n + 1 \notin Firsts(mems)
    BY <1>1, <1>2
  <2>2. Cardinality(Firsts(mems) \union {n + 1}) = c + 1
    BY <1>2, <2>1, FS_AddElement DEF c
  <2> QED
    BY <1>2, <1>6, <2>2 DEF c
<1>8. ASSUME NEW i \in Firsts(mems) PROVE Rank(more, i) = Rank(mems, i)
  <2>1. { j \in Firsts(more) : j <= i } = { j \in Firsts(mems) : j <= i }
    <3>1. i \in 1 .. n /\ ~(n + 1 <= i)
      BY <1>1, <1>2
    <3> QED
      BY <1>6, <3>1
  <2> QED
    BY <2>1 DEF Rank
<1>9. ASSUME NEW x \in 1 .. c PROVE AtPlace(more, x) = AtPlace(mems, x)
  <2> DEFINE i == AtPlace(mems, x)
  <2>1. i \in Firsts(mems) /\ Rank(mems, i) = x
    BY <1>2
  <2>2. i \in Firsts(more) /\ Rank(more, i) = x
    BY <1>6, <1>8, <2>1
  <2> HIDE DEF i
  <2>3. AtPlace(more, Rank(more, i)) = i
    BY <1>1, <2>2, PlacesAre
  <2> QED
    BY <2>2, <2>3 DEF i
<1>10. new => AtPlace(more, c + 1) = n + 1
  <2> SUFFICES ASSUME new PROVE AtPlace(more, c + 1) = n + 1
    OBVIOUS
  <2>1. n + 1 \in Firsts(more)
    BY <1>4
  <2>2. { j \in Firsts(more) : j <= n + 1 } = Firsts(more)
    <3>1. \A j \in Firsts(more) : j <= n + 1
      BY <1>1, <1>5
    <3> QED
      BY <3>1
  <2>3. Rank(more, n + 1) = c + 1
    BY <1>7, <2>2 DEF Rank
  <2>4. AtPlace(more, Rank(more, n + 1)) = n + 1
    BY <1>1, <2>1, PlacesAre
  <2> QED
    BY <2>3, <2>4
<1> QED
  BY <1>6, <1>7, <1>9, <1>10 DEF more, n, new, c

\* The last member of a name is the new one, or the old.
LEMMA FinalAppend ==
    ASSUME NEW mems, AnySeq(mems), NEW name, NEW value
    PROVE  LET more == Append(mems, <<name, value>>)
           IN  /\ Final(more, name) = <<name, <<value>>, Size(value)>>
               /\ \A i \in DOMAIN mems : mems[i][1] # name =>
                     Final(more, mems[i][1]) = Final(mems, mems[i][1])
<1> DEFINE m == <<name, value>>
           more == Append(mems, m)
           n == Len(mems)
<1>1. /\ n \in Nat /\ DOMAIN mems = 1 .. n /\ m[1] = name /\ m[2] = value
      /\ AnySeq(more) /\ DOMAIN more = 1 .. n + 1 /\ Len(more) = n + 1 /\ more[n + 1] = m
      /\ \A i \in 1 .. n : more[i] = mems[i]
  BY AnySeqIs, AppendIs
<1> HIDE DEF m, more, n
<1>2. LastOf(more, name) = n + 1
  <2>1. n + 1 \in DOMAIN more /\ more[n + 1][1] = name
    BY <1>1
  <2>2. /\ LastOf(more, name) \in 1 .. n + 1
        /\ \A j \in LastOf(more, name) + 1 .. n + 1 : more[j][1] # name
    BY <1>1, <2>1, LastOfIs
  <2>3. n + 1 \notin LastOf(more, name) + 1 .. n + 1
    BY <1>1, <2>1, <2>2
  <2> QED
    BY <1>1, <2>2, <2>3
<1>3. Final(more, name) = <<name, <<value>>, Size(value)>>
  BY <1>1, <1>2 DEF Final
<1>4. ASSUME NEW i \in 1 .. n, mems[i][1] # name
      PROVE  Final(more, mems[i][1]) = Final(mems, mems[i][1])
  <2> DEFINE nm == mems[i][1]
             L == LastOf(mems, nm)
             M == LastOf(more, nm)
  <2>1. /\ L \in 1 .. n /\ mems[L][1] = nm
        /\ \A j \in L + 1 .. n : mems[j][1] # nm
    BY <1>1, LastOfIs DEF n
  <2>2. /\ M \in 1 .. n + 1 /\ more[M][1] = nm
        /\ \A j \in M + 1 .. n + 1 : more[j][1] # nm
    <3>1. i \in DOMAIN more /\ more[i][1] = nm
      BY <1>1
    <3> QED
      BY <1>1, <3>1, LastOfIs
  <2> HIDE DEF L, M
  <2>3. nm # name
    BY <1>4
  <2> HIDE DEF nm
  <2>4. M # n + 1
    BY <1>1, <2>2, <2>3
  <2>5. M \in 1 .. n /\ mems[M][1] = nm
    BY <1>1, <2>2, <2>4
  <2>6. ~(L < M)
    <3>1. L < M => M \in L + 1 .. n
      BY <1>1, <2>1, <2>5
    <3> QED
      BY <2>1, <2>5, <3>1
  <2>7. ~(M < L)
    <3>1. M < L => L \in M + 1 .. n + 1
      BY <1>1, <2>1, <2>5
    <3> QED
      BY <1>1, <2>1, <2>2, <3>1
  <2>8. L = M
    BY <1>1, <2>1, <2>5, <2>6, <2>7
  <2>9. more[M] = mems[L]
    BY <1>1, <2>1, <2>8
  <2> QED
    BY <2>9 DEF Final, L, M, nm
<1> QED
  BY <1>1, <1>3, <1>4 DEF more, m

\* j2ValueObjectItemSet makes the object of one more member.
LEMMA ObjectOfAppend ==
    ASSUME NEW mems, AnySeq(mems), NEW name, NEW value
    PROVE  ObjectOf(Append(mems, <<name, value>>)) = WithMember(ObjectOf(mems), name, value)
<1> DEFINE m == <<name, value>>
           more == Append(mems, m)
           n == Len(mems)
           new == \A i \in 1 .. n : mems[i][1] # m[1]
           kids == KidsOf(mems)
           all == KidsOf(more)
           mem == <<name, <<value>>, Size(value)>>
           same == { x \in DOMAIN kids : kids[x][1] = name }
           c == Cardinality(Firsts(mems))
<1>1. /\ n \in Nat /\ DOMAIN mems = 1 .. n /\ m[1] = name
      /\ AnySeq(more) /\ more[n + 1] = m /\ \A i \in 1 .. n : more[i] = mems[i]
  BY AnySeqIs, AppendIs
<1>2. /\ Final(more, name) = mem
      /\ \A i \in 1 .. n : mems[i][1] # name => Final(more, mems[i][1]) = Final(mems, mems[i][1])
  BY <1>1, FinalAppend
<1>3. /\ ObjectOf(mems)[2] = kids /\ AnySeq(kids) /\ Len(kids) = c /\ DOMAIN kids = 1 .. c
      /\ \A x \in 1 .. c : kids[x] = Final(mems, kids[x][1]) /\ kids[x][1] = mems[AtPlace(mems, x)][1]
  BY KidsAre
<1>4. /\ ObjectOf(more) = Object(all) /\ AnySeq(all)
      /\ DOMAIN all = 1 .. Cardinality(Firsts(more))
      /\ \A x \in DOMAIN all : /\ all[x] = Final(more, all[x][1])
                               /\ all[x][1] = more[AtPlace(more, x)][1]
  BY <1>1, KidsAre
<1>5. /\ Cardinality(Firsts(more)) = c + IF new THEN 1 ELSE 0
      /\ \A x \in 1 .. c : AtPlace(more, x) = AtPlace(mems, x)
      /\ new => AtPlace(more, c + 1) = n + 1
  BY FirstsAppend
<1>6. c \in Nat /\ \A x \in 1 .. c : AtPlace(mems, x) \in 1 .. n
  BY PlacesAre
<1>7. WithMember(ObjectOf(mems), name, value)
        = Object(IF same = {} THEN Append(kids, mem)
                 ELSE [x \in DOMAIN kids |-> IF x \in same THEN mem ELSE kids[x]])
  BY <1>3 DEF WithMember
<1>8. all = [x \in 1 .. Cardinality(Firsts(more)) |-> all[x]]
  BY DEF KidsOf
<1>9. same = {} <=> new
  <2>1. ASSUME new, NEW x \in same PROVE FALSE
    BY <1>1, <1>3, <1>6, <2>1
  <2>2. ASSUME ~new PROVE same # {}
    <3> DEFINE T == { i \in 1 .. n : mems[i][1] = name }
    <3>1. T \in SUBSET Nat /\ T # {}
      BY <1>1, <2>2
    <3>2. PICK i \in T : \A j \in T : i <= j
      BY <3>1, LeastNumber
    <3>3. i \in 1 .. n /\ mems[i][1] = name
      BY <3>2
    <3>4. ASSUME NEW j \in 1 .. i - 1, mems[j][1] = mems[i][1] PROVE FALSE
      <4>1. j \in T /\ ~(i <= j)
        BY <1>1, <3>3, <3>4
      <4> QED
        BY <3>2, <4>1
    <3>5. i \in Firsts(mems)
      BY <1>1, <3>3, <3>4 DEF Firsts
    <3> DEFINE x == Rank(mems, i)
    <3>6. x \in 1 .. c /\ AtPlace(mems, x) = i
      BY <3>5, PlacesAre
    <3> HIDE DEF x
    <3>7. x \in DOMAIN kids /\ kids[x][1] = name
      BY <1>3, <3>3, <3>6
    <3> QED
      BY <3>7
  <2> QED
    BY <2>1, <2>2
<1> HIDE DEF m, more, n, kids, all, mem, c, new
<1>10. ASSUME NEW x \in 1 .. c, x \in DOMAIN all
       PROVE  all[x] = IF x \in same THEN mem ELSE kids[x]
  <2>1. all[x][1] = kids[x][1] /\ all[x] = Final(more, kids[x][1])
    <3> DEFINE i == AtPlace(mems, x)
    <3>1. i \in 1 .. n /\ kids[x][1] = mems[i][1]
      BY <1>3, <1>6
    <3>2. all[x] = Final(more, all[x][1]) /\ all[x][1] = more[i][1]
      BY <1>4, <1>5, <1>10
    <3> HIDE DEF i
    <3> QED
      BY <1>1, <3>1, <3>2
  <2>2. x \in same <=> kids[x][1] = name
    BY <1>3
  <2>3. CASE x \in same
    BY <1>2, <2>1, <2>2, <2>3
  <2>4. CASE x \notin same
    <3>1. AtPlace(mems, x) \in 1 .. n /\ mems[AtPlace(mems, x)][1] = kids[x][1]
      BY <1>3, <1>6
    <3>2. Final(more, kids[x][1]) = Final(mems, kids[x][1])
      BY <1>2, <2>2, <2>4, <3>1
    <3> QED
      BY <1>3, <2>1, <2>4, <3>2
  <2> QED
    BY <2>3, <2>4
<1>11. CASE new
  <2>1. DOMAIN all = 1 .. c + 1 /\ all = [x \in 1 .. c + 1 |-> all[x]]
    BY <1>4, <1>5, <1>8, <1>11
  <2>2. \A x \in 1 .. c : x \in 1 .. c + 1 /\ all[x] = kids[x]
    BY <1>6, <1>9, <1>10, <1>11, <2>1
  <2>3. all[c + 1] = mem
    <3>1. c + 1 \in DOMAIN all
      BY <1>6, <2>1
    <3>2. all[c + 1][1] = name
      BY <1>1, <1>4, <1>5, <1>11, <3>1
    <3> QED
      BY <1>2, <1>4, <3>1, <3>2
  <2>4. all = Append(kids, mem)
    <3>1. /\ AnySeq(Append(kids, mem)) /\ DOMAIN Append(kids, mem) = 1 .. c + 1
          /\ Append(kids, mem)[c + 1] = mem
          /\ \A x \in 1 .. c : Append(kids, mem)[x] = kids[x]
      BY <1>3, AppendIs
    <3>2. Append(kids, mem) = [x \in 1 .. c + 1 |-> Append(kids, mem)[x]]
      BY <1>3, AppendIs
    <3>3. \A x \in 1 .. c + 1 : x \in 1 .. c \/ x = c + 1
      BY <1>6
    <3>4. \A x \in 1 .. c + 1 : all[x] = Append(kids, mem)[x]
      BY <2>2, <2>3, <3>1, <3>3
    <3> QED
      BY <2>1, <3>2, <3>4
  <2> QED
    BY <1>4, <1>7, <1>9, <1>11, <2>4 DEF more, m
<1>12. CASE ~new
  <2>1. DOMAIN all = 1 .. c /\ all = [x \in 1 .. c |-> all[x]]
    BY <1>4, <1>5, <1>6, <1>8, <1>12
  <2>2. \A x \in 1 .. c : all[x] = IF x \in same THEN mem ELSE kids[x]
    BY <1>10, <2>1
  <2>3. all = [x \in DOMAIN kids |-> IF x \in same THEN mem ELSE kids[x]]
    BY <1>3, <2>1, <2>2
  <2> QED
    BY <1>4, <1>7, <1>9, <1>12, <2>3 DEF more, m
<1> QED
  BY <1>11, <1>12 DEF more, m

-----------------------------------------------------------------------------
(***************************************************************************)
(* What is accepted is JSON.                                               *)
(***************************************************************************)
\* Spaces behind a value or a member.
LEMMA AloneWider ==
    ASSUME NEW s, NEW i \in Int, NEW j \in Int, NEW e \in Int, j <= e, Blank(s, j + 1, e),
           NEW symbols, NEW a, IsAlone(s, i, j, symbols, a)
    PROVE  IsAlone(s, i, e, symbols, a)
<1>1. a \in i .. j /\ a \in i .. e
  BY DEF IsAlone
<1>2. \A k \in a + 1 .. e : k \in a + 1 .. j \/ k \in j + 1 .. e
  BY <1>1
<1>3. Blank(s, a + 1, e)
  BY <1>2 DEF Blank, IsAlone
<1> QED
  BY <1>1, <1>3 DEF IsAlone

\* The same of values.
LEMMA ValueWider ==
    ASSUME NEW s, NEW i, NEW j, NEW e, IsSpan(s, i, j), IsSpan(s, i, e), j <= e, Blank(s, j + 1, e),
           NEW t \in Said(s, "value", i, j)
    PROVE  t \in Said(s, "value", i, e)
<1>0. i \in Int /\ j \in Int /\ e \in Int
  BY DEF IsSpan
<1>1. IsLeafAt(s, i, j, t) => IsLeafAt(s, i, e, t)
  BY <1>0, AloneWider DEF IsLeafAt
<1>2. ASSUME NEW l, NEW r, NEW o, NEW c, AreAround(s, i, j, l, r, o, c)
      PROVE  AreAround(s, i, e, l, r, o, c)
  <2>1. /\ o \in i .. j /\ c \in i .. j /\ o < c /\ s[o] = l /\ s[c] = r
        /\ Blank(s, i, o - 1) /\ Blank(s, c + 1, j)
    BY <1>2 DEF AreAround
  <2>2. o \in i .. e /\ c \in i .. e
    BY <1>0, <2>1
  <2>3. \A k \in c + 1 .. e : k \in c + 1 .. j \/ k \in j + 1 .. e
    BY <1>0, <2>1
  <2>4. Blank(s, c + 1, e)
    BY <2>1, <2>3 DEF Blank
  <2> QED
    BY <2>1, <2>2, <2>4 DEF AreAround
<1>3. IsArrayAt(s, i, j, t) => IsArrayAt(s, i, e, t)
  BY <1>2 DEF IsArrayAt
<1>4. IsObjectAt(s, i, j, t) => IsObjectAt(s, i, e, t)
  BY <1>2 DEF IsObjectAt
<1> QED
  BY <1>1, <1>3, <1>4, ValuesAre

\* A container at q with a list of children.
Built(s, node, q, kind, list) ==
    /\ q \in 1 .. Len(s) /\ AnySeq(list)
    /\ \/ kind = "values" /\ node = Array(list) /\ s[q] = "["
       \/ kind = "members" /\ node = ObjectOf(list) /\ s[q] = "{"

\* It has been read with a comma behind each child, and the next begins at a.
Begun(s, node, q, a) ==
    \E kind, list :
       /\ Built(s, node, q, kind, list)
       /\ \/ list = <<>> /\ a = q + 1
          \/ /\ list # <<>> /\ a \in q + 2 .. Len(s) + 1 /\ s[a - 1] = ","
             /\ list \in Said(s, kind, q + 1, a - 2)

\* The frame of a container at q waits for a value at b.
Waiting(s, fr, q, b) ==
    \E a : /\ Begun(s, fr.node, q, a)
           /\ \/ fr.name = "none" /\ b = a
              \/ /\ fr.name \in Strings
                 /\ b \in a + 2 .. Len(s) + 1 /\ s[b - 1] = ":"
                 /\ \E n : IsAlone(s, a, b - 2, Strings, n) /\ s[n] = fr.name

\* The loop of a container at q is at e: behind a child, or the bracket.
Looping(s, fr, q, e) ==
    \E kind, list :
       /\ Built(s, fr.node, q, kind, list)
       /\ e \in q + 1 .. Len(s) + 1
       /\ list \in Said(s, kind, q + 1, e - 1)
       /\ fr.comma => list # <<>>
       /\ ~fr.comma => list = <<>> /\ e = q + 1

\* Frames that wait, each for the next, the last for a value at x.
Waits(s, st, x) ==
    \E q, b \in [Nat -> Nat] :
       /\ b[0] = 1 /\ b[Len(st)] = x
       /\ \A k \in 1 .. Len(st) : /\ b[k - 1] <= q[k] /\ Blank(s, b[k - 1], q[k] - 1)
                                  /\ Waiting(s, st[k], q[k], b[k])

\* No frame waits: the value begins the text.
LEMMA NoneWait == \A s, x : Waits(s, <<>>, x) <=> x = 1
<1>1. ASSUME NEW s, NEW x, Waits(s, <<>>, x) PROVE x = 1
  BY <1>1 DEF Waits
<1>2. ASSUME NEW s PROVE Waits(s, <<>>, 1)
  <2> DEFINE b == [k \in Nat |-> 1]
  <2>1. b \in [Nat -> Nat] /\ b[0] = 1 /\ b[Len(<<>>)] = 1 /\ \A k \in 1 .. Len(<<>>) : FALSE
    OBVIOUS
  <2> HIDE DEF b
  <2> QED
    BY <2>1 DEF Waits
<1> QED
  BY <1>1, <1>2

\* Where a frame waits.
LEMMA WaitingType ==
    ASSUME NEW s, Len(s) \in Nat, NEW fr, NEW q, NEW b, Waiting(s, fr, q, b)
    PROVE  q \in 1 .. Len(s) /\ b \in q + 1 .. Len(s) + 1
<1>1. PICK a : /\ Begun(s, fr.node, q, a)
               /\ b = a \/ b \in a + 2 .. Len(s) + 1
  BY DEF Waiting
<1>2. q \in 1 .. Len(s) /\ (a = q + 1 \/ a \in q + 2 .. Len(s) + 1)
  BY <1>1 DEF Begun, Built
<1>3. a \in q + 1 .. Len(s) + 1
  BY <1>2
<1> QED
  BY <1>1, <1>2, <1>3

\* All but the last element.
LEMMA FrontIs ==
    ASSUME NEW S, NEW q \in Seq(S), q # <<>>
    PROVE  /\ Front(q) \in Seq(S) /\ Len(q) \in Nat \ {0} /\ Len(Front(q)) = Len(q) - 1
           /\ \A i \in 1 .. Len(q) - 1 : Front(q)[i] = q[i]
<1>1. Len(q) \in Nat \ {0} /\ Front(q) = SubSeq(q, 1, Len(q) - 1)
  BY DEF Front
<1> DEFINE n == Len(q) - 1
           less == SubSeq(q, 1, n)
<1>2. n \in Nat /\ 1 \in Int /\ n \in Int /\ \A i \in 1 .. n : q[i] \in S
  BY <1>1
<1> HIDE DEF n
<1>3. /\ less \in Seq(S) /\ Len(less) = IF 1 <= n THEN n - 1 + 1 ELSE 0
      /\ \A i \in 1 .. n - 1 + 1 : less[i] = q[1 + i - 1]
  BY <1>2, SubSeqProperties
<1> HIDE DEF less
<1>4. less \in Seq(S) /\ Len(less) = n /\ \A i \in 1 .. n : less[i] = q[i]
  BY <1>2, <1>3
<1> QED
  BY <1>1, <1>4 DEF less, n

\* The last frame waits with the frames under it.
LEMMA TopWaits ==
    ASSUME NEW s, Len(s) \in Nat, NEW st, IsStack(st), st # <<>>, NEW y
    PROVE  Waits(s, st, y)
             <=> \E x, q : /\ Waits(s, Front(st), x) /\ x <= q /\ Blank(s, x, q - 1)
                           /\ Waiting(s, st[Len(st)], q, y)
<1> DEFINE n == Len(st)
<1>1. /\ n \in Nat \ {0} /\ Len(Front(st)) = n - 1
      /\ \A k \in 1 .. n - 1 : Front(st)[k] = st[k]
  <2>1. PICK S : st \in Seq(S) /\ \A f \in S : IsFrame(f)
    BY DEF IsStack
  <2> QED
    BY <2>1, FrontIs
<1>2. ASSUME Waits(s, st, y)
      PROVE  \E x, q : /\ Waits(s, Front(st), x) /\ x <= q /\ Blank(s, x, q - 1)
                       /\ Waiting(s, st[n], q, y)
  <2>1. PICK q \in [Nat -> Nat], b \in [Nat -> Nat] :
           /\ b[0] = 1 /\ b[n] = y
           /\ \A k \in 1 .. n : /\ b[k - 1] <= q[k] /\ Blank(s, b[k - 1], q[k] - 1)
                                /\ Waiting(s, st[k], q[k], b[k])
    BY <1>2 DEF Waits
  <2> HIDE DEF n
  <2>2. Waits(s, Front(st), b[n - 1])
    <3>1. \A k \in 1 .. n - 1 : k \in 1 .. n /\ Front(st)[k] = st[k]
      BY <1>1
    <3>2. \A k \in 1 .. n - 1 : /\ b[k - 1] <= q[k] /\ Blank(s, b[k - 1], q[k] - 1)
                                /\ Waiting(s, Front(st)[k], q[k], b[k])
      BY <2>1, <3>1
    <3> QED
      BY <1>1, <2>1, <3>2 DEF Waits
  <2>3. n \in 1 .. n
    BY <1>1
  <2> QED
    BY <2>1, <2>2, <2>3
<1>3. ASSUME NEW x, NEW p, Waits(s, Front(st), x), x <= p, Blank(s, x, p - 1), Waiting(s, st[n], p, y)
      PROVE  Waits(s, st, y)
  <2> HIDE DEF n
  <2>1. PICK q \in [Nat -> Nat], b \in [Nat -> Nat] :
           /\ b[0] = 1 /\ b[n - 1] = x
           /\ \A k \in 1 .. n - 1 : /\ b[k - 1] <= q[k] /\ Blank(s, b[k - 1], q[k] - 1)
                                    /\ Waiting(s, Front(st)[k], q[k], b[k])
    BY <1>1, <1>3 DEF Waits
  <2>2. p \in Nat /\ y \in Nat
    <3>1. p \in 1 .. Len(s) /\ y \in p + 1 .. Len(s) + 1
      BY <1>3, WaitingType
    <3> QED
      BY <3>1
  <2> DEFINE r == [q EXCEPT ![n] = p]
             c == [b EXCEPT ![n] = y]
  <2>3. /\ r \in [Nat -> Nat] /\ c \in [Nat -> Nat] /\ r[n] = p /\ c[n] = y
        /\ \A k \in Nat : k # n => r[k] = q[k] /\ c[k] = b[k]
    BY <1>1, <2>2
  <2> HIDE DEF r, c
  <2>4. c[0] = 1 /\ c[n - 1] = x
    BY <1>1, <2>1, <2>3
  <2>5. ASSUME NEW k \in 1 .. n
        PROVE  /\ c[k - 1] <= r[k] /\ Blank(s, c[k - 1], r[k] - 1)
               /\ Waiting(s, st[k], r[k], c[k])
    <3>1. CASE k = n
      BY <1>3, <2>3, <2>4, <3>1
    <3>2. CASE k # n
      <4>1. k \in 1 .. n - 1 /\ k \in Nat /\ k - 1 \in Nat /\ k - 1 # n
        BY <1>1, <3>2
      <4>2. r[k] = q[k] /\ c[k] = b[k] /\ c[k - 1] = b[k - 1] /\ Front(st)[k] = st[k]
        BY <1>1, <2>3, <3>2, <4>1
      <4> QED
        BY <2>1, <4>1, <4>2
    <3> QED
      BY <3>1, <3>2
  <2> QED
    BY <2>3, <2>4, <2>5 DEF Waits, n
<1> QED
  BY <1>2, <1>3

\* A frame pushed ...
LEMMA FrontOfAppend ==
    ASSUME NEW S, NEW q \in Seq(S), NEW x \in S
    PROVE  Front(Append(q, x)) = q /\ Append(q, x)[Len(Append(q, x))] = x /\ Append(q, x) # <<>>
<1> DEFINE more == Append(q, x)
<1>1. /\ more \in Seq(S) /\ Len(more) = Len(q) + 1 /\ Len(q) \in Nat /\ more # <<>>
      /\ more[Len(q) + 1] = x /\ \A i \in 1 .. Len(q) : more[i] = q[i]
  OBVIOUS
<1> HIDE DEF more
<1>2. /\ Front(more) \in Seq(S) /\ Len(Front(more)) = Len(q)
      /\ \A i \in 1 .. Len(q) : Front(more)[i] = more[i]
  <2>1. Len(more) - 1 = Len(q)
    BY <1>1
  <2> QED
    BY <1>1, <2>1, FrontIs
<1>3. Front(more) = q
  BY <1>1, <1>2, SeqEqual
<1> QED
  BY <1>1, <1>3 DEF more

\* ... and one replaced.
LEMMA FrontOfExcept ==
    ASSUME NEW S, NEW q \in Seq(S), q # <<>>, NEW x \in S
    PROVE  LET new == [q EXCEPT ![Len(q)] = x]
           IN  Front(new) = Front(q) /\ new[Len(new)] = x /\ new # <<>>
<1> DEFINE new == [q EXCEPT ![Len(q)] = x]
           n == Len(q)
<1>1. n \in Nat \ {0} /\ new \in Seq(S) /\ Len(new) = n
  OBVIOUS
<1>2. new[n] = x /\ \A i \in 1 .. n - 1 : new[i] = q[i]
  OBVIOUS
<1>3. new # <<>>
  BY <1>1
<1> HIDE DEF new
<1>4. /\ Front(new) \in Seq(S) /\ Len(Front(new)) = n - 1
      /\ \A i \in 1 .. n - 1 : Front(new)[i] = new[i]
  BY <1>1, <1>3, FrontIs
<1>5. /\ Front(q) \in Seq(S) /\ Len(Front(q)) = n - 1
      /\ \A i \in 1 .. n - 1 : Front(q)[i] = q[i]
  BY FrontIs
<1>6. Front(new) = Front(q)
  BY <1>2, <1>4, <1>5, SeqEqual
<1> QED
  BY <1>1, <1>2, <1>3, <1>6 DEF new

\* One more child is listed.
LEMMA ListGrows ==
    ASSUME NEW s, Len(s) \in Nat, NEW q \in 1 .. Len(s), NEW one, NEW kind, AreListed(one, kind),
           NEW list, NEW a,
           \/ list = <<>> /\ a = q + 1
           \/ /\ list # <<>> /\ a \in q + 2 .. Len(s) + 1 /\ s[a - 1] = ","
              /\ list \in Said(s, kind, q + 1, a - 2),
           NEW e \in a .. Len(s) + 1, NEW t \in Said(s, one, a, e - 1)
    PROVE  Append(list, t) \in Said(s, kind, q + 1, e - 1)
<1>0. /\ a = q + 1 \/ a \in q + 2 .. Len(s) + 1
      /\ q \in 1 .. Len(s) /\ Len(s) \in Nat /\ e \in a .. Len(s) + 1
  OBVIOUS
<1>1. a \in q + 1 .. Len(s) + 1 /\ e \in Int /\ IsSpan(s, q + 1, e - 1)
  BY ONLY <1>0 DEF IsSpan
<1>2. CASE list = <<>> /\ a = q + 1
  <2>1. Append(list, t) = <<t>>
    BY <1>2
  <2> QED
    BY <1>1, <1>2, <2>1, ListsAre
<1>3. CASE /\ list # <<>> /\ a \in q + 2 .. Len(s) + 1 /\ s[a - 1] = ","
           /\ list \in Said(s, kind, q + 1, a - 2)
  <2> DEFINE c == a - 1
  <2>1. c \in q + 1 .. e - 1 /\ c - 1 = a - 2 /\ c + 1 = a
    <3>1. a \in q + 2 .. Len(s) + 1
      BY <1>3
    <3> QED
      BY ONLY <1>0, <3>1
  <2> HIDE DEF c
  <2>2. s[c] = "," /\ list \in Said(s, kind, q + 1, c - 1) /\ t \in Said(s, one, c + 1, e - 1)
    BY <1>3, <2>1 DEF c
  <2>3. IsLonger(s, one, kind, q + 1, e - 1, Append(list, t))
    BY <1>3, <2>1, <2>2 DEF IsLonger
  <2> QED
    BY <1>1, <2>3, ListsAre
<1> QED
  BY <1>2, <1>3

\* The type of a container tells the kind of its children.
LEMMA BuiltKind ==
    ASSUME NEW s, NEW node, NEW q, NEW kind, NEW list, Built(s, node, q, kind, list)
    PROVE  /\ node[1] = "array" <=> kind = "values"
           /\ node[1] = "object" <=> kind = "members"
           /\ kind = "values" => node[2] = list
<1>1. \A mems : ObjectOf(mems)[1] = "object"
  BY DEF ObjectOf, Object
<1>2. Array(list)[1] = "array" /\ Array(list)[2] = list
  BY DEF Array
<1> QED
  BY <1>1, <1>2 DEF Built

\* ReturnItem reads a child of an array ...
LEMMA ItemRead ==
    ASSUME NEW s, Len(s) \in Nat, NEW fr, NEW q, NEW x, Waiting(s, fr, q, x),
           fr.node[1] = "array", fr.name = "none",
           NEW e \in x .. Len(s) + 1, NEW t \in Said(s, "value", x, e - 1),
           NEW f, f.node = WithItem(fr.node, t), f.comma
    PROVE  Looping(s, f, q, e)
<1>1. Begun(s, fr.node, q, x)
  BY StringsAssumption DEF Waiting
<1>2. PICK kind, list :
         /\ Built(s, fr.node, q, kind, list)
         /\ \/ list = <<>> /\ x = q + 1
            \/ /\ list # <<>> /\ x \in q + 2 .. Len(s) + 1 /\ s[x - 1] = ","
               /\ list \in Said(s, kind, q + 1, x - 2)
  BY <1>1 DEF Begun
<1>3. kind = "values" /\ fr.node[2] = list /\ q \in 1 .. Len(s) /\ AnySeq(list) /\ s[q] = "["
  <2>1. Built(s, fr.node, q, kind, list)
    BY <1>2
  <2>2. kind = "values" /\ fr.node[2] = list
    BY <2>1, BuiltKind
  <2> QED
    BY <2>1, <2>2 DEF Built
<1>4. Append(list, t) \in Said(s, "values", q + 1, e - 1)
  BY <1>2, <1>3, ListGrows DEF AreListed
<1>5. f.node = Array(Append(list, t)) /\ AnySeq(Append(list, t)) /\ Append(list, t) # <<>>
  BY <1>3, AppendIs DEF WithItem
<1>6. Built(s, f.node, q, "values", Append(list, t))
  BY <1>3, <1>5 DEF Built
<1>7. e \in q + 1 .. Len(s) + 1
  <2>1. x \in q + 1 .. Len(s) + 1 /\ e \in x .. Len(s) + 1
    BY WaitingType
  <2> QED
    BY ONLY <1>3, <2>1, Len(s) \in Nat
<1> QED
  BY <1>4, <1>5, <1>6, <1>7 DEF Looping

\* ... ReturnName the name of a member ...
LEMMA NameRead ==
    ASSUME NEW s, Len(s) \in Nat, NEW fr, NEW q, NEW x, Waiting(s, fr, q, x), fr.name = "none",
           NEW e \in x .. Len(s), NEW t \in Said(s, "value", x, e - 1), t[1] \in Strings, s[e] = ":",
           NEW f, f.node = fr.node, f.name = t[1]
    PROVE  Waiting(s, f, q, e + 1)
<1>1. Begun(s, fr.node, q, x)
  BY StringsAssumption DEF Waiting
<1>2. q \in 1 .. Len(s) /\ x \in q + 1 .. Len(s) + 1
  BY WaitingType
<1>3. IsSpan(s, x, e - 1)
  BY <1>2 DEF IsSpan
<1>4. ~IsArrayAt(s, x, e - 1, t) /\ ~IsObjectAt(s, x, e - 1, t)
  <2>1. "array" \notin Strings /\ "object" \notin Strings
    BY StringsAssumption
  <2>2. \A kids : Array(kids)[1] = "array" /\ ObjectOf(kids)[1] = "object"
    BY DEF Array, ObjectOf, Object
  <2> QED
    BY <2>1, <2>2 DEF IsArrayAt, IsObjectAt
<1>5. PICK n : IsAlone(s, x, e - 1, Leaves, n) /\ t = Leaf(s[n])
  BY <1>3, <1>4, ValuesAre DEF IsLeafAt
<1>6. s[n] = t[1] /\ n \in x .. e - 1 /\ IsAlone(s, x, e - 1, Strings, n)
  BY <1>5 DEF Leaf, IsAlone
<1> DEFINE b == e + 1
<1>7. b \in x + 2 .. Len(s) + 1 /\ b - 1 = e /\ b - 2 = e - 1
  BY <1>2, <1>6
<1> HIDE DEF b
<1>8. Waiting(s, f, q, b)
  BY <1>1, <1>6, <1>7 DEF Waiting
<1> QED
  BY <1>8 DEF b

\* ... and ReturnMember the member.
LEMMA MemberRead ==
    ASSUME NEW s, Len(s) \in Nat, NEW fr, NEW q, NEW x, Waiting(s, fr, q, x),
           fr.node[1] = "object", fr.name # "none",
           NEW e \in x .. Len(s) + 1, NEW t \in Said(s, "value", x, e - 1),
           NEW f, f.node = WithMember(fr.node, fr.name, t), f.comma
    PROVE  Looping(s, f, q, e)
<1>1. PICK a, n : /\ Begun(s, fr.node, q, a)
                  /\ x \in a + 2 .. Len(s) + 1 /\ s[x - 1] = ":"
                  /\ IsAlone(s, a, x - 2, Strings, n) /\ s[n] = fr.name
  BY DEF Waiting
<1>2. PICK kind, list :
         /\ Built(s, fr.node, q, kind, list)
         /\ \/ list = <<>> /\ a = q + 1
            \/ /\ list # <<>> /\ a \in q + 2 .. Len(s) + 1 /\ s[a - 1] = ","
               /\ list \in Said(s, kind, q + 1, a - 2)
  BY <1>1 DEF Begun
<1>3. kind = "members" /\ fr.node = ObjectOf(list) /\ s[q] = "{"
  <2>1. Built(s, fr.node, q, kind, list)
    BY <1>2
  <2>2. kind = "members"
    BY <2>1, BuiltKind
  <2> QED
    BY <2>1, <2>2 DEF Built
<1>10. AnySeq(list)
  BY <1>2 DEF Built
<1>11. q \in 1 .. Len(s)
  BY <1>2 DEF Built
<1>4. /\ a \in q + 1 .. Len(s) + 1 /\ x \in a + 2 .. Len(s) + 1 /\ e \in x .. Len(s) + 1
      /\ Len(s) \in Nat
  <2>1. a = q + 1 \/ a \in q + 2 .. Len(s) + 1
    BY <1>2
  <2>2. x \in a + 2 .. Len(s) + 1 /\ e \in x .. Len(s) + 1 /\ Len(s) \in Nat /\ q \in 1 .. Len(s)
    BY <1>1, <1>11
  <2> QED
    BY ONLY <2>1, <2>2
<1> DEFINE m == <<fr.name, t>>
<1>5. m \in Said(s, "member", a, e - 1)
  <2>1. IsSpan(s, a, e - 1)
    BY ONLY <1>11, <1>4 DEF IsSpan
  <2> DEFINE c == x - 1
  <2>2. c \in a .. e - 1 /\ c - 1 = x - 2 /\ c + 1 = x
    BY ONLY <1>11, <1>4
  <2> HIDE DEF c
  <2>3. /\ s[c] = ":" /\ IsAlone(s, a, c - 1, Strings, n)
        /\ t \in Said(s, "value", c + 1, e - 1) /\ m = <<s[n], t>>
    BY <1>1, <2>2 DEF c
  <2>4. IsMemberAt(s, a, e - 1, m)
    BY <2>2, <2>3 DEF IsMemberAt
  <2> QED
    BY <2>1, <2>4, MembersAre
<1>6. Append(list, m) \in Said(s, "members", q + 1, e - 1)
  <2>1. e \in a .. Len(s) + 1
    BY ONLY <1>11, <1>4
  <2> QED
    BY <1>2, <1>3, <1>5, <1>11, <2>1, ListGrows DEF AreListed
<1>7. f.node = ObjectOf(Append(list, m)) /\ AnySeq(Append(list, m)) /\ Append(list, m) # <<>>
  <2>1. ObjectOf(Append(list, m)) = WithMember(ObjectOf(list), fr.name, t)
    BY <1>10, ObjectOfAppend
  <2> HIDE DEF m
  <2>2. AnySeq(Append(list, m)) /\ Append(list, m) # <<>>
    BY <1>10, AppendIs
  <2> QED
    BY <1>3, <2>1, <2>2
<1>8. Built(s, f.node, q, "members", Append(list, m))
  BY <1>3, <1>7, <1>11 DEF Built
<1>9. e \in q + 1 .. Len(s) + 1
  BY ONLY <1>11, <1>4
<1> QED
  BY <1>6, <1>7, <1>8, <1>9 DEF Looping

\* CloseContainer ends a value ...
LEMMA ContainerRead ==
    ASSUME NEW s, Len(s) \in Nat, NEW fr, NEW q, NEW e \in 1 .. Len(s), Looping(s, fr, q, e),
           s[e] = IF fr.node[1] = "array" THEN "]" ELSE "}",
           NEW x \in 1 .. q, Blank(s, x, q - 1)
    PROVE  fr.node \in Said(s, "value", x, e)
<1>1. PICK kind, list : /\ Built(s, fr.node, q, kind, list)
                        /\ e \in q + 1 .. Len(s) + 1
                        /\ list \in Said(s, kind, q + 1, e - 1)
  BY DEF Looping
<1>2. q \in 1 .. Len(s) /\ e \in q + 1 .. Len(s) + 1 /\ e \in 1 .. Len(s) /\ x \in 1 .. q /\ Len(s) \in Nat
  BY <1>1 DEF Built
<1>3. q \in x .. e /\ e \in x .. e /\ q < e /\ IsSpan(s, x, e)
  BY ONLY <1>2 DEF IsSpan
<1>4. Blank(s, e + 1, e)
  <2>1. ~\E k : k \in e + 1 .. e
    BY ONLY <1>2
  <2> QED
    BY <2>1 DEF Blank
<1>5. CASE kind = "values"
  <2>1. fr.node = Array(list) /\ s[q] = "[" /\ s[e] = "]"
    BY <1>1, <1>5, BuiltKind DEF Built
  <2>2. AreAround(s, x, e, "[", "]", q, e)
    BY <1>3, <1>4, <2>1 DEF AreAround
  <2>3. IsArrayAt(s, x, e, fr.node)
    BY <1>1, <1>5, <2>1, <2>2 DEF IsArrayAt
  <2> QED
    BY <1>3, <2>3, ValuesAre
<1>6. CASE kind = "members"
  <2>1. fr.node = ObjectOf(list) /\ s[q] = "{" /\ s[e] = "}"
    BY <1>1, <1>6, BuiltKind DEF Built
  <2>2. AreAround(s, x, e, "{", "}", q, e)
    BY <1>3, <1>4, <2>1 DEF AreAround
  <2>3. IsObjectAt(s, x, e, fr.node)
    BY <1>1, <1>6, <2>1, <2>2 DEF IsObjectAt
  <2> QED
    BY <1>3, <2>3, ValuesAre
<1> QED
  BY <1>1, <1>5, <1>6 DEF Built

\* ... Comma a child ...
LEMMA CommaRead ==
    ASSUME NEW s, Len(s) \in Nat, NEW fr, NEW q, NEW e \in 1 .. Len(s), Looping(s, fr, q, e),
           fr.comma, s[e] = ",",
           NEW f, f.node = fr.node, f.name = "none"
    PROVE  Waiting(s, f, q, e + 1)
<1>1. PICK kind, list : /\ Built(s, fr.node, q, kind, list)
                        /\ e \in q + 1 .. Len(s) + 1
                        /\ list \in Said(s, kind, q + 1, e - 1)
                        /\ list # <<>>
  BY DEF Looping
<1> DEFINE a == e + 1
<1>2. q \in 1 .. Len(s)
  BY <1>1 DEF Built
<1>3. a \in q + 2 .. Len(s) + 1 /\ a - 1 = e /\ a - 2 = e - 1
  <2>1. e \in q + 1 .. Len(s) + 1 /\ e \in 1 .. Len(s) /\ Len(s) \in Nat
    BY <1>1
  <2> QED
    BY ONLY <1>2, <2>1
<1> HIDE DEF a
<1>4. Begun(s, fr.node, q, a)
  BY <1>1, <1>3 DEF Begun
<1>5. Waiting(s, f, q, a)
  BY <1>4 DEF Waiting
<1> QED
  BY <1>5 DEF a

\* ... and nothing comes before the first.
LEMMA NothingRead ==
    ASSUME NEW s, NEW fr, NEW q, NEW e, Looping(s, fr, q, e), ~fr.comma,
           NEW f, f.node = fr.node, f.name = "none"
    PROVE  Waiting(s, f, q, e)
<1>1. PICK kind, list : Built(s, fr.node, q, kind, list) /\ list = <<>> /\ e = q + 1
  BY DEF Looping
<1>2. Begun(s, fr.node, q, e)
  BY <1>1 DEF Begun
<1> QED
  BY <1>2 DEF Waiting

\* No members.
LEMMA NoFirsts == Firsts(<<>>) = {}
<1>1. AnySeq(<<>>) /\ Len(<<>>) = 0
  <2>1. <<>> \in Seq({}) /\ Len(<<>>) = 0
    BY EmptySeq
  <2> QED
    BY <2>1 DEF AnySeq
<1>2. DOMAIN <<>> = 1 .. 0
  BY <1>1, AnySeqIs
<1>3. \A i : i \notin 1 .. 0
  OBVIOUS
<1>4. \A i : i \notin Firsts(<<>>)
  BY <1>2, <1>3, Zenon DEF Firsts
<1> QED
  BY <1>4

\* OpenContainer begins a container.
LEMMA BracketRead ==
    ASSUME NEW s, Len(s) \in Nat, NEW q \in 1 .. Len(s), NEW f, ~f.comma,
           \/ s[q] = "[" /\ f.node = Array(<<>>)
           \/ s[q] = "{" /\ f.node = Object(<<>>)
    PROVE  Looping(s, f, q, q + 1)
<1>1. AnySeq(<<>>)
  <2>1. <<>> \in Seq({})
    BY EmptySeq
  <2> QED
    BY <2>1 DEF AnySeq
<1>2. ObjectOf(<<>>) = Object(<<>>)
  <2>1. Firsts(<<>>) = {}
    BY NoFirsts
  <2>2. Len(KidsOf(<<>>)) = 0 /\ AnySeq(KidsOf(<<>>))
    BY <1>1, <2>1, KidsAre, FS_EmptySet
  <2>3. KidsOf(<<>>) = <<>>
    <3>1. PICK S : KidsOf(<<>>) \in Seq(S)
      BY <2>2 DEF AnySeq
    <3>2. \A seq \in Seq(S) : seq # <<>> => Len(seq) \in Nat \ {0}
      BY EmptySeq
    <3> QED
      BY <2>2, <3>1, <3>2
  <2> QED
    BY <1>1, <2>3, KidsAre
<1>3. \E kind \in {"values", "members"} : Built(s, f.node, q, kind, <<>>)
  BY <1>1, <1>2 DEF Built
<1> DEFINE e == q + 1
<1>4. e \in q + 1 .. Len(s) + 1 /\ IsSpan(s, q + 1, e - 1)
  BY ONLY q \in 1 .. Len(s), Len(s) \in Nat DEF IsSpan
<1>5. Blank(s, q + 1, e - 1)
  <2>1. ~\E k : k \in q + 1 .. e - 1
    BY ONLY q \in 1 .. Len(s), Len(s) \in Nat
  <2> QED
    BY <2>1 DEF Blank
<1> HIDE DEF e
<1>6. <<>> \in Said(s, "values", q + 1, e - 1) /\ <<>> \in Said(s, "members", q + 1, e - 1)
  BY <1>4, <1>5, ListsAre DEF AreListed
<1>7. Looping(s, f, q, e)
  BY <1>3, <1>4, <1>6 DEF Looping, e
<1> QED
  BY <1>7 DEF e

\* Where the last frame waits is in the text, or behind it.
LEMMA WaitsType ==
    ASSUME NEW s, Len(s) \in Nat, NEW st, IsStack(st), NEW x, Waits(s, st, x)
    PROVE  x \in 1 .. Len(s) + 1
<1>1. CASE st = <<>>
  <2>1. x = 1
    BY <1>1, NoneWait
  <2> QED
    BY <2>1
<1>2. CASE st # <<>>
  <2>1. PICK q : Waiting(s, st[Len(st)], q, x)
    BY <1>2, TopWaits
  <2>2. q \in 1 .. Len(s) /\ x \in q + 1 .. Len(s) + 1
    BY <2>1, WaitingType
  <2> QED
    BY <2>2
<1> QED
  BY <1>1, <1>2

\* Where the parser is at e with v, frames wait, and v has been read.
SoundAt(s, p, st, e, v) ==
    /\ p = "value" => \E x : Waits(s, st, x) /\ x <= e /\ Blank(s, x, e - 1)
    /\ p = "loop" => \E x, q : /\ Waits(s, Front(st), x) /\ x <= q /\ Blank(s, x, q - 1)
                               /\ Looping(s, st[Len(st)], q, e)
    /\ p \in {"return", "done"} => \E x : Waits(s, st, x) /\ x <= e /\ v \in Said(s, "value", x, e - 1)
    /\ p = "done" => st = <<>>

\* Without a call of the error function and failures.
Quiet == ~reported /\ failed = {} /\ NumbersApart
SoundInv == Quiet => SoundAt(text, pc, stack, pos, val)

\* SkipSpace reads one more space,
LEMMA SkipSpaceSound ==
    ASSUME PosInv, TreeInv, SoundAt(text, pc, stack, pos, val), SkipSpace
    PROVE  SoundAt(text, pc', stack', pos', val')
<1>1. pos \in 1 .. Len(text) /\ Len(text) \in Nat /\ text[pos] \in Spaces
  BY PeekIs DEF SkipSpace, Spaces, EndMarks
<1>2. pc = "value" /\ pc' = "value" /\ stack' = stack /\ pos' = pos + 1
  BY DEF SkipSpace
<1>3. PICK x : Waits(text, stack, x) /\ x <= pos /\ Blank(text, x, pos - 1)
  BY <1>2 DEF SoundAt
<1>4. x \in 1 .. Len(text) + 1
  BY <1>1, <1>3, WaitsType DEF TreeInv
<1>5. \A k \in x .. pos : k \in x .. pos - 1 \/ k = pos
  BY <1>1, <1>4
<1>6. x <= pos + 1 /\ (pos + 1) - 1 = pos
  BY <1>1, <1>3, <1>4
<1>7. Blank(text, x, (pos + 1) - 1)
  BY <1>1, <1>3, <1>5, <1>6 DEF Blank
<1> QED
  BY <1>2, <1>3, <1>6, <1>7 DEF SoundAt

\* ParseLeaf a value,
LEMMA LeafSound ==
    ASSUME PosInv, TreeInv, SoundAt(text, pc, stack, pos, val), ParseLeaf, NumbersApart
    PROVE  SoundAt(text, pc', stack', pos', val')
<1>1. pos \in 1 .. Len(text) /\ Len(text) \in Nat /\ Peek = text[pos] /\ text[pos] \in Leaves
  BY PeekIs, LeavesPlain DEF ParseLeaf
<1>2. pc = "value" /\ pc' = "return" /\ stack' = stack /\ pos' = LeafEnd /\ val' = Leaf(text[pos])
  BY <1>1 DEF ParseLeaf, Return
<1>3. LeafEnd = pos + 1
  <2>1. CASE Peek # "num"
    BY <2>1 DEF LeafEnd
  <2>2. CASE Peek = "num"
    <3> DEFINE n == NumberEnd(pos)
    <3>1. pos \in 1 .. Len(text) + 1
      BY <1>1
    <3>2. n \in pos .. Len(text) + 1 /\ (\A r \in pos .. n - 1 : text[r] = "num") /\ At(n) # "num"
      BY <3>1, NumberEndIs DEF PosInv
    <3> HIDE DEF n
    <3>3. n # pos
      BY <2>2, <3>2 DEF Peek
    <3>4. ASSUME n # pos + 1 PROVE FALSE
      <4>1. pos \in pos .. n - 1 /\ pos + 1 \in pos .. n - 1 /\ pos + 1 \in 2 .. Len(text)
            /\ (pos + 1) - 1 = pos
        BY <1>1, <3>2, <3>3, <3>4
      <4>2. {text[(pos + 1) - 1], text[pos + 1]} = {"num"}
        BY <3>2, <4>1
      <4> QED
        BY <4>1, <4>2 DEF NumbersApart
    <3> QED
      BY <2>2, <3>4 DEF LeafEnd, n
  <2> QED
    BY <2>1, <2>2
<1>4. PICK x : Waits(text, stack, x) /\ x <= pos /\ Blank(text, x, pos - 1)
  BY <1>2 DEF SoundAt
<1>5. x \in 1 .. Len(text) + 1
  BY <1>1, <1>4, WaitsType DEF TreeInv
<1>6. pos \in x .. pos /\ IsSpan(text, x, pos) /\ (pos + 1) - 1 = pos /\ x <= pos + 1
  BY <1>1, <1>4, <1>5 DEF IsSpan
<1>7. Blank(text, pos + 1, pos)
  <2>1. \A k : k \notin pos + 1 .. pos
    BY <1>1
  <2> QED
    BY <2>1 DEF Blank
<1>8. IsAlone(text, x, pos, Leaves, pos)
  BY <1>1, <1>4, <1>6, <1>7 DEF IsAlone
<1>9. val' \in Said(text, "value", x, pos)
  BY <1>2, <1>6, <1>8, ValuesAre DEF IsLeafAt
<1> QED
  BY <1>2, <1>3, <1>4, <1>6, <1>9 DEF SoundAt

\* OpenContainer a bracket.
LEMMA OpenSound ==
    ASSUME PosInv, TreeInv, SoundAt(text, pc, stack, pos, val), OpenContainer
    PROVE  SoundAt(text, pc', stack', pos', val')
<1> DEFINE node == IF Peek = "[" THEN Array(<<>>) ELSE Object(<<>>)
           f == Frame(node)
<1>1. pos \in 1 .. Len(text) /\ Len(text) \in Nat /\ Peek = text[pos] /\ text[pos] \in {"[", "{"}
  BY PeekIs DEF OpenContainer, EndMarks
<1>2. pc = "value" /\ pc' = "loop" /\ stack' = Append(stack, f) /\ pos' = pos + 1
  BY DEF OpenContainer
<1>3. ~f.comma /\ f.node = node
  BY DEF Frame
<1>4. Looping(text, f, pos, pos + 1)
  <2>1. \/ text[pos] = "[" /\ node = Array(<<>>)
        \/ text[pos] = "{" /\ node = Object(<<>>)
    BY <1>1
  <2> HIDE DEF f
  <2> QED
    BY <1>1, <1>3, <2>1, BracketRead
<1>5. PICK x : Waits(text, stack, x) /\ x <= pos /\ Blank(text, x, pos - 1)
  BY <1>2 DEF SoundAt
<1> HIDE DEF f
<1>6. Front(stack') = stack /\ stack'[Len(stack')] = f
  <2>1. PICK S : stack \in Seq(S)
    BY DEF TreeInv, IsStack
  <2>2. stack \in Seq(S \union {f}) /\ f \in S \union {f}
    BY <2>1
  <2> QED
    BY <1>2, <2>2, FrontOfAppend
<1> QED
  BY <1>2, <1>4, <1>5, <1>6 DEF SoundAt

\* The innermost frame is replaced.
LEMMA TopReplaced ==
    ASSUME TreeInv, stack # <<>>, NEW frame, stack' = WithTop(frame)
    PROVE  Front(stack') = Front(stack) /\ stack'[Len(stack')] = frame /\ stack' # <<>>
<1>1. PICK S : stack \in Seq(S)
  BY DEF TreeInv, IsStack
<1>2. stack \in Seq(S \union {frame}) /\ frame \in S \union {frame}
  BY <1>1
<1>3. stack' = [stack EXCEPT ![Len(stack)] = frame]
  BY DEF WithTop
<1> DEFINE new == [stack EXCEPT ![Len(stack)] = frame]
<1>4. Front(new) = Front(stack) /\ new[Len(new)] = frame /\ new # <<>>
  BY <1>2, FrontOfExcept
<1> HIDE DEF new
<1>5. stack' = new
  BY <1>3 DEF new
<1> QED
  BY <1>4, <1>5

\* CloseContainer reads a container,
LEMMA CloseSound ==
    ASSUME PosInv, TreeInv, SoundAt(text, pc, stack, pos, val), CloseContainer
    PROVE  SoundAt(text, pc', stack', pos', val')
<1>1. /\ pc = "loop" /\ pc' = "return" /\ stack' = Front(stack) /\ val' = Top.node
      /\ pos' = pos + 1 /\ Peek = IF InArray THEN "]" ELSE "}"
  BY DEF CloseContainer, Return
<1>2. stack # <<>>
  BY <1>1 DEF TreeInv, Placed
<1>3. pos \in 1 .. Len(text) /\ Len(text) \in Nat /\ text[pos] = IF Top.node[1] = "array" THEN "]" ELSE "}"
  BY <1>1, <1>2, PeekIs DEF InArray, EndMarks
<1>4. PICK x, q : /\ Waits(text, Front(stack), x) /\ x <= q /\ Blank(text, x, q - 1)
                  /\ Looping(text, Top, q, pos)
  BY <1>1 DEF SoundAt, Top
<1>5. q \in 1 .. Len(text) /\ pos \in q + 1 .. Len(text) + 1
  BY <1>4 DEF Looping, Built
<1>6. x \in 1 .. Len(text) + 1
  BY <1>2, <1>3, <1>4, TopIs, WaitsType
<1>7. x \in 1 .. q
  BY <1>4, <1>5, <1>6
<1>8. Top.node \in Said(text, "value", x, pos)
  BY <1>3, <1>4, <1>7, ContainerRead
<1>10. pos \in 1 .. Len(text) /\ Len(text) \in Nat
  BY <1>3
<1>9. (pos + 1) - 1 = pos /\ x <= pos + 1
  BY ONLY <1>5, <1>7, <1>10
<1> QED
  BY <1>1, <1>4, <1>8, <1>9 DEF SoundAt

\* and Comma and NextChild go on to a child.
LEMMA ChildSound ==
    ASSUME PosInv, TreeInv, TreeInv', SoundAt(text, pc, stack, pos, val), Comma \/ NextChild
    PROVE  SoundAt(text, pc', stack', pos', val')
<1>1. pc = "loop" /\ pc' = "value"
  BY DEF Comma, NextChild
<1>2. stack # <<>> /\ Top.name = "none"
  BY <1>1 DEF TreeInv, Placed, Top
<1>3. IsFrame(Top) /\ Len(text) \in Nat /\ IsStack(stack')
  BY <1>2, TopIs, PeekIs DEF TreeInv
<1>4. PICK x, q : /\ Waits(text, Front(stack), x) /\ x <= q /\ Blank(text, x, q - 1)
                  /\ Looping(text, Top, q, pos)
  BY <1>1 DEF SoundAt, Top
<1>5. PICK f : /\ stack' = WithTop(f) /\ f.node = Top.node /\ f.name = "none"
               /\ Waiting(text, f, q, pos')
  <2>1. CASE Comma
    <3>1. /\ stack' = WithTop([Top EXCEPT !.comma = FALSE, !.nul = FALSE]) /\ pos' = pos + 1
          /\ Top.comma /\ Peek = ","
      BY <2>1 DEF Comma
    <3>2. [Top EXCEPT !.comma = FALSE, !.nul = FALSE] = FrameOf(Top.node, FALSE, Top.name, FALSE)
      BY <1>3, FrameChanges
    <3> DEFINE f == FrameOf(Top.node, FALSE, Top.name, FALSE)
    <3>3. f.node = Top.node /\ f.name = "none"
      BY <1>2 DEF FrameOf
    <3> HIDE DEF f
    <3>4. pos \in 1 .. Len(text) /\ text[pos] = ","
      BY <3>1, PeekIs DEF EndMarks
    <3>5. Waiting(text, f, q, pos')
      BY <1>3, <1>4, <3>1, <3>3, <3>4, CommaRead
    <3> QED
      BY <3>1, <3>2, <3>3, <3>5 DEF f
  <2>2. CASE NextChild
    <3>1. stack' = WithTop([Top EXCEPT !.nul = (Peek = "NUL")]) /\ pos' = pos /\ ~Top.comma
      BY <2>2 DEF NextChild
    <3>5. \A n : [Top EXCEPT !.nul = n] = FrameOf(Top.node, Top.comma, Top.name, n)
      BY <1>3, FrameChanges
    <3> DEFINE f == FrameOf(Top.node, Top.comma, Top.name, (Peek = "NUL"))
    <3>2. [Top EXCEPT !.nul = (Peek = "NUL")] = f
      BY <3>5
    <3>3. f.node = Top.node /\ f.name = "none"
      BY <1>2 DEF FrameOf
    <3> HIDE DEF f
    <3>4. Waiting(text, f, q, pos')
      BY <1>4, <3>1, <3>3, NothingRead
    <3> QED
      BY <3>1, <3>2, <3>3, <3>4
  <2> QED
    BY <2>1, <2>2
<1>6. Front(stack') = Front(stack) /\ stack'[Len(stack')] = f /\ stack' # <<>>
  BY <1>2, <1>5, TopReplaced
<1>7. Waits(text, stack', pos')
  BY <1>3, <1>4, <1>5, <1>6, TopWaits
<1>8. pos' \in 1 .. Len(text) + 1
  BY <1>3, <1>7, WaitsType
<1>9. pos' <= pos' /\ \A k : k \notin pos' .. pos' - 1
  BY <1>8
<1>10. Blank(text, pos', pos' - 1)
  BY <1>9 DEF Blank
<1> QED
  BY <1>1, <1>7, <1>9, <1>10 DEF SoundAt

\* What a call returned to a container reaches to the end of the spaces.
LEMMA Returned ==
    ASSUME PosInv, TreeInv, SoundAt(text, pc, stack, pos, val), pc = "return", stack # <<>>
    PROVE  \E x, q, b : /\ Waits(text, Front(stack), x) /\ x <= q /\ Blank(text, x, q - 1)
                        /\ Waiting(text, Top, q, b)
                        /\ skipSpaces(pos) \in b .. Len(text) + 1
                        /\ val \in Said(text, "value", b, skipSpaces(pos) - 1)
                        /\ b <= pos /\ val \in Said(text, "value", b, pos - 1)
<1> DEFINE e == skipSpaces(pos)
<1>1. pos \in 1 .. Len(text) + 1 /\ Len(text) \in Nat
  BY PeekIs
<1>2. e \in pos .. Len(text) + 1 /\ \A r \in pos .. e - 1 : text[r] \in Spaces
  BY <1>1, skipSpacesIs DEF PosInv
<1> HIDE DEF e
<1>3. PICK b : Waits(text, stack, b) /\ b <= pos /\ val \in Said(text, "value", b, pos - 1)
  BY DEF SoundAt
<1>4. b \in 1 .. Len(text) + 1
  BY <1>1, <1>3, WaitsType DEF TreeInv
<1>5. /\ IsSpan(text, b, pos - 1) /\ IsSpan(text, b, e - 1) /\ pos - 1 <= e - 1
      /\ e \in b .. Len(text) + 1 /\ (pos - 1) + 1 = pos
  <2>1. pos \in 1 .. Len(text) + 1 /\ b \in 1 .. Len(text) + 1 /\ b <= pos
        /\ e \in pos .. Len(text) + 1 /\ Len(text) \in Nat
    BY <1>1, <1>2, <1>3, <1>4
  <2> QED
    BY ONLY <2>1 DEF IsSpan
<1>6. Blank(text, (pos - 1) + 1, e - 1)
  BY <1>2, <1>5 DEF Blank
<1>7. val \in Said(text, "value", b, e - 1)
  BY <1>3, <1>5, <1>6, ValueWider
<1>8. PICK x, q : /\ Waits(text, Front(stack), x) /\ x <= q /\ Blank(text, x, q - 1)
                  /\ Waiting(text, Top, q, b)
  BY <1>1, <1>3, TopWaits DEF TreeInv, Top
<1> QED
  BY <1>3, <1>5, <1>7, <1>8 DEF e

\* ReturnItem takes it, ...
LEMMA ItemSound ==
    ASSUME PosInv, TreeInv, SoundAt(text, pc, stack, pos, val), ReturnItem, val # NoNode
    PROVE  SoundAt(text, pc', stack', pos', val')
<1>1. /\ pc = "return" /\ stack # <<>> /\ Top.node[1] = "array" /\ pc' = "loop"
      /\ pos' = skipSpaces(pos)
      /\ stack' = WithTop([[Top EXCEPT !.node = WithItem(Top.node, val)] EXCEPT !.comma = TRUE])
  BY DEF ReturnItem, AfterChild, InArray
<1>2. IsFrame(Top) /\ Top.name = "none"
  BY <1>1, TopIs DEF IsFrame
<1>3. \A m : [[Top EXCEPT !.node = m] EXCEPT !.comma = TRUE] = FrameOf(m, TRUE, Top.name, Top.nul)
  BY <1>2, FrameChanges
<1> DEFINE f == FrameOf(WithItem(Top.node, val), TRUE, Top.name, Top.nul)
<1>4. f.node = WithItem(Top.node, val) /\ f.comma
  BY DEF FrameOf
<1>5. stack' = WithTop(f)
  BY <1>1, <1>3
<1> HIDE DEF f
<1>6. PICK x, q, b : /\ Waits(text, Front(stack), x) /\ x <= q /\ Blank(text, x, q - 1)
                     /\ Waiting(text, Top, q, b)
                     /\ pos' \in b .. Len(text) + 1
                     /\ val \in Said(text, "value", b, pos' - 1)
  BY <1>1, Returned
<1>7. Looping(text, f, q, pos')
  BY <1>1, <1>2, <1>4, <1>6, PeekIs, ItemRead
<1>8. Front(stack') = Front(stack) /\ stack'[Len(stack')] = f
  BY <1>1, <1>5, TopReplaced
<1> QED
  BY <1>1, <1>6, <1>7, <1>8 DEF SoundAt

\* ... ReturnMember takes it as the value of a member ...
LEMMA MemberSound ==
    ASSUME PosInv, TreeInv, SoundAt(text, pc, stack, pos, val), ReturnMember
    PROVE  SoundAt(text, pc', stack', pos', val')
<1> DEFINE node == WithMember(Top.node, Top.name, val)
           f == FrameOf(node, TRUE, "none", Top.nul)
<1>1. /\ pc = "return" /\ stack # <<>> /\ Top.node[1] = "object" /\ Top.name # "none"
      /\ pc' = "loop" /\ pos' = skipSpaces(pos)
      /\ stack' = WithTop([[Top EXCEPT !.node = node, !.name = "none"] EXCEPT !.comma = TRUE])
  BY DEF ReturnMember, AfterChild, InObject
<1>2. IsFrame(Top)
  BY <1>1, TopIs
<1>3. \A m : [[Top EXCEPT !.node = m, !.name = "none"] EXCEPT !.comma = TRUE]
               = FrameOf(m, TRUE, "none", Top.nul)
  BY <1>2, FrameChanges
<1>4. f.node = node /\ f.comma
  BY DEF FrameOf
<1>5. stack' = WithTop(f)
  BY <1>1, <1>3
<1> HIDE DEF f
<1>6. PICK x, q, b : /\ Waits(text, Front(stack), x) /\ x <= q /\ Blank(text, x, q - 1)
                     /\ Waiting(text, Top, q, b)
                     /\ pos' \in b .. Len(text) + 1
                     /\ val \in Said(text, "value", b, pos' - 1)
  BY <1>1, Returned
<1>7. Looping(text, f, q, pos')
  BY <1>1, <1>4, <1>6, PeekIs, MemberRead
<1>8. Front(stack') = Front(stack) /\ stack'[Len(stack')] = f
  BY <1>1, <1>5, TopReplaced
<1> QED
  BY <1>1, <1>6, <1>7, <1>8 DEF SoundAt

\* ... and ReturnName as its name.
LEMMA NameSound ==
    ASSUME PosInv, TreeInv, TreeInv', SoundAt(text, pc, stack, pos, val), ReturnName, pc' = "value"
    PROVE  SoundAt(text, pc', stack', pos', val')
<1> DEFINE e == skipSpaces(pos)
           f == FrameOf(Top.node, Top.comma, val[1], Top.nul)
<1>1. /\ pc = "return" /\ stack # <<>> /\ Top.name = "none"
      /\ val[1] \in Strings /\ pos' = e + 1 /\ At(e) = ":"
      /\ stack' = WithTop([Top EXCEPT !.name = val[1]])
  BY DEF ReturnName, InObject, FailContainer, ReturnError, Return
<1>2. IsFrame(Top) /\ Len(text) \in Nat /\ pos \in 1 .. Len(text) + 1 /\ IsStack(stack')
  BY <1>1, TopIs, PeekIs DEF TreeInv
<1>3. \A n : [Top EXCEPT !.name = n] = FrameOf(Top.node, Top.comma, n, Top.nul)
  BY <1>2, FrameChanges
<1>4. f.node = Top.node /\ f.name = val[1]
  BY DEF FrameOf
<1>5. stack' = WithTop(f)
  BY <1>1, <1>3
<1> HIDE DEF f
<1>6. PICK x, q, b : /\ Waits(text, Front(stack), x) /\ x <= q /\ Blank(text, x, q - 1)
                     /\ Waiting(text, Top, q, b)
                     /\ e \in b .. Len(text) + 1
                     /\ val \in Said(text, "value", b, e - 1)
  BY <1>1, Returned
<1>7. b \in 1 .. Len(text) + 1
  <2>1. q \in 1 .. Len(text) /\ b \in q + 1 .. Len(text) + 1
    BY <1>2, <1>6, WaitingType
  <2> QED
    BY ONLY <2>1, <1>2
<1> HIDE DEF e
<1>8. e \in b .. Len(text) /\ text[e] = ":"
  <2>1. e \in 1 .. Len(text) + 1
    BY ONLY <1>2, <1>6, <1>7
  <2>2. e \in 1 .. Len(text) /\ text[e] = ":"
    BY <1>1, <2>1, AfterText DEF EndMarks, PosInv
  <2> QED
    BY <1>6, <1>7, <2>2
<1>9. Waiting(text, f, q, pos')
  BY <1>1, <1>2, <1>4, <1>6, <1>8, NameRead
<1>10. Front(stack') = Front(stack) /\ stack'[Len(stack')] = f /\ stack' # <<>>
  BY <1>1, <1>5, TopReplaced
<1>11. Waits(text, stack', pos')
  BY <1>2, <1>6, <1>9, <1>10, TopWaits
<1>12. pos' \in 1 .. Len(text) + 1
  BY <1>2, <1>11, WaitsType
<1>13. pos' <= pos' /\ \A k : k \notin pos' .. pos' - 1
  BY <1>12
<1>14. Blank(text, pos', pos' - 1)
  BY <1>13 DEF Blank
<1> QED
  BY <1>11, <1>13, <1>14 DEF SoundAt

\* What was read without a call of the error function is JSON, at every step.
LEMMA SoundStep ==
    ASSUME PosInv, TreeInv, TreeInv', SoundInv, [Next]_vars
    PROVE  SoundInv'
<1>1. text' = text
  BY DEF Next, vars, input, SkipSpace, ParseLeaf, ParseLeafNoMemory, ParseLeafFails, OpenContainer,
         OpenNoMemory, CloseContainer, Comma, NextChild, LoopFails, ReturnItem, AppendNoMemory,
         ArrayEnds, ReturnName, ReturnMember, MemberFails, Finish
<1> SUFFICES ASSUME Quiet' PROVE SoundAt(text, pc', stack', pos', val')
  BY <1>1 DEF SoundInv
<1>2. ~reported' /\ failed' = {} /\ NumbersApart
  BY <1>1 DEF Quiet, NumbersApart
<1>3. ~ParseLeafNoMemory /\ ~ParseLeafFails /\ ~OpenNoMemory /\ ~LoopFails /\ ~AppendNoMemory
      /\ ~ArrayEnds /\ ~MemberFails
  BY <1>2 DEF ParseLeafNoMemory, ParseLeafFails, OpenNoMemory, LoopFails, AppendNoMemory, ArrayEnds,
              MemberFails, FailContainer, ReturnError
<1>4. ReturnName => pc' = "value"
  BY <1>2 DEF ReturnName, FailContainer, ReturnError
<1>5. \/ SkipSpace \/ ParseLeaf \/ OpenContainer \/ CloseContainer \/ Comma \/ NextChild
      \/ ReturnItem \/ ReturnName \/ ReturnMember \/ Finish \/ UNCHANGED vars
  BY <1>3 DEF Next
<1>6. reported' = reported /\ failed' = failed
  BY <1>2, <1>4, <1>5 DEF vars, SkipSpace, ParseLeaf, OpenContainer, CloseContainer, Comma, NextChild,
         ReturnItem, ReturnName, ReturnMember, Finish, AfterChild, FailContainer, ReturnError, Return
<1>7. SoundAt(text, pc, stack, pos, val)
  BY <1>2, <1>6 DEF SoundInv, Quiet
<1>8. CASE ReturnItem
  <2>1. val # NoNode
    BY <1>2, <1>6, <1>8 DEF TreeInv, Explained, ReturnItem
  <2> QED
    BY <1>7, <1>8, <2>1, ItemSound
<1>9. CASE Finish
  <2>1. pc = "return" /\ pc' = "done" /\ stack = <<>> /\ stack' = stack /\ pos' = pos /\ val' = val
    BY <1>9 DEF Finish
  <2> QED
    BY <1>7, <2>1 DEF SoundAt
<1>10. CASE UNCHANGED vars
  BY <1>7, <1>10 DEF vars
<1> QED
  BY <1>2, <1>4, <1>5, <1>7, <1>8, <1>9, <1>10, SkipSpaceSound, LeafSound, OpenSound, CloseSound,
     ChildSound, NameSound, MemberSound

\* Nothing is read at the beginning.
LEMMA SoundInit == Init => SoundInv
<1> SUFFICES ASSUME Init PROVE SoundInv
  OBVIOUS
<1>1. pc = "value" /\ stack = <<>> /\ pos = 1
  BY DEF Init
<1>2. Waits(text, stack, 1)
  BY <1>1, NoneWait
<1>3. \A k : k \notin 1 .. 1 - 1
  OBVIOUS
<1> QED
  BY <1>1, <1>2, <1>3 DEF SoundInv, SoundAt, Blank

-----------------------------------------------------------------------------
(***************************************************************************)
(* Symbols stand for one tree: of two readings with the same end, the      *)
(* shorter one does not begin behind a delimiter within the longer one.    *)
(***************************************************************************)
Opens == {"[", "{"}
Delimiters == Opens \union {",", ":"}
Closings == Leaves \union {"]", "}"}

Delimited(s, i, k, B) == i <= k /\ (i < k => s[k - 1] \in B)
Single(s, kind, B, i, j) ==
    \A k, t, u : /\ IsSpan(s, k, j) /\ Delimited(s, i, k, B)
                 /\ t \in Said(s, kind, i, j) /\ u \in Said(s, kind, k, j)
                 => i = k /\ t = u
Below(s, kind, B, n) == \A i, j : IsSpan(s, i, j) /\ j - i + 1 < n => Single(s, kind, B, i, j)

\* Delimiters, spaces and what ends a value are different symbols.
LEMMA Distinct ==
    /\ \A x \in Delimiters : x \notin Spaces /\ x \notin Closings
    /\ \A x \in Closings : x \notin Spaces
    /\ "]" \notin Leaves /\ "}" \notin Leaves /\ Strings \subseteq Leaves
    /\ Opens \subseteq Delimiters /\ "," \in Delimiters /\ "," \notin Opens
BY StringsAssumption DEF Delimiters, Opens, Closings, Leaves, Spaces

\* Two readings that both begin behind a delimiter.
LEMMA BothDelimited ==
    ASSUME NEW s, NEW kind, NEW B, NEW j, NEW x, NEW y, IsSpan(s, x, j), IsSpan(s, y, j),
           s[x - 1] \in B, s[y - 1] \in B, Single(s, kind, B, x, j), Single(s, kind, B, y, j),
           NEW t \in Said(s, kind, x, j), NEW u \in Said(s, kind, y, j)
    PROVE  x = y /\ t = u
<1>1. x <= y \/ y <= x
  BY DEF IsSpan
<1>2. CASE x <= y
  <2>1. Delimited(s, x, y, B)
    BY <1>2 DEF Delimited
  <2> QED
    BY <2>1 DEF Single
<1>3. CASE y <= x
  <2>1. Delimited(s, y, x, B)
    BY <1>3 DEF Delimited
  <2> QED
    BY <2>1 DEF Single
<1> QED
  BY <1>1, <1>2, <1>3

\* The last symbol that is no space.
LEMMA SameLast ==
    ASSUME NEW s, NEW i, NEW j, NEW k, IsSpan(s, i, j), IsSpan(s, k, j), i <= k,
           NEW p \in i .. j, s[p] \notin Spaces, Blank(s, p + 1, j),
           NEW q \in k .. j, s[q] \notin Spaces, Blank(s, q + 1, j)
    PROVE  p = q
<1>1. i \in Int /\ j \in Int /\ k \in Int
  BY DEF IsSpan
<1>2. ~(p < q)
  <2>1. p < q => q \in p + 1 .. j
    BY <1>1
  <2> QED
    BY <2>1 DEF Blank
<1>3. ~(q < p)
  <2>1. q < p => p \in q + 1 .. j
    BY <1>1
  <2> QED
    BY <2>1 DEF Blank
<1> QED
  BY <1>1, <1>2, <1>3

\* Nothing but spaces before a symbol leaves no place for a delimiter.
LEMMA SameFirst ==
    ASSUME NEW s, NEW i, NEW j, NEW k, IsSpan(s, i, j), IsSpan(s, k, j),
           Delimited(s, i, k, Delimiters), NEW p \in k .. j, Blank(s, i, p - 1)
    PROVE  i = k
<1>1. i \in Int /\ j \in Int /\ k \in Int /\ i <= k
  BY DEF IsSpan, Delimited
<1>2. ASSUME i < k PROVE FALSE
  <2>1. k - 1 \in i .. p - 1
    BY <1>1, <1>2
  <2>2. s[k - 1] \in Spaces /\ s[k - 1] \in Delimiters
    BY <1>2, <2>1 DEF Blank, Delimited
  <2> QED
    BY <2>2, Distinct
<1> QED
  BY <1>1, <1>2

\* A value begins and ends with a leaf or with brackets.
Stretches(s, i, j, t, o, e) ==
    /\ o \in i .. j /\ e \in i .. j
    /\ Blank(s, i, o - 1) /\ Blank(s, e + 1, j) /\ s[e] \in Closings
    /\ \/ s[e] \in Leaves /\ t = Leaf(s[e]) /\ o = e
       \/ /\ s[e] = "]" /\ s[o] = "[" /\ o < e
          /\ \E kids \in Said(s, "values", o + 1, e - 1) : t = Array(kids)
       \/ /\ s[e] = "}" /\ s[o] = "{" /\ o < e
          /\ \E mems \in Said(s, "members", o + 1, e - 1) : t = ObjectOf(mems)

\* A value stretches from its first to its last symbol.
LEMMA ValueShape ==
    ASSUME NEW s, NEW i, NEW j, IsSpan(s, i, j), NEW t \in Said(s, "value", i, j)
    PROVE  \E o, e : Stretches(s, i, j, t, o, e)
<1>1. CASE IsLeafAt(s, i, j, t)
  BY <1>1 DEF IsLeafAt, IsAlone, Closings, Stretches
<1>2. CASE IsArrayAt(s, i, j, t)
  BY <1>2 DEF IsArrayAt, AreAround, Closings, Stretches
<1>3. CASE IsObjectAt(s, i, j, t)
  BY <1>3 DEF IsObjectAt, AreAround, Closings, Stretches
<1> QED
  BY <1>1, <1>2, <1>3, ValuesAre

\* Between brackets in a span there are fewer symbols.
LEMMA InnerSpan ==
    ASSUME NEW s, NEW i, NEW j, IsSpan(s, i, j), NEW o \in i .. j, NEW e \in i .. j, o < e
    PROVE  IsSpan(s, o + 1, e - 1) /\ (e - 1) - (o + 1) + 1 < j - i + 1 /\ (o + 1) - 1 = o
BY DEF IsSpan

\* Values are told apart when the lists of fewer symbols are,
LEMMA ValueSingle ==
    ASSUME NEW s, NEW n \in Nat, NEW i, NEW j, IsSpan(s, i, j), j - i + 1 <= n,
           Below(s, "values", Opens, n), Below(s, "members", Opens, n)
    PROVE  Single(s, "value", Delimiters, i, j)
<1> SUFFICES ASSUME NEW k, NEW t, NEW u, IsSpan(s, k, j), Delimited(s, i, k, Delimiters),
                    t \in Said(s, "value", i, j), u \in Said(s, "value", k, j)
             PROVE  i = k /\ t = u
  BY DEF Single

<1>1. PICK o, e : Stretches(s, i, j, t, o, e)
  BY ValueShape
<1>2. PICK p, f : Stretches(s, k, j, u, p, f)
  BY ValueShape
<1>9. /\ o \in i .. j /\ e \in i .. j /\ Blank(s, i, o - 1) /\ Blank(s, e + 1, j)
      /\ s[e] \in Closings
  BY <1>1 DEF Stretches
<1>10. p \in k .. j /\ f \in k .. j /\ Blank(s, f + 1, j) /\ s[f] \in Closings
  BY <1>2 DEF Stretches
<1>3. e = f
  <2>1. i <= k /\ s[e] \notin Spaces /\ s[f] \notin Spaces
    BY <1>9, <1>10, Distinct DEF Delimited
  <2> QED
    BY <1>9, <1>10, <2>1, SameLast
<1>4. ASSUME p = o PROVE i = k
  BY <1>4, <1>9, <1>10, SameFirst
<1>5. CASE s[e] \in Leaves
  <2>1. t = Leaf(s[e]) /\ o = e
    BY <1>1, <1>5, Distinct DEF Stretches
  <2>2. u = Leaf(s[e]) /\ p = e
    BY <1>2, <1>3, <1>5, Distinct DEF Stretches
  <2> QED
    BY <1>4, <2>1, <2>2
<1>6. ASSUME NEW list, Below(s, list, Opens, n), o < e, p < e, s[o] \in Opens, s[p] \in Opens,
             NEW l \in Said(s, list, o + 1, e - 1), NEW m \in Said(s, list, p + 1, e - 1)
      PROVE  o = p /\ l = m
  <2> DEFINE x == o + 1
             y == p + 1
  <2>1. /\ IsSpan(s, x, e - 1) /\ (e - 1) - x + 1 < n /\ x - 1 = o
        /\ IsSpan(s, y, e - 1) /\ (e - 1) - y + 1 < n /\ y - 1 = p
    <3>1. /\ IsSpan(s, o + 1, e - 1) /\ (e - 1) - (o + 1) + 1 < j - i + 1 /\ (o + 1) - 1 = o
      BY <1>6, <1>9, InnerSpan
    <3>2. /\ IsSpan(s, p + 1, e - 1) /\ (e - 1) - (p + 1) + 1 < j - k + 1 /\ (p + 1) - 1 = p
      BY <1>3, <1>6, <1>10, InnerSpan
    <3>3. i \in Int /\ j \in Int /\ k \in Int /\ i <= k /\ o \in Int /\ p \in Int /\ e \in Int
      BY <1>9, <1>10 DEF IsSpan, Delimited
    <3>4. (e - 1) - (o + 1) + 1 < n /\ (e - 1) - (p + 1) + 1 < n
      BY ONLY <3>1, <3>2, <3>3, j - i + 1 <= n, n \in Nat
    <3> QED
      BY <3>1, <3>2, <3>4
  <2> HIDE DEF x, y
  <2>2. Single(s, list, Opens, x, e - 1) /\ Single(s, list, Opens, y, e - 1)
    BY <1>6, <2>1 DEF Below
  <2>3. l \in Said(s, list, x, e - 1) /\ m \in Said(s, list, y, e - 1)
    BY DEF x, y
  <2>4. x = y /\ l = m
    BY <1>6, <2>1, <2>2, <2>3, BothDelimited
  <2> QED
    BY <2>1, <2>4
<1>7. CASE s[e] = "]"
  <2>1. /\ s[o] = "[" /\ o < e
        /\ \E kids \in Said(s, "values", o + 1, e - 1) : t = Array(kids)
    BY <1>1, <1>7, Distinct DEF Stretches
  <2>2. /\ s[p] = "[" /\ p < e
        /\ \E kids \in Said(s, "values", p + 1, e - 1) : u = Array(kids)
    BY <1>2, <1>3, <1>7, Distinct DEF Stretches
  <2> QED
    BY <1>4, <1>6, <2>1, <2>2 DEF Opens
<1>8. CASE s[e] = "}"
  <2>1. /\ s[o] = "{" /\ o < e
        /\ \E mems \in Said(s, "members", o + 1, e - 1) : t = ObjectOf(mems)
    BY <1>1, <1>8, Distinct DEF Stretches
  <2>2. /\ s[p] = "{" /\ p < e
        /\ \E mems \in Said(s, "members", p + 1, e - 1) : u = ObjectOf(mems)
    BY <1>2, <1>3, <1>8, Distinct DEF Stretches
  <2> QED
    BY <1>4, <1>6, <2>1, <2>2 DEF Opens
<1> QED
  BY <1>5, <1>7, <1>8, <1>9 DEF Closings

\* members when the values are,
LEMMA MemberSingle ==
    ASSUME NEW s, NEW n \in Nat, NEW i, NEW j, IsSpan(s, i, j), j - i + 1 <= n,
           Below(s, "value", Delimiters, n)
    PROVE  Single(s, "member", Delimiters, i, j)
<1> SUFFICES ASSUME NEW k, NEW t, NEW u, IsSpan(s, k, j), Delimited(s, i, k, Delimiters),
                    t \in Said(s, "member", i, j), u \in Said(s, "member", k, j)
             PROVE  i = k /\ t = u
  BY DEF Single
<1>1. PICK c, a, v : /\ c \in i .. j /\ s[c] = ":" /\ IsAlone(s, i, c - 1, Strings, a)
                     /\ v \in Said(s, "value", c + 1, j) /\ t = <<s[a], v>>
  <2>1. IsMemberAt(s, i, j, t)
    BY MembersAre
  <2> QED
    BY <2>1, Zenon DEF IsMemberAt
<1>2. PICK d, b, w : /\ d \in k .. j /\ s[d] = ":" /\ IsAlone(s, k, d - 1, Strings, b)
                     /\ w \in Said(s, "value", d + 1, j) /\ u = <<s[b], w>>
  <2>1. IsMemberAt(s, k, j, u)
    BY MembersAre
  <2> QED
    BY <2>1, Zenon DEF IsMemberAt
<1>3. i \in Int /\ j \in Int /\ k \in Int /\ i <= k /\ c \in i .. j /\ d \in k .. j
  BY <1>1, <1>2 DEF IsSpan, Delimited
<1>4. c = d /\ v = w
  <2> DEFINE x == c + 1
             y == d + 1
  <2>1. /\ IsSpan(s, x, j) /\ j - x + 1 < n /\ x - 1 = c
        /\ IsSpan(s, y, j) /\ j - y + 1 < n /\ y - 1 = d
    BY ONLY <1>3, IsSpan(s, i, j), j - i + 1 <= n DEF IsSpan
  <2> HIDE DEF x, y
  <2>2. Single(s, "value", Delimiters, x, j) /\ Single(s, "value", Delimiters, y, j)
    BY <2>1 DEF Below
  <2>3. v \in Said(s, "value", x, j) /\ w \in Said(s, "value", y, j)
    BY <1>1, <1>2 DEF x, y
  <2>5. s[x - 1] \in Delimiters /\ s[y - 1] \in Delimiters
    BY <1>1, <1>2, <2>1 DEF Delimiters
  <2>4. x = y /\ v = w
    BY <2>1, <2>2, <2>3, <2>5, BothDelimited
  <2> QED
    BY <2>1, <2>4
<1>5. IsSpan(s, i, c - 1) /\ IsSpan(s, k, c - 1)
  BY ONLY <1>3, <1>4, IsSpan(s, i, j), IsSpan(s, k, j) DEF IsSpan
<1>6. /\ a \in i .. c - 1 /\ s[a] \in Closings /\ Blank(s, i, a - 1) /\ Blank(s, a + 1, c - 1)
      /\ b \in k .. c - 1 /\ s[b] \in Closings /\ Blank(s, b + 1, c - 1)
  <2>1. Strings \subseteq Closings
    BY Distinct DEF Closings
  <2>2. IsAlone(s, i, c - 1, Strings, a) /\ IsAlone(s, k, c - 1, Strings, b)
    BY <1>1, <1>2, <1>4
  <2> QED
    BY <2>1, <2>2 DEF IsAlone
<1>7. a = b
  <2>1. i <= k /\ s[a] \notin Spaces /\ s[b] \notin Spaces
    BY <1>3, <1>6, Distinct
  <2> QED
    BY <1>5, <1>6, <2>1, SameLast
<1>8. i = k
  BY <1>5, <1>6, <1>7, SameFirst
<1> QED
  BY <1>1, <1>2, <1>4, <1>7, <1>8

\* A list is empty, or ends with an element that begins at b.
EndsWithOne(s, one, list, i, j, l, b, front, x) ==
    /\ IsSpan(s, b, j) /\ i <= b /\ x \in Said(s, one, b, j)
    /\ \/ front = <<>> /\ b = i /\ l = <<x>>
       \/ /\ front # <<>> /\ i < b /\ s[b - 1] = "," /\ l = Append(front, x)
          /\ IsSpan(s, i, b - 2) /\ front \in Said(s, list, i, b - 2)

\* A list has no other form.
LEMMA ListShape ==
    ASSUME NEW s, NEW i, NEW j, IsSpan(s, i, j), NEW one, NEW list, AreListed(one, list),
           NEW l \in Said(s, list, i, j)
    PROVE  \/ l = <<>> /\ Blank(s, i, j)
           \/ \E b, front, x : EndsWithOne(s, one, list, i, j, l, b, front, x)
<1>1. CASE l = <<>> /\ Blank(s, i, j)
  BY <1>1
<1>2. ASSUME NEW t \in Said(s, one, i, j), l = <<t>>
      PROVE  EndsWithOne(s, one, list, i, j, l, i, <<>>, t)
  BY <1>2 DEF EndsWithOne, IsSpan
<1>3. CASE IsLonger(s, one, list, i, j, l)
  <2>1. PICK c, front, t : /\ c \in i .. j /\ s[c] = "," /\ front # <<>> /\ l = Append(front, t)
                           /\ front \in Said(s, list, i, c - 1)
                           /\ t \in Said(s, one, c + 1, j)
    BY <1>3 DEF IsLonger
  <2>5. c \in i .. j
    BY <2>1
  <2> DEFINE b == c + 1
  <2>2. IsSpan(s, b, j) /\ i <= b /\ i < b /\ b - 1 = c /\ b - 2 = c - 1 /\ IsSpan(s, i, b - 2)
    BY ONLY IsSpan(s, i, j), <2>5 DEF IsSpan
  <2> HIDE DEF b
  <2>3. s[b - 1] = "," /\ front \in Said(s, list, i, b - 2) /\ t \in Said(s, one, b, j)
    BY <2>1, <2>2 DEF b
  <2>4. EndsWithOne(s, one, list, i, j, l, b, front, t)
    BY <2>1, <2>2, <2>3 DEF EndsWithOne
  <2> QED
    BY <2>4
<1> QED
  BY <1>1, <1>2, <1>3, ListsAre

\* The last symbol of an element that is no space.
LEMMA ElementLast ==
    ASSUME NEW s, NEW i, NEW j, IsSpan(s, i, j), NEW kind \in {"value", "member"},
           NEW t \in Said(s, kind, i, j)
    PROVE  \E p \in i .. j : s[p] \in Closings /\ Blank(s, p + 1, j)
<1>1. CASE kind = "value"
  BY <1>1, ValueShape DEF Stretches
<1>2. CASE kind = "member"
  <2>1. PICK c \in i .. j : \E v : v \in Said(s, "value", c + 1, j)
    BY <1>2, MembersAre DEF IsMemberAt
  <2> DEFINE x == c + 1
  <2>2. IsSpan(s, x, j) /\ \A p \in x .. j : p \in i .. j
    BY ONLY IsSpan(s, i, j), c \in i .. j DEF IsSpan
  <2> HIDE DEF x
  <2>3. PICK v : v \in Said(s, "value", x, j)
    BY <2>1 DEF x
  <2>4. PICK p \in x .. j : s[p] \in Closings /\ Blank(s, p + 1, j)
    BY <2>2, <2>3, ValueShape DEF Stretches
  <2> QED
    BY <2>2, <2>4
<1> QED
  BY <1>1, <1>2

\* A list with an element has such a symbol too.
LEMMA ListLast ==
    ASSUME NEW s, NEW i, NEW j, IsSpan(s, i, j), NEW one, NEW list, AreListed(one, list), NEW l,
           NEW b, NEW front, NEW x, EndsWithOne(s, one, list, i, j, l, b, front, x)
    PROVE  \E p \in i .. j : s[p] \in Closings /\ Blank(s, p + 1, j)
<1>1. IsSpan(s, b, j) /\ i <= b /\ x \in Said(s, one, b, j)
  BY DEF EndsWithOne
<1>2. PICK p \in b .. j : s[p] \in Closings /\ Blank(s, p + 1, j)
  BY <1>1, ElementLast DEF AreListed
<1>3. p \in i .. j
  BY ONLY <1>1, IsSpan(s, i, j), p \in b .. j DEF IsSpan
<1> QED
  BY <1>2, <1>3

\* An empty list is not behind a delimiter and another list's end.
LEMMA EmptyList ==
    ASSUME NEW s, NEW i, NEW j, NEW k, IsSpan(s, i, j), IsSpan(s, k, j), Blank(s, k, j),
           Delimited(s, i, k, Opens), NEW p \in i .. j, s[p] \in Closings, Blank(s, p + 1, j)
    PROVE  FALSE
<1>1. i \in Int /\ j \in Int /\ k \in Int /\ i <= k /\ k <= j + 1
  BY DEF IsSpan, Delimited
<1>2. s[p] \notin Spaces /\ s[p] \notin Delimiters
  BY Distinct
<1>3. p \notin k .. j
  BY <1>2 DEF Blank
<1>4. p < k
  BY <1>1, <1>3
<1>5. s[k - 1] \in Delimiters
  <2>1. i < k
    BY ONLY <1>1, <1>4, p \in i .. j
  <2> QED
    BY <2>1, Distinct DEF Delimited
<1>6. k - 1 # p
  BY <1>2, <1>5
<1>7. k - 1 \in p + 1 .. j
  BY <1>1, <1>4, <1>6
<1>8. s[k - 1] \in Spaces
  BY <1>7 DEF Blank
<1> QED
  BY <1>5, <1>8, Distinct

\* and lists when their elements are.
LEMMA ListSingle ==
    ASSUME NEW s, NEW n \in Nat, NEW i, NEW j, IsSpan(s, i, j), j - i + 1 <= n,
           NEW one, NEW list, AreListed(one, list),
           Below(s, one, Delimiters, n + 1), Below(s, list, Opens, n)
    PROVE  Single(s, list, Opens, i, j)
<1> SUFFICES ASSUME NEW k, NEW l, NEW m, IsSpan(s, k, j), Delimited(s, i, k, Opens),
                    l \in Said(s, list, i, j), m \in Said(s, list, k, j)
             PROVE  i = k /\ l = m
  BY DEF Single
<1>7. i \in Int /\ j \in Int /\ k \in Int /\ i <= k
  BY DEF IsSpan, Delimited
<1>0. /\ i \in Int /\ j \in Int /\ k \in Int /\ i <= k /\ k <= j + 1 /\ i <= j + 1
      /\ i < k => s[k - 1] \in Opens
  BY DEF IsSpan, Delimited
<1>1. ASSUME l = <<>>, Blank(s, i, j), m = <<>> PROVE i = k
  <2>1. i < k => k - 1 \in i .. j
    BY <1>0
  <2>2. ~(i < k)
    BY <1>0, <1>1, <2>1, Distinct DEF Blank, Delimiters
  <2> QED
    BY <1>0, <2>2
<1>2. ASSUME NEW d, NEW gs, NEW y, EndsWithOne(s, one, list, k, j, m, d, gs, y), Blank(s, i, j)
      PROVE  FALSE
  <2>1. PICK p \in k .. j : s[p] \in Closings
    BY <1>2, ListLast
  <2>2. p \in i .. j
    BY <1>0
  <2> QED
    BY <1>2, <2>1, <2>2, Distinct DEF Blank
<1>3. ASSUME NEW b, NEW fs, NEW x, EndsWithOne(s, one, list, i, j, l, b, fs, x), Blank(s, k, j)
      PROVE  FALSE
  BY <1>3, ListLast, EmptyList
<1>4. ASSUME NEW b, NEW fs, NEW x, EndsWithOne(s, one, list, i, j, l, b, fs, x),
             NEW d, NEW gs, NEW y, EndsWithOne(s, one, list, k, j, m, d, gs, y)
      PROVE  i = k /\ l = m
  <2>1. /\ IsSpan(s, b, j) /\ i <= b /\ x \in Said(s, one, b, j)
        /\ IsSpan(s, d, j) /\ k <= d /\ y \in Said(s, one, d, j)
        /\ b = i \/ (i < b /\ s[b - 1] = ",")
        /\ d = k \/ (k < d /\ s[d - 1] = ",")
    BY <1>4 DEF EndsWithOne
  <2>8. IsSpan(s, b, j) /\ IsSpan(s, d, j)
    BY <2>1
  <2>9. i <= b /\ k <= d
    BY <2>1
  <2>7. b \in Int /\ d \in Int
    BY ONLY <2>8 DEF IsSpan
  <2>2. b \in Int /\ d \in Int /\ j - b + 1 < n + 1 /\ j - d + 1 < n + 1
    BY ONLY <1>7, <2>9, <2>7, j - i + 1 <= n, n \in Nat
  <2>3. Single(s, one, Delimiters, b, j) /\ Single(s, one, Delimiters, d, j)
    BY <2>1, <2>2 DEF Below
  <2>4. b = d /\ x = y
    <3>1. CASE b <= d
      <4>3. b < d /\ d = k => i < k
        BY ONLY <1>7, <2>9, <2>7
      <4>1. b < d => s[d - 1] \in Delimiters
        BY <1>0, <2>1, <4>3, Distinct
      <4>2. Delimited(s, b, d, Delimiters)
        BY <3>1, <4>1 DEF Delimited
      <4> QED
        BY <2>1, <2>3, <4>2 DEF Single
    <3>2. CASE d < b
      <4>3. b # i
        BY ONLY <1>7, <2>9, <2>7, <3>2
      <4>1. s[b - 1] \in Delimiters
        BY <2>1, <4>3, Distinct
      <4>2. Delimited(s, d, b, Delimiters)
        BY <2>2, <3>2, <4>1 DEF Delimited
      <4> QED
        BY <2>1, <2>3, <4>2 DEF Single
    <3> QED
      BY <2>2, <3>1, <3>2
  <2>5. CASE fs = <<>>
    <3>1. b = i /\ l = <<x>>
      BY <1>4, <2>5 DEF EndsWithOne
    <3>2. d = i /\ i = k
      <4>1. b = d /\ b = i /\ k <= d
        BY <2>1, <2>4, <3>1
      <4> QED
        BY ONLY <1>7, <4>1
    <3>4. ~(k < d)
      BY ONLY <1>7, <3>2
    <3>3. m = <<y>>
      BY <1>4, <3>4 DEF EndsWithOne
    <3> QED
      BY <2>4, <3>1, <3>2, <3>3
  <2>6. CASE fs # <<>>
    <3>1. /\ i < b /\ s[b - 1] = "," /\ l = Append(fs, x)
          /\ IsSpan(s, i, b - 2) /\ fs \in Said(s, list, i, b - 2)
      BY <1>4, <2>6 DEF EndsWithOne
    <3>2. d # k
      BY <1>0, <2>4, <3>1, Distinct
    <3>3. /\ m = Append(gs, y)
          /\ IsSpan(s, k, b - 2) /\ gs \in Said(s, list, k, b - 2)
      BY <1>4, <2>4, <3>2 DEF EndsWithOne
    <3>4. (b - 2) - i + 1 < n
      <4>1. b <= j + 1
        BY ONLY <2>8 DEF IsSpan
      <4> QED
        BY ONLY <1>7, <2>7, <4>1, j - i + 1 <= n, n \in Nat
    <3>5. Single(s, list, Opens, i, b - 2)
      BY <3>1, <3>4 DEF Below
    <3>6. i = k /\ fs = gs
      BY <3>1, <3>3, <3>5 DEF Single
    <3> QED
      BY <2>4, <3>1, <3>3, <3>6
  <2> QED
    BY <2>5, <2>6
<1>5. \/ l = <<>> /\ Blank(s, i, j)
      \/ \E b, fs, x : EndsWithOne(s, one, list, i, j, l, b, fs, x)
  BY ListShape
<1>6. \/ m = <<>> /\ Blank(s, k, j)
      \/ \E d, gs, y : EndsWithOne(s, one, list, k, j, m, d, gs, y)
  BY ListShape
<1> QED
  BY <1>1, <1>2, <1>3, <1>4, <1>5, <1>6

\* Symbols stand for no more than one value.
LEMMA OneTree ==
    ASSUME NEW s, NEW i, NEW j, IsSpan(s, i, j)
    PROVE  Single(s, "value", Delimiters, i, j)
<1> DEFINE All(n) == /\ Below(s, "value", Delimiters, n) /\ Below(s, "member", Delimiters, n)
                     /\ Below(s, "values", Opens, n) /\ Below(s, "members", Opens, n)
           T == { n \in Nat : All(n) }
<1>1. 0 \in T
  <2>1. \A x, y : IsSpan(s, x, y) => ~(y - x + 1 < 0)
    BY DEF IsSpan
  <2> QED
    BY <2>1 DEF Below
<1>2. ASSUME NEW n \in Nat, n \in T PROVE n + 1 \in T
  <2>1. /\ Below(s, "value", Delimiters, n) /\ Below(s, "member", Delimiters, n)
        /\ Below(s, "values", Opens, n) /\ Below(s, "members", Opens, n)
    BY <1>2
  <2>2. ASSUME NEW x, NEW y, IsSpan(s, x, y), y - x + 1 < n + 1 PROVE y - x + 1 <= n
    <3>1. x \in Int /\ y \in Int
      BY <2>2 DEF IsSpan
    <3> QED
      BY ONLY <2>2, <3>1, n \in Nat
  <2>3. Below(s, "value", Delimiters, n + 1)
    BY <2>1, <2>2, ValueSingle DEF Below
  <2>4. Below(s, "member", Delimiters, n + 1)
    BY <2>1, <2>2, MemberSingle DEF Below
  <2>5. Below(s, "values", Opens, n + 1)
    BY <2>1, <2>2, <2>3, ListSingle DEF Below, AreListed
  <2>6. Below(s, "members", Opens, n + 1)
    BY <2>1, <2>2, <2>4, ListSingle DEF Below, AreListed
  <2> QED
    BY <2>3, <2>4, <2>5, <2>6
<1>3. Nat \subseteq T
  <2> HIDE DEF T
  <2> QED
    BY <1>1, <1>2, AllNumbers
<1> DEFINE n == j - i + 1
<1>4. n \in Nat
  BY DEF IsSpan
<1>5. Below(s, "values", Opens, n) /\ Below(s, "members", Opens, n)
  BY <1>3, <1>4
<1>6. j - i + 1 <= n
  BY <1>4
<1> HIDE DEF n
<1> QED
  BY <1>4, <1>5, <1>6, ValueSingle

\* SilentlyAcceptedIsJson: when j2ParseFunc returns a tree without a call of the
\* error function and with memory to spare, the symbols it has read are JSON,
\* and the tree is the only one they stand for.
THEOREM SilentTheorem == Spec => []SilentlyAcceptedIsJson
<1> DEFINE Inv == PosInv /\ TreeInv /\ SoundInv
<1>1. Init => Inv
  BY PosInit, TreeInit, SoundInit
<1>2. Inv /\ [Next]_vars => Inv'
  BY PosStep, TreeStep, SoundStep
<1>3. Inv => SilentlyAcceptedIsJson
  <2> SUFFICES ASSUME Inv, pc = "done", ~reported, failed = {}, NumbersApart
               PROVE  Trees(text, 1, pos - 1) = {val}
    BY DEF SilentlyAcceptedIsJson
  <2>1. PICK x : Waits(text, <<>>, x) /\ val \in Said(text, "value", x, pos - 1)
    BY DEF SoundInv, Quiet, SoundAt
  <2>2. val \in Said(text, "value", 1, pos - 1)
    BY <2>1, NoneWait
  <2>3. IsSpan(text, 1, pos - 1)
    BY PeekIs DEF IsSpan
  <2>4. Delimited(text, 1, 1, Delimiters)
    BY DEF Delimited
  <2>5. \A t \in Said(text, "value", 1, pos - 1) : t = val
    BY <2>2, <2>3, <2>4, OneTree DEF Single
  <2>6. Trees(text, 1, pos - 1) = Said(text, "value", 1, pos - 1)
    BY DEF Trees, Said
  <2> QED
    BY <2>2, <2>5, <2>6
<1> QED
  BY <1>1, <1>2, <1>3, PTL DEF Spec

-----------------------------------------------------------------------------
(***************************************************************************)
(* JSON is accepted: the parser goes along a reading of the whole text.    *)
(***************************************************************************)
One(kind) == IF kind = "values" THEN "value" ELSE "member"
Left(kind) == IF kind = "values" THEN "[" ELSE "{"
Right(kind) == IF kind = "values" THEN "]" ELSE "}"
NodeOf(kind, list) == IF kind = "values" THEN Array(list) ELSE ObjectOf(list)
Separator == ","
Prefix(list, m) == [i \in 1 .. m |-> list[i]]

\* The elements of a list between brackets at q and e, and the commas, c[0] = q
\* and c[Len(list)] = e included.
Parts(s, kind, list, c, q, e) ==
    /\ AnySeq(list) /\ list # <<>> /\ Len(list) \in Nat \ {0}
    /\ c \in [Nat -> Nat] /\ c[0] = q /\ c[Len(list)] = e
    /\ \A m \in 1 .. Len(list) :
          /\ IsSpan(s, c[m - 1] + 1, c[m] - 1)
          /\ list[m] \in Said(s, One(kind), c[m - 1] + 1, c[m] - 1)
          /\ m # Len(list) => s[c[m]] = Separator

\* A list of one element,
LEMMA OnePart ==
    ASSUME NEW s, NEW kind, NEW q \in Nat, NEW e \in Nat, IsSpan(s, q + 1, e - 1),
           NEW t \in Said(s, One(kind), q + 1, e - 1)
    PROVE  \E c : Parts(s, kind, <<t>>, c, q, e)
<1> DEFINE c == [k \in Nat |-> IF k = 0 THEN q ELSE e]
           l == <<t>>
<1>1. l \in Seq({t}) /\ Len(l) = 1 /\ l[1] = t /\ l # <<>>
  OBVIOUS
<1>2. c \in [Nat -> Nat] /\ c[0] = q /\ c[1] = e
  OBVIOUS
<1> HIDE DEF c, l
<1>3. \A m \in 1 .. 1 : m = 1 /\ m - 1 = 0
  OBVIOUS
<1>5. /\ AnySeq(l) /\ Len(l) \in Nat \ {0} /\ c[Len(l)] = e
      /\ t \in Said(s, One(kind), c[0] + 1, c[1] - 1) /\ IsSpan(s, c[0] + 1, c[1] - 1)
  BY <1>1, <1>2 DEF AnySeq
<1>6. ASSUME NEW m \in 1 .. Len(l)
      PROVE  /\ IsSpan(s, c[m - 1] + 1, c[m] - 1)
             /\ l[m] \in Said(s, One(kind), c[m - 1] + 1, c[m] - 1)
             /\ m = Len(l)
  <2>1. m = 1 /\ m - 1 = 0
    BY <1>1, <1>3
  <2> QED
    BY <1>1, <1>5, <2>1
<1>4. Parts(s, kind, l, c, q, e)
  BY <1>1, <1>2, <1>5, <1>6 DEF Parts
<1> QED
  BY <1>4 DEF l

\* and one with another element behind it.
LEMMA MoreParts ==
    ASSUME NEW s, NEW kind, NEW q \in Nat, NEW d \in Nat, NEW e \in Nat, IsSpan(s, d + 1, e - 1),
           NEW front, NEW b, Parts(s, kind, front, b, q, d), s[d] = Separator,
           NEW t \in Said(s, One(kind), d + 1, e - 1)
    PROVE  \E c : Parts(s, kind, Append(front, t), c, q, e)
<1> DEFINE n == Len(front)
           l == Append(front, t)
           c == [b EXCEPT ![n + 1] = e]
<1>1. /\ AnySeq(front) /\ n \in Nat \ {0} /\ b \in [Nat -> Nat] /\ b[0] = q /\ b[n] = d
      /\ \A m \in 1 .. n : /\ IsSpan(s, b[m - 1] + 1, b[m] - 1)
                           /\ front[m] \in Said(s, One(kind), b[m - 1] + 1, b[m] - 1)
                           /\ m # n => s[b[m]] = Separator
  BY DEF Parts
<1>8. AnySeq(front)
  BY <1>1
<1>9. n \in Nat \ {0}
  BY <1>1
<1>10. b \in [Nat -> Nat]
  BY <1>1
<1>2. AnySeq(l) /\ Len(l) = n + 1 /\ l[n + 1] = t /\ (\A i \in 1 .. n : l[i] = front[i]) /\ l # <<>>
  BY ONLY <1>8, AppendIs
<1> HIDE DEF n, l
<1>3. c \in [Nat -> Nat] /\ c[n + 1] = e /\ \A k \in Nat : k # n + 1 => c[k] = b[k]
  BY ONLY <1>9, <1>10, e \in Nat DEF c
<1> HIDE DEF c
<1>4. c[0] = q /\ c[n] = d
  <2>1. 0 \in Nat /\ n \in Nat /\ 0 # n + 1 /\ n # n + 1
    BY ONLY <1>9
  <2> QED
    BY <1>1, <1>3, <2>1
<1>5. ASSUME NEW m \in 1 .. n + 1
      PROVE  /\ IsSpan(s, c[m - 1] + 1, c[m] - 1)
             /\ l[m] \in Said(s, One(kind), c[m - 1] + 1, c[m] - 1)
             /\ m # n + 1 => s[c[m]] = Separator
  <2>1. CASE m = n + 1
    <3>1. m - 1 = n
      BY ONLY <1>9, <2>1
    <3> QED
      BY <1>2, <1>3, <1>4, <2>1, <3>1
  <2>2. CASE m # n + 1
    <3>1. m \in 1 .. n /\ m \in Nat /\ m - 1 \in Nat /\ m - 1 # n + 1
      BY ONLY <1>9, <2>2, m \in 1 .. n + 1
    <3>2. c[m] = b[m] /\ c[m - 1] = b[m - 1] /\ l[m] = front[m]
      BY <1>2, <1>3, <2>2, <3>1
    <3>3. m = n => s[c[m]] = Separator
      BY <1>4
    <3> QED
      BY <1>1, <3>1, <3>2, <3>3
  <2> QED
    BY <2>1, <2>2
<1>6. n + 1 \in Nat \ {0}
  BY ONLY <1>9
<1>7. Parts(s, kind, l, c, q, e)
  BY <1>2, <1>3, <1>4, <1>5, <1>6 DEF Parts
<1> QED
  BY <1>7 DEF l

\* A list that is not empty has parts.
LEMMA PartsThere ==
    ASSUME NEW s, NEW kind \in {"values", "members"}, NEW q \in Nat, NEW e \in Nat,
           IsSpan(s, q + 1, e - 1), NEW l \in Said(s, kind, q + 1, e - 1), l # <<>>
    PROVE  \E c : Parts(s, kind, l, c, q, e)
<1> DEFINE There(o, f) ==
              IsSpan(s, o + 1, f - 1) =>
                \A k \in Said(s, kind, o + 1, f - 1) : k # <<>> => \E c : Parts(s, kind, k, c, o, f)
           T == { n \in Nat : \A f \in Nat : f <= n => There(q, f) }
<1>0. AreListed(One(kind), kind)
  BY DEF AreListed, One
<1>1. ASSUME NEW f \in Nat, \A d \in Nat : d < f => There(q, d) PROVE There(q, f)
  <2> SUFFICES ASSUME IsSpan(s, q + 1, f - 1), NEW k \in Said(s, kind, q + 1, f - 1), k # <<>>
               PROVE  \E c : Parts(s, kind, k, c, q, f)
    OBVIOUS
  <2>1. PICK b, front, x : EndsWithOne(s, One(kind), kind, q + 1, f - 1, k, b, front, x)
    BY <1>0, ListShape
  <2>2. IsSpan(s, b, f - 1) /\ q + 1 <= b /\ x \in Said(s, One(kind), b, f - 1)
    BY <2>1 DEF EndsWithOne
  <2>3. CASE front = <<>> /\ b = q + 1 /\ k = <<x>>
    BY <2>2, <2>3, OnePart
  <2>4. CASE /\ front # <<>> /\ q + 1 < b /\ s[b - 1] = "," /\ k = Append(front, x)
             /\ IsSpan(s, q + 1, b - 2) /\ front \in Said(s, kind, q + 1, b - 2)
    <3> DEFINE d == b - 1
    <3>1. d \in Nat /\ d < f /\ d - 1 = b - 2 /\ d + 1 = b
      <4>1. IsSpan(s, b, f - 1) /\ q + 1 <= b
        BY <2>2
      <4> QED
        BY ONLY <4>1, f \in Nat, q \in Nat DEF IsSpan
    <3> HIDE DEF d
    <3>2. There(q, d)
      BY <1>1, <3>1
    <3>3. PICK a : Parts(s, kind, front, a, q, d)
      BY <2>4, <3>1, <3>2
    <3>4. s[d] = Separator
      BY <2>4 DEF d, Separator
    <3>5. IsSpan(s, d + 1, f - 1) /\ x \in Said(s, One(kind), d + 1, f - 1)
      BY <2>2, <3>1
    <3>6. \E c : Parts(s, kind, Append(front, x), c, q, f)
      BY <3>1, <3>3, <3>4, <3>5, MoreParts
    <3> QED
      BY <2>4, <3>6
  <2> QED
    BY <2>1, <2>3, <2>4 DEF EndsWithOne
<1> HIDE DEF There
<1>2. 0 \in T
  BY <1>1
<1>3. ASSUME NEW n \in Nat, n \in T PROVE n + 1 \in T
  <2>1. ASSUME NEW f \in Nat, f <= n + 1 PROVE There(q, f)
    <3>1. \A d \in Nat : d < f => d <= n
      BY <2>1
    <3> QED
      BY <1>1, <1>3, <3>1
  <2> QED
    BY <2>1
<1>4. e \in T
  <2> HIDE DEF T
  <2> QED
    BY <1>2, <1>3, AllNumbers
<1>5. There(q, e)
  BY <1>4
<1> QED
  BY <1>5 DEF There

\* Beginnings of a list.
LEMMA PrefixIs ==
    ASSUME NEW list, AnySeq(list)
    PROVE  /\ Prefix(list, 0) = <<>> /\ Prefix(list, Len(list)) = list
           /\ \A m \in 0 .. Len(list) - 1 :
                 /\ AnySeq(Prefix(list, m)) /\ Len(Prefix(list, m)) = m
                 /\ Append(Prefix(list, m), list[m + 1]) = Prefix(list, m + 1)
<1>1. PICK S : list \in Seq(S)
  BY DEF AnySeq
<1>2. Len(list) \in Nat /\ DOMAIN list = 1 .. Len(list) /\ \A i \in 1 .. Len(list) : list[i] \in S
  BY <1>1
<1>3. Prefix(list, 0) = <<>>
  <2>1. Prefix(list, 0) \in Seq(S) /\ Len(Prefix(list, 0)) = 0
    BY DEF Prefix
  <2> QED
    BY <2>1
<1>4. Prefix(list, Len(list)) = list
  <2>1. list = [i \in 1 .. Len(list) |-> list[i]]
    BY <1>1
  <2> QED
    BY <2>1 DEF Prefix
<1>5. ASSUME NEW m \in 0 .. Len(list) - 1
      PROVE  /\ AnySeq(Prefix(list, m)) /\ Len(Prefix(list, m)) = m
             /\ Append(Prefix(list, m), list[m + 1]) = Prefix(list, m + 1)
  <2> DEFINE p == Prefix(list, m)
             n == m + 1
  <2>1. m \in Nat /\ n \in Nat /\ \A i \in 1 .. m : list[i] \in S /\ i \in 1 .. n
    BY <1>2
  <2>2. p \in Seq(S) /\ Len(p) = m /\ \A i \in 1 .. m : p[i] = list[i]
    BY <2>1 DEF Prefix
  <2>3. AnySeq(p)
    BY <2>2 DEF AnySeq
  <2> HIDE DEF p
  <2>4. /\ Append(p, list[n]) = [i \in 1 .. n |-> Append(p, list[n])[i]]
        /\ Append(p, list[n])[n] = list[n] /\ \A i \in 1 .. m : Append(p, list[n])[i] = p[i]
    BY <2>2, <2>3, AppendIs
  <2>5. \A i \in 1 .. n : i \in 1 .. m \/ i = n
    BY <2>1
  <2> HIDE DEF n
  <2>6. \A i \in 1 .. n : Append(p, list[n])[i] = list[i]
    BY <2>2, <2>4, <2>5
  <2>7. Append(p, list[n]) = Prefix(list, n)
    BY <2>4, <2>6 DEF Prefix
  <2> QED
    BY <2>2, <2>3, <2>7 DEF p, n
<1> QED
  BY <1>3, <1>4, <1>5

\* The object of no members.
LEMMA NoMembers == AnySeq(<<>>) /\ ObjectOf(<<>>) = Object(<<>>)
<1>1. AnySeq(<<>>)
  <2>1. <<>> \in Seq({})
    BY EmptySeq
  <2> QED
    BY <2>1 DEF AnySeq
<1>2. Firsts(<<>>) = {}
  BY NoFirsts
<1>3. Len(KidsOf(<<>>)) = 0 /\ AnySeq(KidsOf(<<>>))
  BY <1>1, <1>2, KidsAre, FS_EmptySet
<1>4. KidsOf(<<>>) = <<>>
  <2>1. PICK S : KidsOf(<<>>) \in Seq(S)
    BY <1>3 DEF AnySeq
  <2>2. \A seq \in Seq(S) : seq # <<>> => Len(seq) \in Nat \ {0}
    BY EmptySeq
  <2> QED
    BY <1>3, <2>1, <2>2
<1> QED
  BY <1>1, <1>4, KidsAre

\* What can follow a value.
Follows == {",", "]", "}", ":"}

\* A value to be read, v[3] from v[1] to v[2].
IsWanted(s, v) ==
    /\ IsSpan(s, v[1], v[2]) /\ v[3] \in Said(s, "value", v[1], v[2])
    /\ v[2] # Len(s) => s[v[2] + 1] \in Follows

\* It is a container with a list between its brackets.
Container(s, u, q, e, kind, list) ==
    /\ kind \in {"values", "members"} /\ IsSpan(s, u[1], u[2])
    /\ AreAround(s, u[1], u[2], Left(kind), Right(kind), q, e)
    /\ list \in Said(s, kind, q + 1, e - 1) /\ u[3] = NodeOf(kind, list)

IsMember(s, i, j, mem, d, a, t) ==
    /\ d \in i .. j /\ s[d] = ":" /\ IsAlone(s, i, d - 1, Strings, a)
    /\ t \in Said(s, "value", d + 1, j) /\ mem = <<s[a], t>>

\* The frame of the container u holds m elements, and v is the next value.
IsNext(s, fr, c, list, m, kind, v) ==
    \/ /\ kind = "values" /\ fr.name = "none"
       /\ v = <<c[m] + 1, c[m + 1] - 1, list[m + 1]>>
    \/ /\ kind = "members"
       /\ \E d, a, t : /\ IsMember(s, c[m] + 1, c[m + 1] - 1, list[m + 1], d, a, t)
                       /\ \/ fr.name = "none" /\ v = <<c[m] + 1, d - 1, Leaf(s[a])>>
                          \/ fr.name = s[a] /\ v = <<d + 1, c[m + 1] - 1, t>>

Placing(s, fr, u, v, q, e, kind, list, c, m) ==
    /\ Container(s, u, q, e, kind, list) /\ Parts(s, kind, list, c, q, e)
    /\ m \in 0 .. Len(list) - 1
    /\ fr.node = NodeOf(kind, Prefix(list, m)) /\ ~fr.nul
    /\ IsNext(s, fr, c, list, m, kind, v)
Place(s, fr, u, v) ==
    IsWanted(s, v) /\ \E q, e, kind, list, c, m : Placing(s, fr, u, v, q, e, kind, list, c, m)

\* The loop of the container u is at p.
LoopedEmpty(s, fr, u, p, q, e, kind) ==
    /\ Container(s, u, q, e, kind, <<>>) /\ fr.node = NodeOf(kind, <<>>)
    /\ \/ ~fr.comma /\ p = q + 1
       \/ fr.comma /\ p = e
LoopedAt(s, fr, u, p, q, e, kind, list, c, m) ==
    /\ Container(s, u, q, e, kind, list) /\ Parts(s, kind, list, c, q, e)
    /\ m \in 0 .. Len(list) /\ fr.node = NodeOf(kind, Prefix(list, m))
    /\ \/ ~fr.comma /\ m = 0 /\ p = q + 1
       \/ fr.comma /\ m # 0 /\ p = c[m]
Looped(s, fr, u, p) ==
    \/ \E q, e, kind : LoopedEmpty(s, fr, u, p, q, e, kind)
    \/ \E q, e, kind, list, c, m : LoopedAt(s, fr, u, p, q, e, kind, list, c, m)

\* An array with spaces only: the loop looks for a child.
HollowAt(s, fr, u, p, q, e) ==
    /\ Container(s, u, q, e, "values", <<>>) /\ fr.node = NodeOf("values", <<>>)
    /\ ~fr.nul /\ p \in q + 1 .. e /\ q + 1 < e
Hollow(s, fr, u, p) == \E q, e : HollowAt(s, fr, u, p, q, e)

\* A value or member begins with a leaf or a bracket.
LEMMA ElementFirst ==
    ASSUME NEW s, NEW i, NEW j, IsSpan(s, i, j), NEW kind \in {"value", "member"},
           NEW t \in Said(s, kind, i, j)
    PROVE  \E o \in i .. j : s[o] \in Leaves \union Opens /\ Blank(s, i, o - 1)
<1>1. CASE kind = "value"
  <2>1. PICK o, e : Stretches(s, i, j, t, o, e)
    BY <1>1, ValueShape
  <2> QED
    BY <2>1 DEF Stretches, Opens
<1>2. CASE kind = "member"
  <2>1. PICK c \in i .. j : \E a : IsAlone(s, i, c - 1, Strings, a)
    BY <1>2, MembersAre DEF IsMemberAt
  <2>2. PICK a : IsAlone(s, i, c - 1, Strings, a)
    BY <2>1
  <2>3. a \in i .. c - 1 /\ c \in i .. j
    BY <2>2 DEF IsAlone
  <2>4. a \in i .. j
    BY ONLY <2>3, IsSpan(s, i, j) DEF IsSpan
  <2> QED
    BY <2>2, <2>4, Distinct DEF IsAlone
<1> QED
  BY <1>1, <1>2

\* Leaves, spaces, brackets and what follows a value are different symbols.
LEMMA FirstDistinct ==
    /\ \A x \in Leaves \union Opens : x \notin Spaces \union Follows
    /\ \A x \in Follows : x \notin Spaces
    /\ \A x \in Leaves : x \notin Opens
BY StringsAssumption DEF Opens, Leaves, Spaces, Follows

\* So it does not begin with what follows one.
LEMMA BeginsInside ==
    ASSUME NEW s, NEW i, NEW j, IsSpan(s, i, j), NEW kind \in {"value", "member"},
           NEW t \in Said(s, kind, i, j)
    PROVE  i <= j /\ s[i] \notin Follows
<1>1. PICK o \in i .. j : s[o] \in Leaves \union Opens /\ Blank(s, i, o - 1)
  BY ElementFirst
<1>2. i \in Int /\ j \in Int /\ o \in Int /\ i <= o /\ i <= j
  BY ONLY IsSpan(s, i, j), o \in i .. j DEF IsSpan
<1>3. o # i => i \in i .. o - 1
  BY ONLY <1>2
<1>4. o # i => s[i] \in Spaces
  BY <1>1, <1>3 DEF Blank
<1> QED
  BY <1>1, <1>2, <1>4, FirstDistinct

\* Behind the spaces before a wanted value there is its first symbol.
LEMMA StillThere ==
    ASSUME NEW s, NEW v, IsWanted(s, v), NEW p \in Nat, v[1] <= p, Blank(s, v[1], p - 1)
    PROVE  /\ p \in v[1] .. v[2] /\ p \in 1 .. Len(s)
           /\ s[p] \notin Spaces => \E e : Stretches(s, v[1], v[2], v[3], p, e)
<1> DEFINE i == v[1]
           j == v[2]
<1>1. IsSpan(s, i, j) /\ v[3] \in Said(s, "value", i, j)
  BY DEF IsWanted
<1>2. PICK o, e : Stretches(s, i, j, v[3], o, e)
  BY <1>1, ValueShape
<1>3. o \in i .. j /\ Blank(s, i, o - 1) /\ s[o] \in Leaves \union Opens
  BY <1>2 DEF Stretches, Opens
<1>4. i <= p /\ Blank(s, i, p - 1)
  OBVIOUS
<1> HIDE DEF i, j
<1>5. i \in Nat /\ j \in Nat /\ 1 <= i /\ j <= Len(s) /\ Len(s) \in Nat
  <2>1. o \in i .. j
    BY <1>3
  <2> QED
    BY ONLY <1>1, <2>1 DEF IsSpan
<1>6. ~(o < p)
  <2>1. o \in i .. j /\ p \in Nat
    BY <1>3
  <2>2. o < p => o \in i .. p - 1
    BY ONLY <1>5, <2>1
  <2> QED
    BY <1>3, <1>4, <2>2, FirstDistinct DEF Blank
<1>7. p \in i .. j /\ p \in 1 .. Len(s)
  <2>1. o \in i .. j /\ p \in Nat /\ i <= p
    BY <1>3, <1>4
  <2> QED
    BY ONLY <1>5, <1>6, <2>1
<1>8. s[p] \notin Spaces => p = o
  <2>1. o \in i .. j /\ p \in Nat /\ i <= p
    BY <1>3, <1>4
  <2>2. p # o => p \in i .. o - 1
    BY ONLY <1>5, <1>6, <2>1
  <2> QED
    BY <1>3, <2>2 DEF Blank
<1> QED
  BY <1>2, <1>7, <1>8 DEF i, j

\* Where a container's brackets are.
LEMMA ContainerIs ==
    ASSUME NEW s, NEW u, NEW q, NEW e, NEW kind, NEW list, Container(s, u, q, e, kind, list)
    PROVE  /\ q \in Nat /\ e \in Nat /\ Len(s) \in Nat /\ u[1] \in 1 .. q /\ q < e
           /\ e \in 1 .. Len(s) /\ e <= u[2] /\ u[2] \in 1 .. Len(s)
           /\ IsSpan(s, q + 1, e - 1)
           /\ s[q] = Left(kind) /\ s[e] = Right(kind)
           /\ Blank(s, u[1], q - 1) /\ Blank(s, e + 1, u[2])
           /\ list \in Said(s, kind, q + 1, e - 1) /\ kind \in {"values", "members"}
           /\ AreListed(One(kind), kind) /\ One(kind) \in {"value", "member"}
<1>1. /\ IsSpan(s, u[1], u[2]) /\ kind \in {"values", "members"}
      /\ list \in Said(s, kind, q + 1, e - 1)
  BY DEF Container
<1>2. /\ q \in u[1] .. u[2] /\ e \in u[1] .. u[2] /\ q < e
      /\ s[q] = Left(kind) /\ s[e] = Right(kind)
      /\ Blank(s, u[1], q - 1) /\ Blank(s, e + 1, u[2])
  BY DEF Container, AreAround
<1>3. q \in u[1] .. u[2] /\ e \in u[1] .. u[2] /\ q < e
  BY <1>2
<1>4. /\ q \in Nat /\ e \in Nat /\ Len(s) \in Nat /\ u[1] \in 1 .. q /\ q < e
      /\ e \in 1 .. Len(s) /\ e <= u[2] /\ u[2] \in 1 .. Len(s)
      /\ IsSpan(s, q + 1, e - 1)
  <2> DEFINE i == u[1]
             j == u[2]
  <2>1. IsSpan(s, i, j)
    BY <1>1
  <2>2. q \in i .. j /\ e \in i .. j /\ q < e
    BY <1>3
  <2> HIDE DEF i, j
  <2>3. /\ q \in Nat /\ e \in Nat /\ Len(s) \in Nat /\ i \in 1 .. q /\ q < e
        /\ e \in 1 .. Len(s) /\ e <= j /\ j \in 1 .. Len(s)
        /\ IsSpan(s, q + 1, e - 1)
    BY ONLY <2>1, <2>2 DEF IsSpan
  <2> QED
    BY <2>3 DEF i, j
<1> QED
  BY <1>1, <1>2, <1>4 DEF One, AreListed

\* Behind the m-th element, at p, there is a comma or the bracket.
EndsAt(s, kind, list, m, p) ==
    /\ m = Len(list) => s[p] = Right(kind)
    /\ m # Len(list) => s[p] = Separator

\* Where its parts are.
LEMMA PartIs ==
    ASSUME NEW s, NEW u, NEW q, NEW e, NEW kind, NEW list, Container(s, u, q, e, kind, list),
           NEW c, Parts(s, kind, list, c, q, e), NEW m \in 0 .. Len(list) - 1
    PROVE  /\ c[m] \in Nat /\ c[m + 1] \in Nat /\ IsSpan(s, c[m] + 1, c[m + 1] - 1)
           /\ list[m + 1] \in Said(s, One(kind), c[m] + 1, c[m + 1] - 1)
           /\ c[m + 1] \in 1 .. Len(s) /\ c[m] + 1 <= c[m + 1]
           /\ m + 1 \in 1 .. Len(list)
           /\ EndsAt(s, kind, list, m + 1, c[m + 1])
<1> DEFINE n == Len(list)
           k == m + 1
<1>1. n \in Nat \ {0} /\ c \in [Nat -> Nat] /\ c[0] = q /\ c[n] = e
  BY DEF Parts
<1>2. \A x \in 1 .. n :
         /\ IsSpan(s, c[x - 1] + 1, c[x] - 1)
         /\ list[x] \in Said(s, One(kind), c[x - 1] + 1, c[x] - 1)
         /\ x # n => s[c[x]] = Separator
  BY DEF Parts
<1>3. m \in 0 .. n - 1
  OBVIOUS
<1> HIDE DEF n
<1>4. m \in Nat /\ k \in 1 .. n /\ k - 1 = m /\ k \in Nat
  BY ONLY <1>1, <1>3
<1>5. k # n => k + 1 \in 1 .. n /\ (k + 1) - 1 = k
  BY ONLY <1>1, <1>3
<1> HIDE DEF k
<1>6. /\ c[m] \in Nat /\ c[k] \in Nat /\ IsSpan(s, c[m] + 1, c[k] - 1)
      /\ list[k] \in Said(s, One(kind), c[m] + 1, c[k] - 1)
      /\ k # n => s[c[k]] = Separator
  <2>1. c[m] \in Nat /\ c[k] \in Nat
    BY <1>1, <1>4
  <2> QED
    BY <1>2, <1>4, <2>1
<1>7. c[k] <= Len(s)
  <2>1. CASE k = n
    <3>1. e \in 1 .. Len(s)
      BY ContainerIs
    <3> QED
      BY <1>1, <2>1, <3>1
  <2>2. CASE k # n
    <3>1. IsSpan(s, c[k] + 1, c[k + 1] - 1)
      BY <1>2, <1>5, <2>2
    <3>2. c[k] \in Nat
      BY <1>6
    <3> QED
      BY ONLY <3>1, <3>2 DEF IsSpan
  <2> QED
    BY <2>1, <2>2
<1>8. c[k] \in 1 .. Len(s) /\ c[m] + 1 <= c[k]
  <2>1. c[m] \in Nat /\ c[k] \in Nat /\ IsSpan(s, c[m] + 1, c[k] - 1)
    BY <1>6
  <2> QED
    BY ONLY <1>7, <2>1 DEF IsSpan
<1>9. EndsAt(s, kind, list, k, c[k])
  <2>1. s[e] = Right(kind)
    BY ContainerIs
  <2> QED
    BY <1>1, <1>6, <2>1 DEF EndsAt, n
<1> QED
  BY <1>4, <1>6, <1>8, <1>9 DEF k, n

\* A container's type tells the kind of its elements.
LEMMA NodeKind ==
    ASSUME NEW kind, NEW list
    PROVE  /\ NodeOf(kind, list)[1] = "array" <=> kind = "values"
           /\ NodeOf(kind, list)[1] = "object" <=> kind # "values"
           /\ kind = "values" => NodeOf(kind, list)[2] = list
BY DEF NodeOf, Array, ObjectOf, Object

\* The next element is wanted once m of them are read: an item or a name.
LEMMA ElementPlaced ==
    ASSUME NEW s, NEW u, NEW q, NEW e, NEW kind, NEW list, Container(s, u, q, e, kind, list),
           NEW c, Parts(s, kind, list, c, q, e), NEW m \in 0 .. Len(list) - 1,
           NEW fr, fr.node = NodeOf(kind, Prefix(list, m)), ~fr.nul, fr.name = "none"
    PROVE  \E v : Place(s, fr, u, v) /\ v[1] = c[m] + 1
<1> DEFINE i == c[m] + 1
           j == c[m + 1] - 1
<1>1. /\ c[m] \in Nat /\ c[m + 1] \in Nat /\ IsSpan(s, i, j)
      /\ list[m + 1] \in Said(s, One(kind), i, j)
      /\ s[c[m + 1]] \in Follows /\ kind \in {"values", "members"}
  <2>1. Right(kind) \in Follows /\ Separator \in Follows
    BY DEF Right, Follows, Separator
  <2>2. /\ c[m] \in Nat /\ c[m + 1] \in Nat /\ IsSpan(s, i, j)
        /\ list[m + 1] \in Said(s, One(kind), i, j)
    BY PartIs
  <2>3. EndsAt(s, kind, list, m + 1, c[m + 1])
    BY PartIs
  <2>4. kind \in {"values", "members"}
    BY DEF Container
  <2>5. s[c[m + 1]] \in {Right(kind), Separator}
    BY <2>3 DEF EndsAt
  <2> QED
    BY <2>1, <2>2, <2>4, <2>5
<1>2. j + 1 = c[m + 1]
  BY <1>1
<1>3. CASE kind = "values"
  <2> DEFINE v == <<i, j, list[m + 1]>>
  <2>1. v[1] = i /\ v[2] = j /\ v[3] = list[m + 1]
    OBVIOUS
  <2>2. IsNext(s, fr, c, list, m, kind, v)
    BY <1>3 DEF IsNext
  <2> HIDE DEF v, i, j
  <2>3. IsWanted(s, v)
    BY <1>1, <1>2, <1>3, <2>1 DEF IsWanted, One
  <2>4. Placing(s, fr, u, v, q, e, kind, list, c, m)
    BY <2>2 DEF Placing
  <2>5. Place(s, fr, u, v)
    BY <2>3, <2>4 DEF Place
  <2> QED
    BY <2>1, <2>5 DEF i
<1>4. CASE kind = "members"
  <2>1. IsMemberAt(s, i, j, list[m + 1])
    <3>1. list[m + 1] \in Said(s, "member", i, j)
      BY <1>1, <1>4 DEF One
    <3> HIDE DEF i, j
    <3> QED
      BY <1>1, <3>1, MembersAre
  <2> HIDE DEF i, j
  <2>2. PICK d, a, t : IsMember(s, i, j, list[m + 1], d, a, t)
    BY <2>1, Zenon DEF IsMemberAt, IsMember
  <2>3. d \in i .. j /\ s[d] = ":" /\ IsAlone(s, i, d - 1, Strings, a)
    BY <2>2 DEF IsMember
  <2> DEFINE v == <<i, d - 1, Leaf(s[a])>>
  <2>4. v[1] = i /\ v[2] = d - 1 /\ v[3] = Leaf(s[a])
    OBVIOUS
  <2>5. IsNext(s, fr, c, list, m, kind, v)
    BY <1>4, <2>2 DEF IsNext, i, j
  <2> HIDE DEF v
  <2>6. IsSpan(s, i, d - 1) /\ (d - 1) + 1 = d
    <3>1. d \in i .. j /\ IsSpan(s, i, j)
      BY <1>1, <2>3
    <3> QED
      BY ONLY <3>1 DEF IsSpan
  <2>7. Leaf(s[a]) \in Said(s, "value", i, d - 1)
    <3>1. IsAlone(s, i, d - 1, Leaves, a)
      BY <2>3, Distinct DEF IsAlone
    <3>2. IsLeafAt(s, i, d - 1, Leaf(s[a]))
      BY <3>1 DEF IsLeafAt
    <3> QED
      BY <2>6, <3>2, ValuesAre
  <2>8. s[(d - 1) + 1] \in Follows
    BY <2>3, <2>6 DEF Follows
  <2>9. IsWanted(s, v)
    BY <2>4, <2>6, <2>7, <2>8 DEF IsWanted
  <2>10. Placing(s, fr, u, v, q, e, kind, list, c, m)
    BY <2>5 DEF Placing
  <2>11. Place(s, fr, u, v)
    BY <2>9, <2>10 DEF Place
  <2> QED
    BY <2>4, <2>11 DEF i
<1> QED
  BY <1>1, <1>3, <1>4

\* Nothing but a bracket has been read of a list that is not empty ...
LEMMA FirstThere ==
    ASSUME NEW s, NEW fr, NEW u, NEW p, NEW q, NEW e, NEW kind, NEW list, NEW c, NEW m,
           LoopedAt(s, fr, u, p, q, e, kind, list, c, m), ~fr.comma
    PROVE  p \in 1 .. Len(s) /\ s[p] \notin Follows
<1>1. /\ Container(s, u, q, e, kind, list) /\ Parts(s, kind, list, c, q, e) /\ p = q + 1
  BY DEF LoopedAt
<1>2. Len(list) \in Nat \ {0} /\ c[0] = q
  BY <1>1 DEF Parts
<1>3. 0 \in 0 .. Len(list) - 1 /\ 0 + 1 = 1
  BY <1>2
<1>4. /\ IsSpan(s, c[0] + 1, c[1] - 1) /\ list[1] \in Said(s, One(kind), c[0] + 1, c[1] - 1)
      /\ c[1] \in 1 .. Len(s)
  <2>1. /\ IsSpan(s, c[0] + 1, c[0 + 1] - 1)
        /\ list[0 + 1] \in Said(s, One(kind), c[0] + 1, c[0 + 1] - 1)
        /\ c[0 + 1] \in 1 .. Len(s)
    BY <1>1, <1>3, PartIs
  <2> QED
    BY <1>3, <2>1
<1>5. One(kind) \in {"value", "member"}
  BY DEF One
<1>6. c[0] + 1 <= c[1] - 1 /\ s[c[0] + 1] \notin Follows
  BY <1>4, <1>5, BeginsInside
<1>7. p <= c[1] - 1 /\ s[p] \notin Follows
  BY <1>1, <1>2, <1>6
<1>8. p = q + 1 /\ q \in Nat /\ p <= c[1] - 1 /\ c[1] \in 1 .. Len(s) /\ Len(s) \in Nat
  BY <1>1, <1>4, <1>7, ContainerIs
<1>9. p \in 1 .. Len(s)
  BY ONLY <1>8
<1> QED
  BY <1>7, <1>9

\* ... whose first element is wanted.
LEMMA FirstPlaced ==
    ASSUME NEW s, NEW fr, NEW u, NEW p, NEW q, NEW e, NEW kind, NEW list, NEW c, NEW m,
           LoopedAt(s, fr, u, p, q, e, kind, list, c, m), ~fr.comma,
           NEW f, f.node = fr.node, ~f.nul, f.name = "none"
    PROVE  \E v : Place(s, f, u, v) /\ v[1] = p
<1>1. /\ Container(s, u, q, e, kind, list) /\ Parts(s, kind, list, c, q, e)
      /\ m = 0 /\ p = q + 1 /\ fr.node = NodeOf(kind, Prefix(list, 0))
  BY DEF LoopedAt
<1>2. Len(list) \in Nat \ {0} /\ c[0] = q
  BY <1>1 DEF Parts
<1>3. 0 \in 0 .. Len(list) - 1
  BY <1>2
<1>4. PICK v : Place(s, f, u, v) /\ v[1] = c[0] + 1
  BY <1>1, <1>3, ElementPlaced
<1> QED
  BY <1>1, <1>2, <1>4

\* An element has been read: a comma or the bracket follows.
LEMMA BehindElement ==
    ASSUME NEW s, NEW fr, NEW u, NEW p, NEW q, NEW e, NEW kind, NEW list, NEW c, NEW m,
           LoopedAt(s, fr, u, p, q, e, kind, list, c, m), fr.comma
    PROVE  /\ p \in 1 .. Len(s) /\ Len(list) \in Nat \ {0} /\ m \in 1 .. Len(list)
           /\ EndsAt(s, kind, list, m, p)
           /\ m = Len(list) => p = e
           /\ p = c[m]
<1>1. /\ Container(s, u, q, e, kind, list) /\ Parts(s, kind, list, c, q, e)
      /\ m \in 0 .. Len(list) /\ m # 0 /\ p = c[m]
  BY DEF LoopedAt
<1>2. Len(list) \in Nat \ {0} /\ c[Len(list)] = e
  BY <1>1 DEF Parts
<1> DEFINE k == m - 1
<1>3. k \in 0 .. Len(list) - 1 /\ k + 1 = m /\ m \in 1 .. Len(list)
  <2>1. m \in 0 .. Len(list) /\ m # 0
    BY <1>1
  <2> QED
    BY ONLY <1>2, <2>1
<1> HIDE DEF k
<1>4. ASSUME NEW x \in 0 .. Len(list) - 1
      PROVE  c[x + 1] \in 1 .. Len(s) /\ EndsAt(s, kind, list, x + 1, c[x + 1])
  <2>1. Container(s, u, q, e, kind, list) /\ Parts(s, kind, list, c, q, e)
    BY <1>1
  <2> QED
    BY <2>1, PartIs
<1> QED
  BY <1>1, <1>2, <1>3, <1>4

\* An empty list has nothing but spaces between its brackets.
LEMMA EmptyInside ==
    ASSUME NEW s, NEW u, NEW q, NEW e, NEW kind, Container(s, u, q, e, kind, <<>>)
    PROVE  Blank(s, q + 1, e - 1)
<1>1. /\ q \in Nat /\ e \in Nat /\ q < e /\ IsSpan(s, q + 1, e - 1)
      /\ kind \in {"values", "members"} /\ AreListed(One(kind), kind)
      /\ <<>> \in Said(s, kind, q + 1, e - 1)
  BY ContainerIs
<1>2. ASSUME NEW b, NEW front, NEW x, EndsWithOne(s, One(kind), kind, q + 1, e - 1, <<>>, b, front, x)
      PROVE  FALSE
  <2>1. <<>> # <<x>>
    OBVIOUS
  <2>2. /\ front # <<>> /\ q + 1 < b /\ <<>> = Append(front, x)
        /\ IsSpan(s, q + 1, b - 2) /\ front \in Said(s, kind, q + 1, b - 2)
    BY <1>2, <2>1 DEF EndsWithOne
  <2>3. IsSpan(s, b, e - 1)
    BY <1>2 DEF EndsWithOne
  <2> DEFINE d == b - 1
  <2>4. d \in Nat /\ d - 1 = b - 2
    <3>1. q + 1 < b /\ q \in Nat
      BY <1>1, <2>2
    <3> QED
      BY ONLY <2>3, <3>1 DEF IsSpan
  <2> HIDE DEF d
  <2>5. IsSpan(s, q + 1, d - 1) /\ front \in Said(s, kind, q + 1, d - 1)
    BY <2>2, <2>4
  <2>6. PICK c : Parts(s, kind, front, c, q, d)
    BY <1>1, <2>2, <2>4, <2>5, PartsThere
  <2>7. AnySeq(front)
    BY <2>6 DEF Parts
  <2> QED
    BY <2>2, <2>7, AppendIs
<1> QED
  BY <1>1, <1>2, ListShape

\* Commas, brackets and spaces are told apart.
LEMMA Separates ==
    /\ \A kind : Right(kind) # Separator /\ Right(kind) \in Follows
    /\ Separator \in Follows
    /\ \A x \in Spaces : x # Separator
BY DEF Right, Separator, Follows, Spaces

\* CloseContainer: the container is read, and its list is the whole one.
LEMMA ClosedIs ==
    ASSUME NEW s, NEW fr, NEW u, NEW p, Looped(s, fr, u, p),
           \A kind, list : fr.node = NodeOf(kind, list) => s[p] = Right(kind)
    PROVE  /\ fr.node = u[3] /\ p + 1 \in u[1] + 1 .. u[2] + 1 /\ Blank(s, p + 1, u[2])
           /\ p \in Nat
<1>1. ASSUME NEW q, NEW e, NEW kind, NEW list, Container(s, u, q, e, kind, list), p = e,
             fr.node = NodeOf(kind, list)
      PROVE  /\ fr.node = u[3] /\ p + 1 \in u[1] + 1 .. u[2] + 1 /\ Blank(s, p + 1, u[2])
             /\ p \in Nat
  <2>1. /\ q \in Nat /\ e \in Nat /\ u[1] \in 1 .. q /\ q < e /\ e <= u[2] /\ u[2] \in 1 .. Len(s)
        /\ Blank(s, e + 1, u[2]) /\ Len(s) \in Nat
    BY <1>1, ContainerIs
  <2> DEFINE i == u[1]
             j == u[2]
  <2>2. q \in Nat /\ e \in Nat /\ i \in 1 .. q /\ q < e /\ e <= j /\ j \in 1 .. Len(s) /\ Len(s) \in Nat
    BY <2>1
  <2> HIDE DEF i, j
  <2>3. e + 1 \in i + 1 .. j + 1
    BY ONLY <2>2
  <2> QED
    BY <1>1, <2>1, <2>3 DEF Container, i, j
<1>2. ASSUME NEW q, NEW e, NEW kind, LoopedEmpty(s, fr, u, p, q, e, kind)
      PROVE  p = e /\ Container(s, u, q, e, kind, <<>>) /\ fr.node = NodeOf(kind, <<>>)
  <2>1. /\ Container(s, u, q, e, kind, <<>>) /\ fr.node = NodeOf(kind, <<>>)
        /\ p = q + 1 \/ p = e
    BY <1>2 DEF LoopedEmpty
  <2>2. q \in Nat /\ e \in Nat /\ q < e
    BY <2>1, ContainerIs
  <2>3. Blank(s, q + 1, e - 1)
    BY <2>1, EmptyInside
  <2>4. p = q + 1 => p = e
    <3>1. q + 1 # e => q + 1 \in q + 1 .. e - 1
      BY ONLY <2>2
    <3>2. s[p] \notin Spaces
      BY <2>1, Separates, FirstDistinct
    <3> QED
      BY <2>3, <3>1, <3>2 DEF Blank
  <2> QED
    BY <2>1, <2>4
<1>3. ASSUME NEW q, NEW e, NEW kind, NEW list, NEW c, NEW m,
             LoopedAt(s, fr, u, p, q, e, kind, list, c, m)
      PROVE  p = e /\ Container(s, u, q, e, kind, list) /\ fr.node = NodeOf(kind, list)
  <2>1. /\ Container(s, u, q, e, kind, list) /\ Parts(s, kind, list, c, q, e)
        /\ fr.node = NodeOf(kind, Prefix(list, m)) /\ AnySeq(list)
    BY <1>3 DEF LoopedAt, Parts
  <2>2. fr.comma
    <3>1. s[p] \in Follows
      BY <2>1, Separates
    <3> QED
      BY <1>3, <3>1, FirstThere
  <2>3. m = Len(list) /\ p = e
    <3>1. EndsAt(s, kind, list, m, p) /\ (m = Len(list) => p = e)
      BY ONLY <1>3, <2>2, BehindElement
    <3>2. m # Len(list) => s[p] = Separator
      BY ONLY <3>1 DEF EndsAt
    <3>3. s[p] # Separator
      BY <2>1, Separates
    <3> QED
      BY ONLY <3>1, <3>2, <3>3
  <2> QED
    BY <2>1, <2>3, PrefixIs
<1> QED
  BY <1>1, <1>2, <1>3 DEF Looped

\* Comma: the next element is wanted.
LEMMA CommaPlaced ==
    ASSUME NEW s, NEW fr, NEW u, NEW p, Looped(s, fr, u, p), fr.comma, s[p] = Separator,
           NEW f, f.node = fr.node, ~f.nul, f.name = "none"
    PROVE  \E v : Place(s, f, u, v) /\ v[1] = p + 1
<1>1. ASSUME NEW q, NEW e, NEW kind, LoopedEmpty(s, fr, u, p, q, e, kind) PROVE FALSE
  <2>1. Container(s, u, q, e, kind, <<>>) /\ p = e
    BY <1>1 DEF LoopedEmpty
  <2>2. s[e] = Right(kind)
    BY <2>1, ContainerIs
  <2> QED
    BY <2>1, <2>2, Separates
<1>2. ASSUME NEW q, NEW e, NEW kind, NEW list, NEW c, NEW m,
             LoopedAt(s, fr, u, p, q, e, kind, list, c, m)
      PROVE  \E v : Place(s, f, u, v) /\ v[1] = p + 1
  <2>1. /\ Container(s, u, q, e, kind, list) /\ Parts(s, kind, list, c, q, e)
        /\ fr.node = NodeOf(kind, Prefix(list, m))
    BY <1>2 DEF LoopedAt
  <2>2. /\ Len(list) \in Nat \ {0} /\ m \in 1 .. Len(list) /\ EndsAt(s, kind, list, m, p) /\ p = c[m]
    BY <1>2, BehindElement
  <2>3. m # Len(list)
    BY <2>2, Separates DEF EndsAt
  <2>4. m \in 0 .. Len(list) - 1
    <3>1. Len(list) \in Nat \ {0} /\ m \in 1 .. Len(list)
      BY <2>2
    <3> QED
      BY ONLY <2>3, <3>1
  <2> QED
    BY <2>1, <2>2, <2>4, ElementPlaced
<1> QED
  BY <1>1, <1>2 DEF Looped

\* Spaces and nothing else between brackets.
EnclosesBlank(s, kind) ==
    \E q, e \in 1 .. Len(s) : /\ q + 1 < e /\ s[q] = Left(kind) /\ s[e] = Right(kind)
                              /\ Blank(s, q + 1, e - 1)

\* An empty list whose loop is not at the bracket.
LEMMA EmptyLooped ==
    ASSUME NEW s, NEW fr, NEW u, NEW p, NEW q, NEW e, NEW kind,
           LoopedEmpty(s, fr, u, p, q, e, kind), s[p] # Right(kind)
    PROVE  /\ ~fr.comma /\ p = q + 1 /\ q + 1 < e /\ s[p] \in Spaces
           /\ EnclosesBlank(s, kind) /\ q + 1 \in q + 1 .. e
<1>1. /\ Container(s, u, q, e, kind, <<>>)
      /\ \/ ~fr.comma /\ p = q + 1
         \/ fr.comma /\ p = e
  BY DEF LoopedEmpty
<1>2. /\ q \in Nat /\ e \in Nat /\ q < e /\ e \in 1 .. Len(s) /\ s[e] = Right(kind)
      /\ u[1] \in 1 .. q /\ s[q] = Left(kind)
  BY <1>1, ContainerIs
<1>3. p # e
  BY <1>2
<1>4. ~fr.comma /\ p = q + 1
  BY <1>1, <1>3
<1>5. /\ q \in Nat /\ e \in Nat /\ q < e /\ e \in 1 .. Len(s) /\ q + 1 # e
  BY <1>2, <1>3, <1>4
<1>6. q + 1 < e /\ q + 1 \in q + 1 .. e - 1 /\ q + 1 \in q + 1 .. e
  BY ONLY <1>5
<1>7. q # 0
  BY <1>2
<1>8. q \in 1 .. Len(s)
  BY ONLY <1>5, <1>6, <1>7
<1>9. Blank(s, q + 1, e - 1)
  BY <1>1, EmptyInside
<1>10. s[p] \in Spaces
  BY <1>4, <1>6, <1>9 DEF Blank
<1>11. EnclosesBlank(s, kind)
  BY <1>2, <1>6, <1>8, <1>9 DEF EnclosesBlank
<1> QED
  BY <1>4, <1>6, <1>10, <1>11

\* NextChild: the first element is wanted, or there is none but spaces.
LEMMA ChildPlaced ==
    ASSUME NEW s, NEW fr, NEW u, NEW p, Looped(s, fr, u, p), ~fr.comma,
           \A kind, list : fr.node = NodeOf(kind, list) => s[p] # Right(kind),
           NEW f, f.node = fr.node, ~f.nul, f.name = "none"
    PROVE  \/ \E v : Place(s, f, u, v) /\ v[1] = p
           \/ Hollow(s, f, u, p)
           \/ EnclosesBlank(s, "members")
<1>1. ASSUME NEW q, NEW e, NEW kind, LoopedEmpty(s, fr, u, p, q, e, kind)
      PROVE  Hollow(s, f, u, p) \/ EnclosesBlank(s, "members")
  <2>1. Container(s, u, q, e, kind, <<>>) /\ fr.node = NodeOf(kind, <<>>)
    BY <1>1 DEF LoopedEmpty
  <2>2. p = q + 1 /\ q + 1 < e /\ q + 1 \in q + 1 .. e /\ EnclosesBlank(s, kind)
    BY <1>1, <2>1, EmptyLooped
  <2>3. CASE kind = "values"
    <3>1. HollowAt(s, f, u, p, q, e)
      BY <2>1, <2>2, <2>3 DEF HollowAt
    <3> QED
      BY <3>1 DEF Hollow
  <2>4. CASE kind = "members"
    BY <2>2, <2>4
  <2> QED
    BY <2>1, <2>3, <2>4 DEF Container
<1>2. ASSUME NEW q, NEW e, NEW kind, NEW list, NEW c, NEW m,
             LoopedAt(s, fr, u, p, q, e, kind, list, c, m)
      PROVE  \E v : Place(s, f, u, v) /\ v[1] = p
  BY <1>2, FirstPlaced
<1> QED
  BY <1>1, <1>2 DEF Looped

\* The loop does not fail.
LEMMA CommaExpected ==
    ASSUME NEW s, NEW fr, NEW u, NEW p, Looped(s, fr, u, p),
           \A kind, list : fr.node = NodeOf(kind, list) => s[p] # Right(kind)
    PROVE  /\ fr.comma => s[p] = Separator
           /\ s[p] = Separator => fr.comma
<1>1. ASSUME NEW q, NEW e, NEW kind, LoopedEmpty(s, fr, u, p, q, e, kind)
      PROVE  ~fr.comma /\ s[p] # Separator
  <2>1. fr.node = NodeOf(kind, <<>>)
    BY <1>1 DEF LoopedEmpty
  <2>2. ~fr.comma /\ s[p] \in Spaces
    BY <1>1, <2>1, EmptyLooped
  <2> QED
    BY <2>2, Separates
<1>2. ASSUME NEW q, NEW e, NEW kind, NEW list, NEW c, NEW m,
             LoopedAt(s, fr, u, p, q, e, kind, list, c, m)
      PROVE  /\ fr.comma => s[p] = Separator
             /\ s[p] = Separator => fr.comma
  <2>1. fr.node = NodeOf(kind, Prefix(list, m))
    BY <1>2 DEF LoopedAt
  <2>2. ASSUME fr.comma PROVE s[p] = Separator
    <3>1. EndsAt(s, kind, list, m, p)
      BY <1>2, <2>2, BehindElement
    <3> QED
      BY <2>1, <3>1 DEF EndsAt
  <2>3. ASSUME ~fr.comma PROVE s[p] # Separator
    <3>1. s[p] \notin Follows
      BY <1>2, <2>3, FirstThere
    <3> QED
      BY <3>1, Separates
  <2> QED
    BY <2>2, <2>3
<1> QED
  BY <1>1, <1>2 DEF Looped

\* OpenContainer: the loop of a wanted container begins.
LEMMA OpenedLoops ==
    ASSUME NEW s, NEW v, IsWanted(s, v), NEW p, NEW e, Stretches(s, v[1], v[2], v[3], p, e),
           NEW kind \in {"values", "members"}, s[p] = Left(kind),
           NEW f, f.node = NodeOf(kind, <<>>), ~f.comma
    PROVE  Looped(s, f, v, p + 1)
<1>1. IsSpan(s, v[1], v[2])
  BY DEF IsWanted
<1>2. \E list : Container(s, v, p, e, kind, list)
  <2>1. /\ p \in v[1] .. v[2] /\ e \in v[1] .. v[2]
        /\ Blank(s, v[1], p - 1) /\ Blank(s, e + 1, v[2])
    BY DEF Stretches
  <2>2. s[p] \in Opens
    BY DEF Left, Opens
  <2>3. s[p] \notin Leaves
    BY <2>2, FirstDistinct
  <2>4. CASE /\ s[e] = "]" /\ s[p] = "[" /\ p < e
             /\ \E kids \in Said(s, "values", p + 1, e - 1) : v[3] = Array(kids)
    <3>1. kind = "values" /\ s[e] = Right("values") /\ s[p] = Left("values")
      BY <2>4 DEF Left, Right
    <3>2. PICK kids \in Said(s, "values", p + 1, e - 1) : v[3] = NodeOf("values", kids)
      BY <2>4 DEF NodeOf
    <3>3. p < e
      BY <2>4
    <3>4. AreAround(s, v[1], v[2], Left(kind), Right(kind), p, e)
      BY <2>1, <3>1, <3>3 DEF AreAround
    <3>5. Container(s, v, p, e, kind, kids)
      BY <1>1, <3>1, <3>2, <3>4 DEF Container
    <3> QED
      BY <3>5
  <2>5. CASE /\ s[e] = "}" /\ s[p] = "{" /\ p < e
             /\ \E mems \in Said(s, "members", p + 1, e - 1) : v[3] = ObjectOf(mems)
    <3>1. kind = "members" /\ s[e] = Right("members") /\ s[p] = Left("members")
      BY <2>5 DEF Left, Right
    <3>2. PICK mems \in Said(s, "members", p + 1, e - 1) : v[3] = NodeOf("members", mems)
      BY <2>5 DEF NodeOf
    <3>3. p < e
      BY <2>5
    <3>4. AreAround(s, v[1], v[2], Left(kind), Right(kind), p, e)
      BY ONLY <2>1, <3>1, <3>3 DEF AreAround
    <3>5. Container(s, v, p, e, kind, mems)
      BY ONLY <1>1, <3>1, <3>2, <3>4 DEF Container
    <3> QED
      BY ONLY <3>5
  <2> QED
    BY <2>3, <2>4, <2>5 DEF Stretches
<1>3. PICK list : Container(s, v, p, e, kind, list)
  BY <1>2
<1>4. CASE list = <<>>
  <2>1. LoopedEmpty(s, f, v, p + 1, p, e, kind)
    BY <1>3, <1>4 DEF LoopedEmpty
  <2> QED
    BY <2>1 DEF Looped
<1>5. CASE list # <<>>
  <2>1. /\ p \in Nat /\ e \in Nat /\ IsSpan(s, p + 1, e - 1) /\ list \in Said(s, kind, p + 1, e - 1)
    BY <1>3, ContainerIs
  <2>2. PICK c : Parts(s, kind, list, c, p, e)
    BY <1>5, <2>1, PartsThere
  <2>3. AnySeq(list) /\ Len(list) \in Nat
    BY <2>2 DEF Parts
  <2>4. Prefix(list, 0) = <<>> /\ 0 \in 0 .. Len(list)
    BY <2>3, PrefixIs
  <2>5. LoopedAt(s, f, v, p + 1, p, e, kind, list, c, 0)
    BY <1>3, <2>2, <2>4 DEF LoopedAt
  <2> QED
    BY <2>5 DEF Looped
<1> QED
  BY <1>4, <1>5

\* One more element has been read.
LEMMA ElementTaken ==
    ASSUME NEW s, NEW u, NEW q, NEW e, NEW kind, NEW list, Container(s, u, q, e, kind, list),
           NEW c, Parts(s, kind, list, c, q, e), NEW m \in 0 .. Len(list) - 1,
           NEW f, f.node = NodeOf(kind, Append(Prefix(list, m), list[m + 1])), f.comma
    PROVE  Looped(s, f, u, c[m + 1])
<1>1. AnySeq(list) /\ Len(list) \in Nat \ {0}
  BY DEF Parts
<1>2. Append(Prefix(list, m), list[m + 1]) = Prefix(list, m + 1)
  BY <1>1, PrefixIs
<1> DEFINE k == m + 1
<1>3. k \in 0 .. Len(list) /\ k # 0
  <2>1. m \in 0 .. Len(list) - 1
    OBVIOUS
  <2> QED
    BY ONLY <1>1, <2>1
<1>4. f.node = NodeOf(kind, Prefix(list, k))
  BY <1>2
<1> HIDE DEF k
<1>5. LoopedAt(s, f, u, c[k], q, e, kind, list, c, k)
  BY <1>3, <1>4 DEF LoopedAt
<1> QED
  BY <1>5 DEF Looped, k

\* What is known where a value is read.
LEMMA PlaceIs ==
    ASSUME NEW s, NEW fr, NEW u, NEW v, Place(s, fr, u, v)
    PROVE  /\ IsWanted(s, v) /\ ~fr.nul
           /\ \E q, e, kind, list, c, m : Placing(s, fr, u, v, q, e, kind, list, c, m)
BY DEF Place, Placing

\* ReturnItem: the item is appended.
LEMMA ItemTaken ==
    ASSUME NEW s, NEW fr, NEW u, NEW v, Place(s, fr, u, v), fr.node[1] = "array",
           NEW f, f.node = WithItem(fr.node, v[3]), f.comma
    PROVE  Looped(s, f, u, v[2] + 1)
<1>1. PICK q, e, kind, list, c, m : Placing(s, fr, u, v, q, e, kind, list, c, m)
  BY PlaceIs
<1>2. /\ Container(s, u, q, e, kind, list) /\ Parts(s, kind, list, c, q, e)
      /\ m \in 0 .. Len(list) - 1 /\ fr.node = NodeOf(kind, Prefix(list, m))
      /\ IsNext(s, fr, c, list, m, kind, v)
  BY <1>1 DEF Placing
<1>3. kind = "values"
  BY <1>2, NodeKind
<1>4. v = <<c[m] + 1, c[m + 1] - 1, list[m + 1]>>
  BY <1>2, <1>3 DEF IsNext
<1>5. v[3] = list[m + 1] /\ v[2] = c[m + 1] - 1
  BY <1>4
<1>6. f.node = NodeOf(kind, Append(Prefix(list, m), list[m + 1]))
  <2>1. fr.node[2] = Prefix(list, m)
    BY <1>2, <1>3, NodeKind
  <2> QED
    BY <1>3, <1>5, <2>1 DEF WithItem, NodeOf
<1>7. c[m + 1] \in Nat
  BY <1>2, PartIs
<1>8. v[2] + 1 = c[m + 1]
  BY <1>5, <1>7
<1> QED
  BY <1>2, <1>6, <1>8, ElementTaken

\* ReturnMember: the member is set.
LEMMA MemberTaken ==
    ASSUME NEW s, NEW fr, NEW u, NEW v, Place(s, fr, u, v), fr.node[1] = "object",
           fr.name # "none", NEW f, f.node = WithMember(fr.node, fr.name, v[3]), f.comma
    PROVE  Looped(s, f, u, v[2] + 1)
<1>1. PICK q, e, kind, list, c, m : Placing(s, fr, u, v, q, e, kind, list, c, m)
  BY PlaceIs
<1>2. /\ Container(s, u, q, e, kind, list) /\ Parts(s, kind, list, c, q, e)
      /\ m \in 0 .. Len(list) - 1 /\ fr.node = NodeOf(kind, Prefix(list, m))
      /\ IsNext(s, fr, c, list, m, kind, v)
  BY <1>1 DEF Placing
<1>3. kind # "values"
  BY <1>2, NodeKind
<1>4. PICK d, a, t : /\ IsMember(s, c[m] + 1, c[m + 1] - 1, list[m + 1], d, a, t)
                     /\ fr.name = s[a] /\ v = <<d + 1, c[m + 1] - 1, t>>
  BY <1>2, <1>3 DEF IsNext
<1>5. v[3] = t /\ v[2] = c[m + 1] - 1
  BY <1>4
<1>6. list[m + 1] = <<fr.name, t>>
  BY <1>4 DEF IsMember
<1>7. f.node = NodeOf(kind, Append(Prefix(list, m), list[m + 1]))
  <2>1. AnySeq(list)
    BY <1>2 DEF Parts
  <2>2. AnySeq(Prefix(list, m))
    BY <1>2, <2>1, PrefixIs
  <2>3. ObjectOf(Append(Prefix(list, m), <<fr.name, t>>)) = WithMember(ObjectOf(Prefix(list, m)), fr.name, t)
    BY <2>2, ObjectOfAppend
  <2>4. fr.node = ObjectOf(Prefix(list, m))
    BY <1>2, <1>3 DEF NodeOf
  <2> QED
    BY <1>3, <1>5, <1>6, <2>3, <2>4 DEF NodeOf
<1>8. c[m + 1] \in Nat
  BY <1>2, PartIs
<1>9. v[2] + 1 = c[m + 1]
  BY <1>5, <1>8
<1> QED
  BY <1>2, <1>7, <1>9, ElementTaken

\* ReturnName: the value of the member is wanted.
LEMMA NameTaken ==
    ASSUME NEW s, NEW fr, NEW u, NEW v, Place(s, fr, u, v), fr.node[1] = "object",
           fr.name = "none", NEW f, f.node = fr.node, f.name = v[3][1], ~f.nul
    PROVE  /\ v[3][1] \in Strings /\ v[2] + 1 \in 1 .. Len(s) /\ s[v[2] + 1] = ":"
           /\ \E y : Place(s, f, u, y) /\ y[1] = (v[2] + 1) + 1
<1>1. PICK q, e, kind, list, c, m : Placing(s, fr, u, v, q, e, kind, list, c, m)
  BY PlaceIs
<1>2. /\ Container(s, u, q, e, kind, list) /\ Parts(s, kind, list, c, q, e)
      /\ m \in 0 .. Len(list) - 1 /\ fr.node = NodeOf(kind, Prefix(list, m))
      /\ IsNext(s, fr, c, list, m, kind, v)
  BY <1>1 DEF Placing
<1> DEFINE i == c[m] + 1
           j == c[m + 1] - 1
<1>3. kind = "members"
  BY <1>2, NodeKind DEF Container
<1>4. PICK d, a, t : /\ IsMember(s, i, j, list[m + 1], d, a, t)
                     /\ \/ fr.name = "none" /\ v = <<i, d - 1, Leaf(s[a])>>
                        \/ fr.name = s[a] /\ v = <<d + 1, j, t>>
  BY <1>2, <1>3 DEF IsNext
<1>5. /\ d \in i .. j /\ s[d] = ":" /\ IsAlone(s, i, d - 1, Strings, a)
      /\ t \in Said(s, "value", d + 1, j)
  BY <1>4 DEF IsMember
<1>6. s[a] \in Strings /\ s[a] # "none"
  BY <1>5, StringsAssumption DEF IsAlone
<1>7. v = <<i, d - 1, Leaf(s[a])>>
  BY <1>4, <1>6
<1>8. v[3][1] = s[a] /\ v[2] = d - 1
  BY <1>7 DEF Leaf
<1>9. /\ IsSpan(s, i, j) /\ c[m + 1] \in Nat /\ c[m + 1] \in 1 .. Len(s)
      /\ EndsAt(s, kind, list, m + 1, c[m + 1])
  BY <1>2, PartIs
<1>10. j + 1 = c[m + 1] /\ s[c[m + 1]] \in Follows
  BY <1>9, Separates DEF EndsAt
<1> DEFINE y == <<d + 1, j, t>>
<1>11. y[1] = d + 1 /\ y[2] = j /\ y[3] = t
  OBVIOUS
<1>12. IsNext(s, f, c, list, m, kind, y)
  BY <1>3, <1>4, <1>8 DEF IsNext
<1>13. d \in i .. j
  BY <1>5
<1> HIDE DEF i, j, y
<1>14. d \in 1 .. Len(s) /\ (d - 1) + 1 = d /\ IsSpan(s, d + 1, j)
  BY ONLY <1>9, <1>13 DEF IsSpan
<1>15. IsWanted(s, y)
  BY <1>5, <1>10, <1>11, <1>14 DEF IsWanted
<1>16. Placing(s, f, u, y, q, e, kind, list, c, m)
  BY <1>2, <1>12 DEF Placing
<1>17. Place(s, f, u, y)
  BY <1>15, <1>16 DEF Place
<1> QED
  BY <1>5, <1>6, <1>8, <1>11, <1>14, <1>17

\* CloseContainer after nothing: the array with spaces only.
LEMMA HollowLoops ==
    ASSUME NEW s, NEW fr, NEW u, NEW p, Hollow(s, fr, u, p), s[p] \notin Spaces
    PROVE  /\ p \in 1 .. Len(s) /\ s[p] = "]" /\ fr.node[1] = "array" /\ ~fr.nul
           /\ \A f : f.node = fr.node /\ f.comma => Looped(s, f, u, p)
           /\ EnclosesBlank(s, "values")
<1>1. PICK q, e : HollowAt(s, fr, u, p, q, e)
  BY DEF Hollow
<1>2. /\ Container(s, u, q, e, "values", <<>>) /\ fr.node = NodeOf("values", <<>>)
      /\ ~fr.nul /\ p \in q + 1 .. e /\ q + 1 < e
  BY <1>1 DEF HollowAt
<1>3. /\ q \in Nat /\ e \in Nat /\ e \in 1 .. Len(s) /\ u[1] \in 1 .. q
      /\ s[e] = Right("values") /\ s[q] = Left("values") /\ Blank(s, q + 1, e - 1)
  BY <1>2, ContainerIs, EmptyInside
<1>4. p = e
  <2>1. p # e => p \in q + 1 .. e - 1
    BY <1>2, <1>3
  <2> QED
    BY <1>3, <2>1 DEF Blank
<1>5. ASSUME NEW f, f.node = fr.node, f.comma PROVE Looped(s, f, u, p)
  <2>1. LoopedEmpty(s, f, u, p, q, e, "values")
    BY <1>2, <1>4, <1>5 DEF LoopedEmpty
  <2> QED
    BY <2>1 DEF Looped
<1>6. q \in 1 .. Len(s)
  <2>1. q # 0
    BY <1>3
  <2>2. q \in Nat /\ e \in 1 .. Len(s) /\ q + 1 < e
    BY <1>2, <1>3
  <2> QED
    BY ONLY <2>1, <2>2
<1>7. EnclosesBlank(s, "values")
  BY <1>2, <1>3, <1>6 DEF EnclosesBlank
<1>8. s[p] = "]" /\ fr.node[1] = "array"
  BY <1>2, <1>3, <1>4, NodeKind DEF Right
<1> QED
  BY <1>2, <1>3, <1>4, <1>5, <1>7, <1>8

\* A space less of an array with spaces only.
LEMMA HollowSpace ==
    ASSUME NEW s, NEW fr, NEW u, NEW p, Hollow(s, fr, u, p), s[p] \in Spaces
    PROVE  Hollow(s, fr, u, p + 1)
<1>1. PICK q, e : HollowAt(s, fr, u, p, q, e)
  BY DEF Hollow
<1>2. Container(s, u, q, e, "values", <<>>) /\ p \in q + 1 .. e
  BY <1>1 DEF HollowAt
<1>3. q \in Nat /\ e \in Nat /\ s[e] = Right("values")
  BY <1>2, ContainerIs
<1>4. p # e
  <2>1. Right("values") \notin Spaces
    BY Separates, FirstDistinct
  <2> QED
    BY <1>3, <2>1
<1>5. p + 1 \in q + 1 .. e
  BY <1>2, <1>3, <1>4
<1>6. HollowAt(s, fr, u, p + 1, q, e)
  BY <1>1, <1>5 DEF HollowAt
<1> QED
  BY <1>6 DEF Hollow

\* Where the loop is.
LEMMA LoopedIn ==
    ASSUME NEW s, NEW fr, NEW u, NEW p, Looped(s, fr, u, p)
    PROVE  p \in 1 .. Len(s) /\ \E kind, list : fr.node = NodeOf(kind, list)
<1>1. ASSUME NEW q, NEW e, NEW kind, LoopedEmpty(s, fr, u, p, q, e, kind)
      PROVE  p \in 1 .. Len(s) /\ fr.node = NodeOf(kind, <<>>)
  <2>1. /\ Container(s, u, q, e, kind, <<>>) /\ fr.node = NodeOf(kind, <<>>)
        /\ p = q + 1 \/ p = e
    BY <1>1 DEF LoopedEmpty
  <2>2. q \in Nat /\ e \in 1 .. Len(s) /\ q < e /\ Len(s) \in Nat
    BY <2>1, ContainerIs
  <2>3. p = q + 1 \/ p = e
    BY <2>1
  <2>4. p \in 1 .. Len(s)
    BY ONLY <2>2, <2>3
  <2> QED
    BY <2>1, <2>4
<1>2. ASSUME NEW q, NEW e, NEW kind, NEW list, NEW c, NEW m,
             LoopedAt(s, fr, u, p, q, e, kind, list, c, m)
      PROVE  p \in 1 .. Len(s) /\ fr.node = NodeOf(kind, Prefix(list, m))
  <2>1. fr.node = NodeOf(kind, Prefix(list, m))
    BY <1>2 DEF LoopedAt
  <2>2. p \in 1 .. Len(s)
    BY <1>2, FirstThere, BehindElement
  <2> QED
    BY <2>1, <2>2
<1> QED
  BY <1>1, <1>2 DEF Looped

\* The whole text is a value.
Whole(s, v) == v[1] = 1 /\ v[2] = Len(s) /\ IsWanted(s, v)

\* Containers, each in the one before, the last with the value v.
Nested(s, st, v) ==
    \E w : /\ Whole(s, w[0]) /\ w[Len(st)] = v
           /\ \A k \in 1 .. Len(st) : Place(s, st[k], w[k - 1], w[k])

\* No container: the value is the whole text.
LEMMA NoneNested == \A s, v : Nested(s, <<>>, v) <=> Whole(s, v)
<1>1. ASSUME NEW s, NEW v, Nested(s, <<>>, v) PROVE Whole(s, v)
  BY <1>1 DEF Nested
<1>2. ASSUME NEW s, NEW v, Whole(s, v) PROVE Nested(s, <<>>, v)
  <2> DEFINE w == [k \in Nat |-> v]
  <2>1. w[0] = v /\ w[Len(<<>>)] = v /\ \A k \in 1 .. Len(<<>>) : FALSE
    OBVIOUS
  <2> HIDE DEF w
  <2> QED
    BY <1>2, <2>1 DEF Nested
<1> QED
  BY <1>1, <1>2

\* The last container is in a value of the others.
LEMMA TopNested ==
    ASSUME NEW s, NEW st, IsStack(st), st # <<>>, NEW v
    PROVE  Nested(s, st, v) <=> \E u : Nested(s, Front(st), u) /\ Place(s, st[Len(st)], u, v)
<1> DEFINE n == Len(st)
<1>1. /\ n \in Nat \ {0} /\ Len(Front(st)) = n - 1
      /\ \A k \in 1 .. n - 1 : Front(st)[k] = st[k]
  <2>1. PICK S : st \in Seq(S) /\ \A f \in S : IsFrame(f)
    BY DEF IsStack
  <2> QED
    BY <2>1, FrontIs
<1>2. ASSUME Nested(s, st, v)
      PROVE  \E u : Nested(s, Front(st), u) /\ Place(s, st[n], u, v)
  <2>1. PICK w : /\ Whole(s, w[0]) /\ w[n] = v
                 /\ \A k \in 1 .. n : Place(s, st[k], w[k - 1], w[k])
    BY <1>2 DEF Nested
  <2> HIDE DEF n
  <2>2. \A k \in 1 .. n - 1 : k \in 1 .. n /\ Front(st)[k] = st[k]
    BY <1>1
  <2>3. Nested(s, Front(st), w[n - 1])
    BY <1>1, <2>1, <2>2 DEF Nested
  <2>4. n \in 1 .. n
    BY <1>1
  <2> QED
    BY <2>1, <2>3, <2>4
<1>3. ASSUME NEW u, Nested(s, Front(st), u), Place(s, st[n], u, v) PROVE Nested(s, st, v)
  <2> HIDE DEF n
  <2>1. PICK w : /\ Whole(s, w[0]) /\ w[n - 1] = u
                 /\ \A k \in 1 .. n - 1 : Place(s, Front(st)[k], w[k - 1], w[k])
    BY <1>1, <1>3 DEF Nested
  <2> DEFINE x == [k \in Nat |-> IF k = n THEN v ELSE w[k]]
  <2>2. x[n] = v /\ \A k \in Nat : k # n => x[k] = w[k]
    BY <1>1
  <2> HIDE DEF x
  <2>3. x[0] = w[0] /\ x[n - 1] = u
    <3>1. 0 \in Nat /\ 0 # n /\ n - 1 \in Nat /\ n - 1 # n
      BY <1>1
    <3> QED
      BY <2>1, <2>2, <3>1
  <2>4. ASSUME NEW k \in 1 .. n PROVE Place(s, st[k], x[k - 1], x[k])
    <3>1. CASE k = n
      BY <1>3, <2>2, <2>3, <3>1
    <3>2. CASE k # n
      <4>1. k \in 1 .. n - 1 /\ k \in Nat /\ k - 1 \in Nat /\ k - 1 # n
        BY <1>1, <3>2
      <4>2. x[k] = w[k] /\ x[k - 1] = w[k - 1] /\ Front(st)[k] = st[k]
        BY <1>1, <2>2, <3>2, <4>1
      <4> QED
        BY <2>1, <4>1, <4>2
    <3> QED
      BY <3>1, <3>2
  <2> QED
    BY <2>1, <2>2, <2>3, <2>4 DEF Nested, n
<1> QED
  BY <1>2, <1>3

\* The value is wanted.
LEMMA NestedWanted ==
    ASSUME NEW s, NEW st, IsStack(st), NEW v, Nested(s, st, v)
    PROVE  IsWanted(s, v)
<1>1. CASE st = <<>>
  BY <1>1, NoneNested DEF Whole
<1>2. CASE st # <<>>
  BY <1>2, TopNested DEF Place
<1> QED
  BY <1>1, <1>2

\* Where the parser is at e with v, it goes along a reading of the text.
CompleteAt(s, p, st, e, v) ==
    /\ p = "value" =>
         \/ \E y : Nested(s, st, y) /\ y[1] <= e /\ Blank(s, y[1], e - 1)
         \/ st # <<>> /\ \E u : Nested(s, Front(st), u) /\ Hollow(s, st[Len(st)], u, e)
    /\ p = "loop" => \E u : Nested(s, Front(st), u) /\ Looped(s, st[Len(st)], u, e)
    /\ p = "return" =>
         \/ \E y : Nested(s, st, y) /\ v = y[3] /\ e <= y[2] + 1 /\ Blank(s, e, y[2])
         \/ /\ st # <<>> /\ v = NoNode /\ s[e] \notin Spaces
            /\ \E u : Nested(s, Front(st), u) /\ Hollow(s, st[Len(st)], u, e)
    /\ p = "done" => \E y : Whole(s, y) /\ v = y[3]

\* The text is JSON, and nothing in it is what the parser does not take.
Spared == /\ Trees(text, 1, Len(text)) # {}
          /\ ~EnclosesBlank(text, "members") /\ ~UnsplitKeyword
CompleteInv ==
    failed = {} /\ Spared
      => /\ CompleteAt(text, pc, stack, pos, val)
         /\ reported => EnclosesBlank(text, "values")

\* The first symbol of what is wanted.
LEMMA WantedSymbol ==
    ASSUME NEW s, NEW i, NEW j, NEW t, NEW p, NEW e, Stretches(s, i, j, t, p, e)
    PROVE  /\ s[p] \in Leaves \union Opens
           /\ s[p] \in Leaves => t = Leaf(s[p]) /\ Blank(s, p + 1, j)
<1>1. s[p] \in Leaves \union Opens
  BY DEF Stretches, Opens
<1>2. s[p] \in Leaves => t = Leaf(s[p]) /\ p = e
  BY FirstDistinct DEF Stretches, Opens
<1> QED
  BY <1>1, <1>2 DEF Stretches

\* SkipSpace goes on to it,
LEMMA SkipSpaceComplete ==
    ASSUME PosInv, TreeInv, CompleteAt(text, pc, stack, pos, val), SkipSpace
    PROVE  CompleteAt(text, pc', stack', pos', val')
<1>1. pos \in 1 .. Len(text) /\ Len(text) \in Nat /\ text[pos] \in Spaces
  BY PeekIs DEF SkipSpace, Spaces, EndMarks
<1>2. pc = "value" /\ pc' = "value" /\ stack' = stack /\ pos' = pos + 1
  BY DEF SkipSpace
<1>3. ASSUME NEW y, Nested(text, stack, y), y[1] <= pos, Blank(text, y[1], pos - 1)
      PROVE  y[1] <= pos + 1 /\ Blank(text, y[1], (pos + 1) - 1)
  <2>1. IsWanted(text, y)
    BY <1>3, NestedWanted DEF TreeInv
  <2> DEFINE i == y[1]
             j == y[2]
  <2>2. IsSpan(text, i, j)
    BY <2>1 DEF IsWanted
  <2>3. i <= pos /\ Blank(text, i, pos - 1)
    BY <1>3
  <2> HIDE DEF i, j
  <2>4. i \in Nat
    BY ONLY <2>2 DEF IsSpan
  <2>5. pos \in 1 .. Len(text) /\ Len(text) \in Nat
    BY <1>1
  <2>6. \A k \in i .. (pos + 1) - 1 : k \in i .. pos - 1 \/ k = pos
    BY ONLY <2>4, <2>5
  <2>7. i <= pos + 1
    BY ONLY <2>3, <2>4, <2>5
  <2>8. Blank(text, i, (pos + 1) - 1)
    BY <1>1, <2>3, <2>6 DEF Blank
  <2> QED
    BY <2>7, <2>8 DEF i
<1>4. \A u : Hollow(text, stack[Len(stack)], u, pos) => Hollow(text, stack[Len(stack)], u, pos + 1)
  BY <1>1, HollowSpace
<1> QED
  BY <1>2, <1>3, <1>4 DEF CompleteAt

\* where the symbol is not a space.
LEMMA AtSymbol ==
    ASSUME PosInv, TreeInv, CompleteAt(text, pc, stack, pos, val), pc = "value", Peek \notin Spaces
    PROVE  \/ /\ pos \in 1 .. Len(text) /\ Peek = text[pos]
              /\ \E y, e : /\ Nested(text, stack, y) /\ IsWanted(text, y) /\ pos \in y[1] .. y[2]
                           /\ Stretches(text, y[1], y[2], y[3], pos, e)
           \/ /\ stack # <<>> /\ Peek = "]" /\ pos \in 1 .. Len(text) /\ text[pos] = "]"
              /\ \E u : Nested(text, Front(stack), u) /\ Hollow(text, stack[Len(stack)], u, pos)
              /\ EnclosesBlank(text, "values")
<1>1. pos \in Nat /\ \A r \in 1 .. Len(text) : r = pos => Peek = text[pos]
  BY PeekIs, AfterText DEF PosInv, Peek
<1>2. ASSUME NEW y, Nested(text, stack, y), y[1] <= pos, Blank(text, y[1], pos - 1)
      PROVE  /\ pos \in 1 .. Len(text) /\ Peek = text[pos]
             /\ \E e : /\ Nested(text, stack, y) /\ IsWanted(text, y) /\ pos \in y[1] .. y[2]
                       /\ Stretches(text, y[1], y[2], y[3], pos, e)
  <2>1. IsWanted(text, y)
    BY <1>2, NestedWanted DEF TreeInv
  <2>2. pos \in y[1] .. y[2] /\ pos \in 1 .. Len(text)
    BY <1>1, <1>2, <2>1, StillThere
  <2>3. Peek = text[pos]
    BY <1>1, <2>2
  <2>4. \E e : Stretches(text, y[1], y[2], y[3], pos, e)
    BY <1>1, <1>2, <2>1, <2>3, StillThere
  <2> QED
    BY <1>2, <2>1, <2>2, <2>3, <2>4
<1>3. ASSUME NEW u, Hollow(text, stack[Len(stack)], u, pos)
      PROVE  /\ Peek = "]" /\ pos \in 1 .. Len(text) /\ text[pos] = "]"
             /\ EnclosesBlank(text, "values")
  <2>1. pos \in 1 .. Len(text)
    <3>1. PICK q, e : Container(text, u, q, e, "values", <<>>) /\ pos \in q + 1 .. e
      BY <1>3 DEF Hollow, HollowAt
    <3>2. q \in Nat /\ e \in 1 .. Len(text) /\ Len(text) \in Nat
      BY <3>1, ContainerIs
    <3>3. pos \in q + 1 .. e
      BY <3>1
    <3> QED
      BY ONLY <3>2, <3>3
  <2>2. Peek = text[pos]
    BY <1>1, <2>1
  <2> QED
    BY <1>3, <2>1, <2>2, HollowLoops
<1> QED
  BY <1>2, <1>3 DEF CompleteAt

\* ParseLeaf reads the value that is wanted,
LEMMA LeafKept ==
    ASSUME PosInv, TreeInv, CompleteAt(text, pc, stack, pos, val), ParseLeaf
    PROVE  CompleteAt(text, pc', stack', pos', val')
<1>1. pos \in 1 .. Len(text) /\ Len(text) \in Nat /\ Peek = text[pos] /\ text[pos] \in Leaves
  BY PeekIs, LeavesPlain DEF ParseLeaf
<1>2. pc = "value" /\ pc' = "return" /\ stack' = stack /\ pos' = LeafEnd /\ val' = Leaf(text[pos])
  BY <1>1 DEF ParseLeaf, Return
<1>3. Peek \notin Spaces /\ Peek # "]"
  BY <1>1, LeavesPlain, Distinct
<1>4. PICK y, e : /\ Nested(text, stack, y) /\ IsWanted(text, y) /\ pos \in y[1] .. y[2]
                  /\ Stretches(text, y[1], y[2], y[3], pos, e)
  BY <1>2, <1>3, AtSymbol
<1>5. y[3] = Leaf(text[pos]) /\ Blank(text, pos + 1, y[2])
  BY <1>1, <1>4, WantedSymbol
<1> DEFINE i == y[1]
           j == y[2]
<1>6. IsSpan(text, i, j) /\ pos \in i .. j /\ Blank(text, pos + 1, j)
      /\ (j # Len(text) => text[j + 1] \in Follows)
  BY <1>4, <1>5 DEF IsWanted
<1> HIDE DEF i, j
<1>7. j \in Nat /\ pos + 1 <= j + 1
  BY ONLY <1>6 DEF IsSpan
<1>8. LeafEnd = pos + 1
  <2>1. CASE Peek # "num"
    BY <2>1 DEF LeafEnd
  <2>2. CASE Peek = "num"
    <3> DEFINE n == NumberEnd(pos)
    <3>1. pos \in 1 .. Len(text) + 1
      BY <1>1
    <3>2. n \in pos .. Len(text) + 1 /\ (\A r \in pos .. n - 1 : text[r] = "num") /\ At(n) # "num"
      BY <3>1, NumberEndIs DEF PosInv
    <3> HIDE DEF n
    <3>3. n # pos
      BY <2>2, <3>2 DEF Peek
    <3>4. ASSUME n # pos + 1 PROVE FALSE
      <4>1. pos + 1 \in pos .. n - 1 /\ pos + 1 \in 2 .. Len(text)
        BY <1>1, <3>2, <3>3, <3>4
      <4>2. text[pos + 1] = "num"
        BY <3>2, <4>1
      <4>3. "num" \notin Spaces /\ "num" \notin Follows
        BY FirstDistinct DEF Leaves
      <4>4. \/ pos + 1 \in pos + 1 .. j
            \/ pos + 1 = j + 1 /\ j # Len(text)
        BY <1>1, <1>6, <1>7, <4>1
      <4> QED
        BY <1>6, <4>2, <4>3, <4>4 DEF Blank
    <3> QED
      BY <2>2, <3>4 DEF LeafEnd, n
  <2> QED
    BY <2>1, <2>2
<1> QED
  BY <1>2, <1>4, <1>5, <1>7, <1>8 DEF CompleteAt, j

\* What no value begins with.
LEMMA LeafFailsIs ==
    ASSUME ParseLeafFails
    PROVE  /\ (Peek = "true" /\ ~LeafComplete) \/ Peek \notin Leaves \union Opens
           /\ Peek \notin Spaces
           /\ Peek = "]" => pos' = pos
<1>1. \A x : x \in {"broken", "open"} => x \notin Leaves \union Opens /\ x \notin Spaces /\ x # "]"
  BY StringsAssumption DEF Leaves, Opens, Spaces
<1>2. "true" \notin Spaces /\ "true" # "]"
  BY DEF Spaces
<1>3. \A x : x \notin Leaves \union Spaces \union {"broken", "open", "[", "{"}
               => x \notin Leaves \union Opens /\ x \notin Spaces
  BY DEF Opens
<1> QED
  BY <1>1, <1>2, <1>3 DEF ParseLeafFails

\* and fails only in an array with spaces only.
LEMMA LeafFailsKept ==
    ASSUME PosInv, TreeInv, CompleteAt(text, pc, stack, pos, val), ParseLeafFails, ~UnsplitKeyword
    PROVE  CompleteAt(text, pc', stack', pos', val') /\ EnclosesBlank(text, "values")
<1>1. pc = "value" /\ pc' = "return" /\ stack' = stack /\ val' = NoNode
  BY DEF ParseLeafFails, ReturnError, Return
<1>2. Len(text) \in Nat /\ DOMAIN text = 1 .. Len(text)
  BY PeekIs, AfterText DEF PosInv, TextType
<1>3. ASSUME pos \in 1 .. Len(text), Peek = text[pos], NEW y, NEW e,
             Stretches(text, y[1], y[2], y[3], pos, e)
      PROVE  FALSE
  <2>1. Peek \in Leaves \union Opens
    BY <1>3, WantedSymbol
  <2>2. text[pos] = "true" /\ ~issplit(At(pos + 1))
    BY <1>3, <2>1, LeafFailsIs DEF LeafComplete
  <2> QED
    BY <1>2, <1>3, <2>2 DEF UnsplitKeyword
<1>4. /\ stack # <<>> /\ Peek = "]" /\ text[pos] = "]"
      /\ \E u : Nested(text, Front(stack), u) /\ Hollow(text, stack[Len(stack)], u, pos)
      /\ EnclosesBlank(text, "values")
  BY <1>1, <1>3, LeafFailsIs, AtSymbol
<1>5. pos' = pos /\ text[pos] \notin Spaces
  BY <1>4, LeafFailsIs
<1> QED
  BY <1>1, <1>4, <1>5 DEF CompleteAt

\* OpenContainer goes into a container that is wanted.
LEMMA OpenKept ==
    ASSUME PosInv, TreeInv, CompleteAt(text, pc, stack, pos, val), OpenContainer
    PROVE  CompleteAt(text, pc', stack', pos', val')
<1>1. pc = "value" /\ pc' = "loop" /\ pos' = pos + 1
  BY DEF OpenContainer
<1>2. Peek \notin Spaces /\ Peek # "]"
  BY DEF OpenContainer, Spaces
<1>3. PICK kind \in {"values", "members"} :
         Peek = Left(kind) /\ stack' = Append(stack, Frame(NodeOf(kind, <<>>)))
  <2>1. CASE Peek = "["
    BY <2>1 DEF OpenContainer, Left, NodeOf
  <2>2. CASE Peek = "{"
    BY <2>2, NoMembers DEF OpenContainer, Left, NodeOf
  <2> QED
    BY <2>1, <2>2 DEF OpenContainer
<1>4. PICK y, e : /\ Nested(text, stack, y) /\ IsWanted(text, y) /\ Peek = text[pos]
                  /\ Stretches(text, y[1], y[2], y[3], pos, e)
  BY <1>1, <1>2, AtSymbol
<1> DEFINE f == Frame(NodeOf(kind, <<>>))
<1>5. ~f.comma /\ f.node = NodeOf(kind, <<>>)
  BY DEF Frame
<1>6. stack' = Append(stack, f)
  BY <1>3
<1> HIDE DEF f
<1>7. Looped(text, f, y, pos + 1)
  BY <1>3, <1>4, <1>5, OpenedLoops
<1>8. Front(stack') = stack /\ stack'[Len(stack')] = f
  <2>1. PICK S : stack \in Seq(S)
    BY DEF TreeInv, IsStack
  <2>2. stack \in Seq(S \union {f}) /\ f \in S \union {f}
    BY <2>1
  <2> QED
    BY <1>6, <2>2, FrontOfAppend
<1> QED
  BY <1>1, <1>4, <1>7, <1>8 DEF CompleteAt

\* What closes the innermost container.
Closing == IF InArray THEN "]" ELSE "}"

\* It is the bracket of the elements' kind.
LEMMA ClosingIs ==
    ASSUME stack # <<>>, NEW kind, NEW list, Top.node = NodeOf(kind, list)
    PROVE  Closing = Right(kind)
<1>1. InArray <=> kind = "values"
  BY NodeKind DEF InArray
<1> QED
  BY <1>1 DEF Closing, Right

\* CloseContainer has read the whole of it.
LEMMA CloseKept ==
    ASSUME PosInv, TreeInv, CompleteAt(text, pc, stack, pos, val), CloseContainer
    PROVE  CompleteAt(text, pc', stack', pos', val')
<1>1. /\ pc = "loop" /\ pc' = "return" /\ stack' = Front(stack) /\ val' = Top.node
      /\ pos' = pos + 1 /\ Peek = Closing
  BY DEF CloseContainer, Return, Closing
<1>2. stack # <<>>
  BY <1>1 DEF TreeInv, Placed
<1>3. text[pos] = Closing /\ \A kind, list : Top.node = NodeOf(kind, list) => Closing = Right(kind)
  BY <1>1, <1>2, ClosingIs, PeekIs DEF Closing, EndMarks
<1>4. PICK u : Nested(text, Front(stack), u) /\ Looped(text, Top, u, pos)
  BY <1>1 DEF CompleteAt, Top
<1>5. Top.node = u[3] /\ pos + 1 \in u[1] + 1 .. u[2] + 1 /\ Blank(text, pos + 1, u[2])
  BY <1>3, <1>4, ClosedIs
<1>6. IsWanted(text, u)
  BY <1>2, <1>4, TopIs, NestedWanted
<1> DEFINE i == u[1]
           j == u[2]
<1>7. IsSpan(text, i, j) /\ pos + 1 \in i + 1 .. j + 1
  BY <1>5, <1>6 DEF IsWanted
<1> HIDE DEF i, j
<1>8. pos + 1 <= j + 1
  BY ONLY <1>7 DEF IsSpan
<1> QED
  BY <1>1, <1>4, <1>5, <1>8 DEF CompleteAt, j

\* What a value that is wanted next makes of a loop.
LEMMA NextWanted ==
    ASSUME TreeInv, TreeInv', stack # <<>>, NEW f, stack' = WithTop(f), pc' = "value",
           NEW u, Nested(text, Front(stack), u),
           \/ \E v : Place(text, f, u, v) /\ v[1] = pos'
           \/ Hollow(text, f, u, pos')
    PROVE  CompleteAt(text, pc', stack', pos', val')
<1>1. Front(stack') = Front(stack) /\ stack'[Len(stack')] = f /\ stack' # <<>>
  BY TopReplaced
<1>2. ASSUME NEW v, Place(text, f, u, v), v[1] = pos'
      PROVE  Nested(text, stack', v) /\ v[1] <= pos' /\ Blank(text, v[1], pos' - 1)
  <2>1. Nested(text, stack', v)
    BY <1>1, <1>2, TopNested DEF TreeInv
  <2>2. IsSpan(text, v[1], v[2])
    BY <1>2 DEF Place, IsWanted
  <2> DEFINE i == v[1]
             j == v[2]
  <2>3. IsSpan(text, i, j) /\ pos' = i
    BY <1>2, <2>2
  <2> HIDE DEF i, j
  <2>4. i <= pos' /\ \A k : k \notin i .. pos' - 1
    BY ONLY <2>3 DEF IsSpan
  <2>5. Blank(text, i, pos' - 1)
    BY <2>4 DEF Blank
  <2> QED
    BY <2>1, <2>4, <2>5 DEF i
<1> QED
  BY <1>1, <1>2 DEF CompleteAt

\* Comma goes on to the next element.
LEMMA CommaKept ==
    ASSUME PosInv, TreeInv, TreeInv', CompleteAt(text, pc, stack, pos, val), Comma
    PROVE  CompleteAt(text, pc', stack', pos', val')
<1>1. /\ pc = "loop" /\ pc' = "value" /\ pos' = pos + 1 /\ Top.comma
      /\ stack' = WithTop([Top EXCEPT !.comma = FALSE, !.nul = FALSE])
  BY DEF Comma
<1>2. stack # <<>> /\ Top.name = "none"
  BY <1>1 DEF TreeInv, Placed, Top
<1>3. text[pos] = Separator
  BY PeekIs DEF Comma, EndMarks, Separator
<1>4. PICK u : Nested(text, Front(stack), u) /\ Looped(text, Top, u, pos)
  BY <1>1 DEF CompleteAt, Top
<1> DEFINE f == FrameOf(Top.node, FALSE, Top.name, FALSE)
<1>5. f.node = Top.node /\ f.name = "none" /\ ~f.nul
  BY <1>2 DEF FrameOf
<1>6. stack' = WithTop(f)
  BY <1>1, <1>2, TopIs, FrameChanges
<1> HIDE DEF f
<1>7. \E v : Place(text, f, u, v) /\ v[1] = pos'
  BY <1>1, <1>3, <1>4, <1>5, CommaPlaced
<1> QED
  BY <1>1, <1>2, <1>4, <1>6, <1>7, NextWanted

\* Where the loop does not end, no bracket closes the container.
LEMMA NotClosed ==
    ASSUME PosInv, stack # <<>>, pos \in 1 .. Len(text), Peek # Closing
    PROVE  /\ Peek = text[pos] /\ Peek # "NUL"
           /\ \A kind, list : Top.node = NodeOf(kind, list) => text[pos] # Right(kind)
<1>1. At(pos) = text[pos] /\ text[pos] \notin EndMarks
  BY AfterText DEF PosInv
<1>2. Peek = text[pos] /\ Peek # "NUL"
  BY <1>1 DEF Peek, EndMarks
<1>3. \A kind, list : Top.node = NodeOf(kind, list) => Closing = Right(kind)
  BY ClosingIs
<1> QED
  BY <1>2, <1>3

\* NextChild goes on to the first.
LEMMA ChildKept ==
    ASSUME PosInv, TreeInv, TreeInv', CompleteAt(text, pc, stack, pos, val), NextChild,
           ~EnclosesBlank(text, "members")
    PROVE  CompleteAt(text, pc', stack', pos', val')
<1>1. /\ pc = "loop" /\ pc' = "value" /\ pos' = pos /\ ~Top.comma /\ Peek # Closing
      /\ stack' = WithTop([Top EXCEPT !.nul = (Peek = "NUL")])
  BY DEF NextChild, Closing
<1>2. stack # <<>> /\ Top.name = "none"
  BY <1>1 DEF TreeInv, Placed, Top
<1>3. PICK u : Nested(text, Front(stack), u) /\ Looped(text, Top, u, pos)
  BY <1>1 DEF CompleteAt, Top
<1>4. pos \in 1 .. Len(text)
  BY <1>3, LoopedIn
<1>5. Peek # "NUL" /\ \A kind, list : Top.node = NodeOf(kind, list) => text[pos] # Right(kind)
  BY <1>1, <1>2, <1>4, NotClosed
<1> DEFINE f == FrameOf(Top.node, Top.comma, Top.name, FALSE)
<1>6. f.node = Top.node /\ f.name = "none" /\ ~f.nul
  BY <1>2 DEF FrameOf
<1>7. \A n : [Top EXCEPT !.nul = n] = FrameOf(Top.node, Top.comma, Top.name, n)
  BY <1>2, TopIs, FrameChanges
<1>8. (Peek = "NUL") = FALSE
  BY <1>5
<1>9. stack' = WithTop(f)
  BY <1>1, <1>7, <1>8
<1> HIDE DEF f
<1>10. \/ \E v : Place(text, f, u, v) /\ v[1] = pos
       \/ Hollow(text, f, u, pos)
  BY <1>1, <1>3, <1>5, <1>6, ChildPlaced
<1> QED
  BY <1>1, <1>2, <1>3, <1>9, <1>10, NextWanted

\* The loop does not fail.
LEMMA LoopKept ==
    ASSUME PosInv, TreeInv, CompleteAt(text, pc, stack, pos, val), LoopFails
    PROVE  FALSE
<1>1. pc = "loop" /\ Peek # Closing /\ Top.comma # (Peek = Separator)
  BY DEF LoopFails, Closing, Separator
<1>2. stack # <<>> /\ Top.comma \in BOOLEAN
  <2>1. stack # <<>>
    BY <1>1 DEF TreeInv, Placed
  <2>2. PICK node, comma, name, nul : Top = FrameOf(node, comma, name, nul) /\ comma \in BOOLEAN
    BY <2>1, TopIs DEF IsFrame
  <2> QED
    BY <2>1, <2>2 DEF FrameOf
<1>3. PICK u : Nested(text, Front(stack), u) /\ Looped(text, Top, u, pos)
  BY <1>1 DEF CompleteAt, Top
<1>4. pos \in 1 .. Len(text)
  BY <1>3, LoopedIn
<1>5. Peek = text[pos] /\ \A kind, list : Top.node = NodeOf(kind, list) => text[pos] # Right(kind)
  BY <1>1, <1>2, <1>4, NotClosed
<1>6. /\ Top.comma => text[pos] = Separator
      /\ text[pos] = Separator => Top.comma
  BY <1>3, <1>5, CommaExpected
<1> QED
  BY <1>1, <1>2, <1>5, <1>6

\* A value that is wanted is a tree.
LEMMA WantedNode ==
    ASSUME NEW s, NEW v, IsWanted(s, v)
    PROVE  v[3] # NoNode
<1>1. PICK o, e : Stretches(s, v[1], v[2], v[3], o, e)
  BY ValueShape DEF IsWanted
<1>2. \A x : Leaf(x) # NoNode /\ Array(x) # NoNode /\ ObjectOf(x) # NoNode
  BY DEF Leaf, Array, ObjectOf, Object, NoNode
<1>3. \/ v[3] = Leaf(s[e])
      \/ \E x : v[3] = Array(x) \/ v[3] = ObjectOf(x)
  BY <1>1 DEF Stretches
<1> QED
  BY <1>2, <1>3

\* The spaces behind it are skipped, and no more.
LEMMA SpacesBehind ==
    ASSUME PosInv, NEW y, IsWanted(text, y), pos <= y[2] + 1, Blank(text, pos, y[2])
    PROVE  skipSpaces(pos) = y[2] + 1
<1> DEFINE e == skipSpaces(pos)
           i == y[1]
           j == y[2]
<1>1. pos \in 1 .. Len(text) + 1 /\ Len(text) \in Nat
  BY PeekIs
<1>2. e \in pos .. Len(text) + 1 /\ (\A r \in pos .. e - 1 : text[r] \in Spaces) /\ At(e) \notin Spaces
  BY <1>1, skipSpacesIs DEF PosInv
<1> HIDE DEF e
<1>3. /\ IsSpan(text, i, j) /\ pos <= j + 1 /\ Blank(text, pos, j)
      /\ j # Len(text) => text[j + 1] \in Follows
  BY DEF IsWanted
<1> HIDE DEF i, j
<1>4. j \in Nat /\ j <= Len(text)
  BY ONLY <1>3 DEF IsSpan
<1>5. ASSUME e < j + 1 PROVE FALSE
  <2>1. e \in pos .. j /\ e \in 1 .. Len(text)
    BY ONLY <1>1, <1>2, <1>4, <1>5
  <2>2. At(e) = text[e]
    BY <2>1, AfterText DEF PosInv
  <2> QED
    BY <1>2, <1>3, <2>1, <2>2 DEF Blank
<1>6. ASSUME e > j + 1 PROVE FALSE
  <2>1. pos <= j + 1
    BY <1>3
  <2>2. j + 1 \in pos .. e - 1 /\ j # Len(text)
    BY ONLY <1>1, <1>2, <1>4, <1>6, <2>1
  <2> QED
    BY <1>2, <1>3, <2>2, FirstDistinct
<1>7. e = j + 1
  BY <1>1, <1>2, <1>4, <1>5, <1>6
<1> QED
  BY <1>7 DEF e, j

\* Where there are none, none are.
LEMMA SpacesNone ==
    ASSUME PosInv, pos \in 1 .. Len(text), text[pos] \notin Spaces
    PROVE  skipSpaces(pos) = pos
<1> DEFINE e == skipSpaces(pos)
<1>1. pos \in 1 .. Len(text) + 1 /\ Len(text) \in Nat
  BY PeekIs
<1>2. e \in pos .. Len(text) + 1 /\ \A r \in pos .. e - 1 : text[r] \in Spaces
  BY <1>1, skipSpacesIs DEF PosInv
<1> HIDE DEF e
<1>3. e # pos => pos \in pos .. e - 1
  BY <1>1, <1>2
<1>4. e = pos
  BY <1>2, <1>3
<1> QED
  BY <1>4 DEF e

\* What a call has returned to the innermost container: the value wanted, or
\* nothing, in an array with spaces only.
WantedReturned(u, y) ==
    /\ Nested(text, Front(stack), u) /\ Place(text, Top, u, y)
    /\ val = y[3] /\ val # NoNode /\ skipSpaces(pos) = y[2] + 1
NothingReturned(u) ==
    /\ Nested(text, Front(stack), u) /\ val = NoNode /\ Top.node[1] = "array"
    /\ skipSpaces(pos) = pos
    /\ \A f : f.node = Top.node /\ f.comma => Looped(text, f, u, pos)

\* It is one of them.
LEMMA ReturnedIs ==
    ASSUME PosInv, TreeInv, CompleteAt(text, pc, stack, pos, val), pc = "return", stack # <<>>
    PROVE  /\ ~Top.nul
           /\ (\E u, y : WantedReturned(u, y)) \/ \E u : NothingReturned(u)
<1>1. ASSUME NEW y, Nested(text, stack, y), val = y[3], pos <= y[2] + 1, Blank(text, pos, y[2])
      PROVE  ~Top.nul /\ \E u : WantedReturned(u, y)
  <2>1. PICK u : Nested(text, Front(stack), u) /\ Place(text, Top, u, y)
    BY <1>1, TopNested DEF TreeInv, Top
  <2>2. IsWanted(text, y) /\ ~Top.nul
    BY <2>1, PlaceIs
  <2>3. skipSpaces(pos) = y[2] + 1
    BY <1>1, <2>2, SpacesBehind
  <2>4. val # NoNode
    BY <1>1, <2>2, WantedNode
  <2> QED
    BY <1>1, <2>1, <2>2, <2>3, <2>4 DEF WantedReturned
<1>2. ASSUME val = NoNode, text[pos] \notin Spaces,
             NEW u, Nested(text, Front(stack), u), Hollow(text, Top, u, pos)
      PROVE  ~Top.nul /\ NothingReturned(u)
  <2>1. /\ pos \in 1 .. Len(text) /\ Top.node[1] = "array" /\ ~Top.nul
        /\ \A f : f.node = Top.node /\ f.comma => Looped(text, f, u, pos)
    BY <1>2, HollowLoops
  <2>2. skipSpaces(pos) = pos
    BY <1>2, <2>1, SpacesNone
  <2> QED
    BY <1>2, <2>1, <2>2 DEF NothingReturned
<1>3. \/ \E y : Nested(text, stack, y) /\ val = y[3] /\ pos <= y[2] + 1 /\ Blank(text, pos, y[2])
      \/ /\ val = NoNode /\ text[pos] \notin Spaces
         /\ \E u : Nested(text, Front(stack), u) /\ Hollow(text, Top, u, pos)
  BY DEF CompleteAt, Top
<1> QED
  BY <1>1, <1>2, <1>3

\* The loop of the innermost container goes on after it.
LEMMA LoopWanted ==
    ASSUME TreeInv, stack # <<>>, NEW f, stack' = WithTop(f), pc' = "loop",
           NEW u, Nested(text, Front(stack), u), Looped(text, f, u, pos')
    PROVE  CompleteAt(text, pc', stack', pos', val')
<1>1. Front(stack') = Front(stack) /\ stack'[Len(stack')] = f
  BY TopReplaced
<1> QED
  BY <1>1 DEF CompleteAt

\* ReturnItem appends what is returned, or nothing.
LEMMA ItemKept ==
    ASSUME PosInv, TreeInv, CompleteAt(text, pc, stack, pos, val), ReturnItem
    PROVE  CompleteAt(text, pc', stack', pos', val')
<1> DEFINE g == IF val = NoNode THEN Top ELSE [Top EXCEPT !.node = WithItem(Top.node, val)]
<1>1. /\ pc = "return" /\ stack # <<>> /\ Top.node[1] = "array" /\ pc' = "loop"
      /\ pos' = skipSpaces(pos) /\ stack' = WithTop([g EXCEPT !.comma = TRUE])
  BY DEF ReturnItem, AfterChild, InArray
<1>2. IsFrame(Top)
  BY <1>1, TopIs
<1>3. \A m : [[Top EXCEPT !.node = m] EXCEPT !.comma = TRUE] = FrameOf(m, TRUE, Top.name, Top.nul)
  BY <1>2, FrameChanges
<1>4. [Top EXCEPT !.comma = TRUE] = FrameOf(Top.node, TRUE, Top.name, Top.nul)
  BY <1>2, FrameChanges
<1>5. ASSUME NEW u, NEW y, WantedReturned(u, y)
      PROVE  CompleteAt(text, pc', stack', pos', val')
  <2> DEFINE f == FrameOf(WithItem(Top.node, val), TRUE, Top.name, Top.nul)
  <2>1. /\ Nested(text, Front(stack), u) /\ Place(text, Top, u, y)
        /\ val = y[3] /\ val # NoNode /\ skipSpaces(pos) = y[2] + 1
    BY <1>5 DEF WantedReturned
  <2>2. f.node = WithItem(Top.node, y[3]) /\ f.comma
    BY <2>1 DEF FrameOf
  <2>3. stack' = WithTop(f)
    BY <1>1, <1>3, <2>1
  <2> HIDE DEF f
  <2>4. Looped(text, f, u, y[2] + 1)
    BY <1>1, <2>1, <2>2, ItemTaken
  <2> QED
    BY <1>1, <2>1, <2>3, <2>4, LoopWanted
<1>6. ASSUME NEW u, NothingReturned(u)
      PROVE  CompleteAt(text, pc', stack', pos', val')
  <2> DEFINE f == FrameOf(Top.node, TRUE, Top.name, Top.nul)
  <2>1. f.node = Top.node /\ f.comma
    BY DEF FrameOf
  <2>2. stack' = WithTop(f)
    BY <1>1, <1>4, <1>6 DEF NothingReturned
  <2> HIDE DEF f
  <2>3. Nested(text, Front(stack), u) /\ Looped(text, f, u, pos) /\ pos' = pos
    BY <1>1, <1>6, <2>1 DEF NothingReturned
  <2> QED
    BY <1>1, <2>2, <2>3, LoopWanted
<1> QED
  BY <1>1, <1>5, <1>6, ReturnedIs

\* What is returned to an object is the name or value wanted.
LEMMA ObjectReturned ==
    ASSUME PosInv, TreeInv, CompleteAt(text, pc, stack, pos, val), pc = "return", InObject
    PROVE  ~Top.nul /\ \E u, y : WantedReturned(u, y)
<1>1. stack # <<>> /\ Top.node[1] # "array"
  BY DEF InObject
<1> QED
  BY <1>1, ReturnedIs DEF NothingReturned

\* ReturnName goes on to the value.
LEMMA NameKept ==
    ASSUME PosInv, TreeInv, TreeInv', CompleteAt(text, pc, stack, pos, val), ReturnName
    PROVE  CompleteAt(text, pc', stack', pos', val') /\ reported' = reported
<1>1. pc = "return" /\ InObject /\ stack # <<>> /\ Top.node[1] = "object" /\ Top.name = "none"
  BY DEF ReturnName, InObject
<1>2. PICK u, y : WantedReturned(u, y)
  BY <1>1, ObjectReturned
<1>3. /\ Nested(text, Front(stack), u) /\ Place(text, Top, u, y)
      /\ val = y[3] /\ val # NoNode /\ skipSpaces(pos) = y[2] + 1 /\ ~Top.nul
  BY <1>1, <1>2, ObjectReturned DEF WantedReturned
<1> DEFINE f == FrameOf(Top.node, Top.comma, val[1], Top.nul)
<1>4. f.node = Top.node /\ f.name = y[3][1] /\ ~f.nul
  BY <1>3 DEF FrameOf
<1>5. \A n : [Top EXCEPT !.name = n] = FrameOf(Top.node, Top.comma, n, Top.nul)
  BY <1>1, TopIs, FrameChanges
<1>6. [Top EXCEPT !.name = val[1]] = f
  BY <1>5
<1> HIDE DEF f
<1>7. /\ y[3][1] \in Strings /\ y[2] + 1 \in 1 .. Len(text) /\ text[y[2] + 1] = ":"
      /\ \E x : Place(text, f, u, x) /\ x[1] = (y[2] + 1) + 1
  BY <1>1, <1>3, <1>4, NameTaken
<1>8. At(skipSpaces(pos)) = ":"
  BY <1>3, <1>7, AfterText DEF PosInv
<1>9. /\ pos' = skipSpaces(pos) + 1 /\ stack' = WithTop([Top EXCEPT !.name = val[1]])
      /\ pc' = "value" /\ reported' = reported
  BY <1>3, <1>7, <1>8 DEF ReturnName
<1>10. pos' = (y[2] + 1) + 1 /\ stack' = WithTop(f)
  BY <1>3, <1>6, <1>9
<1> QED
  BY <1>1, <1>3, <1>7, <1>9, <1>10, NextWanted

\* ReturnMember sets the member.
LEMMA MemberKept ==
    ASSUME PosInv, TreeInv, CompleteAt(text, pc, stack, pos, val), ReturnMember
    PROVE  CompleteAt(text, pc', stack', pos', val')
<1> DEFINE node == WithMember(Top.node, Top.name, val)
           f == FrameOf(node, TRUE, "none", Top.nul)
<1>1. /\ pc = "return" /\ InObject /\ stack # <<>> /\ Top.node[1] = "object" /\ Top.name # "none"
      /\ pc' = "loop" /\ pos' = skipSpaces(pos)
      /\ stack' = WithTop([[Top EXCEPT !.node = node, !.name = "none"] EXCEPT !.comma = TRUE])
  BY DEF ReturnMember, AfterChild, InObject
<1>2. \A m : [[Top EXCEPT !.node = m, !.name = "none"] EXCEPT !.comma = TRUE]
               = FrameOf(m, TRUE, "none", Top.nul)
  BY <1>1, TopIs, FrameChanges
<1>3. PICK u, y : WantedReturned(u, y)
  BY <1>1, ObjectReturned
<1>4. /\ Nested(text, Front(stack), u) /\ Place(text, Top, u, y)
      /\ val = y[3] /\ skipSpaces(pos) = y[2] + 1
  BY <1>3 DEF WantedReturned
<1>5. f.node = WithMember(Top.node, Top.name, y[3]) /\ f.comma
  BY <1>4 DEF FrameOf
<1>6. stack' = WithTop(f)
  BY <1>1, <1>2
<1> HIDE DEF f, node
<1>7. Looped(text, f, u, y[2] + 1)
  BY <1>1, <1>4, <1>5, MemberTaken
<1>8. pos' = y[2] + 1
  BY <1>1, <1>4
<1> QED
  BY <1>1, <1>4, <1>6, <1>7, <1>8, LoopWanted

\* Finish ends with the whole text read.
LEMMA FinishKept ==
    ASSUME CompleteAt(text, pc, stack, pos, val), Finish
    PROVE  CompleteAt(text, pc', stack', pos', val')
<1>1. pc = "return" /\ pc' = "done" /\ stack = <<>> /\ val' = val
  BY DEF Finish
<1>2. \E y : Nested(text, <<>>, y) /\ val = y[3]
  BY <1>1 DEF CompleteAt
<1>3. \E y : Whole(text, y) /\ val' = y[3]
  BY <1>1, <1>2, NoneNested
<1> QED
  BY <1>1, <1>3 DEF CompleteAt

\* No container is given up.
LEMMA NothingFails ==
    ASSUME PosInv, TreeInv, CompleteAt(text, pc, stack, pos, val), failed' = {},
           LoopFails \/ ArrayEnds \/ MemberFails
    PROVE  FALSE
<1>1. CASE LoopFails
  BY <1>1, LoopKept
<1>2. CASE ArrayEnds
  BY <1>2, ReturnedIs DEF ArrayEnds, InArray
<1>3. CASE MemberFails
  <2>1. val # NoNode
    BY <1>3, ObjectReturned DEF MemberFails, WantedReturned
  <2> QED
    BY <1>3, <2>1 DEF MemberFails
<1> QED
  BY <1>1, <1>2, <1>3

\* The parser goes along the reading at every step.
LEMMA CompleteStep ==
    ASSUME PosInv, TreeInv, TreeInv', CompleteInv, [Next]_vars
    PROVE  CompleteInv'
<1>1. text' = text /\ ending' = ending /\ failed \subseteq failed'
  BY DEF Next, vars, input, SkipSpace, ParseLeaf, ParseLeafNoMemory, ParseLeafFails, OpenContainer,
         OpenNoMemory, CloseContainer, Comma, NextChild, LoopFails, ReturnItem, AppendNoMemory,
         ArrayEnds, ReturnName, ReturnMember, MemberFails, Finish
<1>2. Spared' <=> Spared
  BY <1>1 DEF Spared, UnsplitKeyword, EnclosesBlank, Blank, Trees, At
<1> SUFFICES ASSUME failed' = {}, Spared
             PROVE  /\ CompleteAt(text, pc', stack', pos', val')
                    /\ reported' => EnclosesBlank(text, "values")
  BY <1>1, <1>2 DEF CompleteInv, EnclosesBlank, Blank
<1>3. /\ CompleteAt(text, pc, stack, pos, val)
      /\ reported => EnclosesBlank(text, "values")
      /\ ~EnclosesBlank(text, "members") /\ ~UnsplitKeyword
  BY <1>1 DEF CompleteInv, Spared
<1>4. ~ParseLeafNoMemory /\ ~OpenNoMemory /\ ~AppendNoMemory
  BY DEF ParseLeafNoMemory, OpenNoMemory, AppendNoMemory
<1>5. ~LoopFails /\ ~ArrayEnds /\ ~MemberFails
  BY <1>3, NothingFails
<1>6. CASE ParseLeafFails
  BY <1>3, <1>6, LeafFailsKept
<1>7. CASE ReturnName
  BY <1>3, <1>7, NameKept
<1>8. CASE UNCHANGED vars
  BY <1>3, <1>8 DEF vars
<1>9. CASE \/ SkipSpace \/ ParseLeaf \/ OpenContainer \/ CloseContainer \/ Comma \/ NextChild
           \/ ReturnItem \/ ReturnMember \/ Finish
  <2>1. reported' = reported
    BY <1>9 DEF SkipSpace, ParseLeaf, OpenContainer, CloseContainer, Comma, NextChild, ReturnItem,
                ReturnMember, Finish, AfterChild, Return
  <2>2. CompleteAt(text, pc', stack', pos', val')
    BY <1>3, <1>9, SkipSpaceComplete, LeafKept, OpenKept, CloseKept, CommaKept, ChildKept, ItemKept,
       MemberKept, FinishKept
  <2> QED
    BY <1>3, <2>1, <2>2
<1> QED
  BY <1>4, <1>5, <1>6, <1>7, <1>8, <1>9 DEF Next

\* A reading of the whole text is there at the beginning.
LEMMA CompleteInit == Init => CompleteInv
<1> SUFFICES ASSUME Init, Spared PROVE CompleteAt(text, pc, stack, pos, val) /\ ~reported
  BY DEF CompleteInv
<1>1. pc = "value" /\ stack = <<>> /\ pos = 1 /\ ~reported
  BY DEF Init
<1>2. Len(text) \in Nat
  BY PosInit, PeekIs
<1>3. PICK t : t \in Said(text, "value", 1, Len(text))
  BY DEF Spared, Trees, Said
<1> DEFINE y == <<1, Len(text), t>>
<1>4. y[1] = 1 /\ y[2] = Len(text) /\ y[3] = t
  OBVIOUS
<1> HIDE DEF y
<1>5. IsSpan(text, 1, Len(text))
  BY <1>2 DEF IsSpan
<1>6. Nested(text, stack, y)
  BY <1>1, <1>3, <1>4, <1>5, NoneNested DEF Whole, IsWanted
<1>7. y[1] <= 1 /\ \A k : k \notin 1 .. 1 - 1
  BY <1>4
<1>8. Blank(text, y[1], 1 - 1)
  BY <1>4, <1>7 DEF Blank
<1> QED
  BY <1>1, <1>6, <1>7, <1>8 DEF CompleteAt

\* At the end the tree is the one the text stands for.
LEMMA AllRead ==
    ASSUME PosInv, CompleteInv, pc = "done", failed = {}, Spared
    PROVE  /\ Trees(text, 1, Len(text)) = {val}
           /\ reported => EnclosesBlank(text, "values")
<1>1. CompleteAt(text, pc, stack, pos, val) /\ (reported => EnclosesBlank(text, "values"))
  BY DEF CompleteInv
<1>2. PICK y : Whole(text, y) /\ val = y[3]
  BY <1>1 DEF CompleteAt
<1>3. val \in Said(text, "value", 1, Len(text)) /\ IsSpan(text, 1, Len(text))
  BY <1>2 DEF Whole, IsWanted
<1>4. Delimited(text, 1, 1, Delimiters)
  BY DEF Delimited
<1>5. \A t \in Said(text, "value", 1, Len(text)) : t = val
  BY <1>3, <1>4, OneTree DEF Single
<1>6. Trees(text, 1, Len(text)) = Said(text, "value", 1, Len(text))
  BY DEF Trees, Said
<1> QED
  BY <1>1, <1>3, <1>5, <1>6

\* Spaces between brackets, as the properties say it.
LEMMA BlankIs ==
    ASSUME PosInv
    PROVE  /\ EnclosesBlank(text, "members") => BlankBetween("{", "}")
           /\ EnclosesBlank(text, "values") => BlankBetween("[", "]")
<1>1. DOMAIN text = 1 .. Len(text)
  BY ONLY PosInv DEF PosInv, TextType
<1> QED
  BY <1>1 DEF EnclosesBlank, BlankBetween, Blank, Left, Right

\* ParsesOtherJson: whatever the text, when memory lasts and the text is JSON,
\* without spaces in an empty object and without a keyword before \r or the end
\* of a file, j2ParseFunc returns the tree the text stands for, without a call
\* of the error function unless there are spaces in an empty array.
THEOREM OtherJsonTheorem == Spec => []ParsesOtherJson
<1> DEFINE Inv == PosInv /\ TreeInv /\ CompleteInv
<1>1. Init => Inv
  BY PosInit, TreeInit, CompleteInit
<1>2. Inv /\ [Next]_vars => Inv'
  BY PosStep, TreeStep, CompleteStep
<1>3. Inv => ParsesOtherJson
  BY AllRead, BlankIs DEF ParsesOtherJson, Spared
<1> QED
  BY <1>1, <1>2, <1>3, PTL DEF Spec
=============================================================================
