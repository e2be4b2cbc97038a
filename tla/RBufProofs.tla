----------------------------- MODULE RBufProofs -----------------------------
(***************************************************************************)
(* Proofs about the ring buffer, for every set of capacities and of        *)
(* values, and at the end about one of heap values.                        *)
(***************************************************************************)
EXTENDS RBufOwner, TLAPS, SequenceTheorems, FiniteSetTheorems

\* Reducing modulo c a number less than c, or less than c above it.
LEMMA ModOnce ==
    ASSUME NEW c \in Nat \ {0}, NEW x \in Int, x >= -c, x < 2 * c
    PROVE  x % c = IF x < 0 THEN x + c ELSE IF x < c THEN x ELSE x - c
<1> DEFINE q == x \div c
           r == x % c
<1>1. q \in Int /\ r \in Int /\ x = c * q + r /\ 0 <= r /\ r < c
  OBVIOUS
<1> QED
  BY <1>1

\* What the type invariant says of a buffer that exists.
LEMMA BufferType ==
    ASSUME TypeOK, cap # 0
    PROVE  /\ cap \in Nat \ {0} /\ cap \in Caps
           /\ start \in 0 .. cap - 1 /\ end \in 0 .. cap - 1
           /\ size \in 0 .. cap
<1> QED
  BY CapsAssumption DEF TypeOK, Slots

\* Advance and its reverse go round the slots.
LEMMA AdvanceWraps ==
    ASSUME TypeOK, cap # 0, NEW i \in 0 .. cap - 1
    PROVE  /\ Advance(i) = IF i + 1 = cap THEN 0 ELSE i + 1
           /\ Advance(i) \in 0 .. cap - 1
           /\ modulo(i - 1, cap) = IF i = 0 THEN cap - 1 ELSE i - 1
           /\ modulo(i - 1, cap) \in 0 .. cap - 1
<1>1. cap \in Nat \ {0}
  BY BufferType
<1>2. (i + 1) % cap = IF i + 1 < cap THEN i + 1 ELSE i + 1 - cap
  <2>1. ASSUME NEW x \in Int, x = i + 1
        PROVE  x % cap = IF x < cap THEN x ELSE x - cap
    <3>1. ~(x < 0) /\ x >= -cap /\ x < 2 * cap
      BY <1>1, <2>1
    <3> QED
      BY <1>1, <3>1, ModOnce
  <2> QED
    BY <1>1, <2>1
<1>3. (i - 1) % cap = IF i - 1 < 0 THEN i - 1 + cap ELSE i - 1
  <2>1. ASSUME NEW x \in Int, x = i - 1
        PROVE  x % cap = IF x < 0 THEN x + cap ELSE x
    <3>1. x < cap /\ x >= -cap /\ x < 2 * cap
      BY <1>1, <2>1
    <3> QED
      BY <1>1, <3>1, ModOnce
  <2> QED
    BY <1>1, <2>1
<1> QED
  BY <1>1, <1>2, <1>3 DEF Advance, modulo

\* Every item a read-only function gives is a slot, or none.
LEMMA ItemsAreSlots ==
    ASSUME TypeOK, cap # 0
    PROVE  {FrontOf, BackOf, NextOf(it), PrevOf(it)} \subseteq Slots \union {NoItem}
<1>1. FrontOf \in Slots \union {NoItem} /\ BackOf \in Slots \union {NoItem}
  BY BufferType DEF FrontOf, BackOf, Slots
<1>2. it \in 0 .. cap - 1 \/ it = NoItem
  BY DEF TypeOK, Slots
<1>3. NextOf(it) \in Slots \union {NoItem} /\ PrevOf(it) \in Slots \union {NoItem}
  BY <1>2, AdvanceWraps DEF NextOf, PrevOf, Slots
<1> QED
  BY <1>1, <1>3

-----------------------------------------------------------------------------
\* Handing out an item keeps the types.
LEMMA TakeItemType ==
    ASSUME TypeOK, NEW i \in Slots \union {NoItem}, TakeItem(i)
    PROVE  TypeOK'
<1> QED
  BY DEF TakeItem, Quiet, TypeOK, Slots, Stored, indices

\* Where a push stores and where the front moves are slots.
LEMMA PushSlots ==
    ASSUME TypeOK, cap # 0
    PROVE  PushEnd \in Slots /\ PushStart \in Slots
<1> QED
  BY BufferType, AdvanceWraps DEF PushEnd, PushStart, Slots

\* The type invariant is inductive.
LEMMA TypeStep ==
    ASSUME TypeOK, [Next]_vars
    PROVE  TypeOK'
<1>1. ASSUME NEW c \in Caps, rbufInit(c) PROVE TypeOK'
  <2>1. c \in Nat \ {0}
    BY CapsAssumption
  <2>2. it = NoItem
    BY <1>1 DEF rbufInit, TypeOK, Slots
  <2>3. data' \in [0 .. c - 1 -> Stored]
    BY <1>1 DEF rbufInit, Stored
  <2>4. clean' \in BOOLEAN
    BY <1>1, Zenon DEF rbufInit
  <2>5. cap' = c /\ start' = 0 /\ end' = 0 /\ size' = 0 /\ it' = NoItem
    BY <1>1, <2>2 DEF rbufInit
  <2>6. ret' = NULL /\ cleaned' = {}
    BY <1>1 DEF rbufInit, Quiet
  <2> QED
    BY <2>1, <2>3, <2>4, <2>5, <2>6 DEF TypeOK, Slots, Stored
<1>2. CASE rbufReset
  <2>1. cap \in Nat \ {0}
    BY <1>2, BufferType DEF rbufReset
  <2> QED
    BY <1>2, <2>1 DEF rbufReset, Quiet, TypeOK, Slots, Stored
<1>3. CASE rbufCleanup
  <2>1. cap' = 0 /\ Slots' = {}
    BY <1>3 DEF rbufCleanup, Slots
  <2>2. data' \in [Slots' -> Stored]
    BY <1>3, <2>1 DEF rbufCleanup
  <2>3. clean' \in BOOLEAN
    BY <1>3, Zenon DEF rbufCleanup
  <2>4. start' = 0 /\ end' = 0 /\ size' = 0 /\ it' = NoItem
    BY <1>3 DEF rbufCleanup
  <2>5. ret' = NULL /\ cleaned' = {}
    BY <1>3 DEF rbufCleanup, Quiet
  <2> QED
    BY <2>1, <2>2, <2>3, <2>4, <2>5 DEF TypeOK, Stored
<1>4. ASSUME NEW v \in Vals, rbufPushBack(v) PROVE TypeOK'
  <2>1. cap # 0 /\ cap' = cap /\ clean' = clean
    BY <1>4 DEF rbufPushBack
  <2>2. PushEnd \in Slots /\ PushStart \in Slots
    BY <2>1, PushSlots
  <2>3. size' \in 0 .. cap'
    BY <1>4, <2>1, BufferType DEF rbufPushBack
  <2>4. data' \in [Slots -> Stored]
    BY <1>4, <2>2 DEF rbufPushBack, TypeOK, Stored
  <2>5. cleaned' \subseteq Stored
    BY <1>4, <2>2 DEF rbufPushBack, PushCleans, TypeOK
  <2>6. it' \in Slots \union {NoItem}
    BY <1>4, <2>2 DEF rbufPushBack, TypeOK
  <2>7. start' \in Slots /\ end' \in Slots /\ ret' \in Stored
    BY <1>4, <2>2 DEF rbufPushBack, Stored
  <2> QED
    BY <2>1, <2>3, <2>4, <2>5, <2>6, <2>7 DEF TypeOK, Slots
<1>5. CASE rbufPopFront
  <2>1. cap # 0 /\ cap' = cap
    BY <1>5 DEF rbufPopFront
  <2>2. CASE size = 0
    BY <1>5, <2>2 DEF rbufPopFront, TypeOK, Slots, Stored, indices
  <2>3. CASE size # 0
    <3>1. start \in Slots /\ Advance(start) \in Slots /\ size - 1 \in 0 .. cap
      BY <2>1, <2>3, BufferType, AdvanceWraps DEF Slots
    <3>2. ret' \in Stored
      BY <1>5, <2>3, <3>1 DEF rbufPopFront, FrontOf, TypeOK
    <3> QED
      BY <1>5, <2>1, <2>3, <3>1, <3>2 DEF rbufPopFront, TypeOK, Slots
  <2> QED
    BY <2>2, <2>3
<1>6. ASSUME NEW v \in Stored, rbufSetValue(v) PROVE TypeOK'
  BY <1>6 DEF rbufSetValue, Quiet, TypeOK, Slots, Stored, indices
<1>7. CASE rbufFront \/ rbufBack \/ rbufNext \/ rbufPrev
  <2>1. cap # 0
    BY <1>7 DEF rbufFront, rbufBack, rbufNext, rbufPrev, TakeItem
  <2> QED
    BY <1>7, <2>1, ItemsAreSlots, TakeItemType
    DEF rbufFront, rbufBack, rbufNext, rbufPrev
<1>8. ASSUME NEW f \in BOOLEAN, rbufSetCleanupFunc(f) PROVE TypeOK'
  BY <1>8 DEF rbufSetCleanupFunc, Quiet, TypeOK, Slots, Stored, indices
<1>9. CASE UNCHANGED vars
  BY <1>9 DEF vars, TypeOK, Slots, Stored
<1> QED
  BY <1>1, <1>2, <1>3, <1>4, <1>5, <1>6, <1>7, <1>8, <1>9 DEF Next

\* At the beginning there is no buffer.
LEMMA TypeInit ==
    ASSUME Init
    PROVE  TypeOK
<1>1. data \in [Slots -> Stored]
  BY DEF Init, Stored
<1>2. clean \in BOOLEAN
  BY Zenon DEF Init
<1>3. /\ cap = 0 /\ start = 0 /\ end = 0 /\ size = 0
      /\ it = NoItem /\ ret = NULL /\ cleaned = {}
  BY DEF Init
<1> QED
  BY <1>1, <1>2, <1>3 DEF TypeOK, Stored

\* No sequence of calls takes an index out of the array or the size out of the
\* capacity.
THEOREM TypeCorrect == Spec => []TypeOK
BY TypeInit, TypeStep, PTL DEF Spec

-----------------------------------------------------------------------------
\* Where the n-th newest item of a buffer with its end at e is.
LEMMA NewestSlot ==
    ASSUME NEW c \in Nat \ {0}, NEW e \in 0 .. c - 1, NEW n \in 0 .. c - 1
    PROVE  modulo(e - n, c) = IF e < n THEN e - n + c ELSE e - n
<1>1. ASSUME NEW x \in Int, x = e - n
      PROVE  x % c = IF x < 0 THEN x + c ELSE x
  <2>1. x < c /\ x >= -c /\ x < 2 * c
    BY <1>1
  <2> QED
    BY <2>1, ModOnce
<1> QED
  BY <1>1 DEF modulo

\* The oldest of n items without the remainder.
LEMMA OldestOf ==
    ASSUME NEW c \in Nat \ {0}, NEW e \in 0 .. c - 1, NEW n \in 1 .. c
    PROVE  modulo(e - n + 1, c) = IF e + 1 < n THEN e + 1 - n + c ELSE e + 1 - n
<1>1. n - 1 \in 0 .. c - 1 /\ e - (n - 1) = e - n + 1
  OBVIOUS
<1>2. modulo(e - (n - 1), c) = IF e < n - 1 THEN e - (n - 1) + c ELSE e - (n - 1)
  BY <1>1, NewestSlot
<1> QED
  BY <1>1, <1>2

\* The slot of the oldest item before a step ...
LEMMA OldestSlot ==
    ASSUME TypeOK, size > 0
    PROVE  Oldest = IF end + 1 < size THEN end + 1 - size + cap ELSE end + 1 - size
<1>1. cap \in Nat \ {0} /\ end \in 0 .. cap - 1 /\ size \in 1 .. cap
  BY CapsAssumption DEF TypeOK, Slots
<1> QED
  BY <1>1, OldestOf DEF Oldest

\* ... and after it.
LEMMA OldestSlotAfter ==
    ASSUME TypeOK', size' > 0
    PROVE  Oldest' = IF end' + 1 < size' THEN end' + 1 - size' + cap'
                                         ELSE end' + 1 - size'
<1>1. cap' \in Nat \ {0} /\ end' \in 0 .. cap' - 1 /\ size' \in 1 .. cap'
  BY CapsAssumption DEF TypeOK, Slots
<1> QED
  BY <1>1, OldestOf DEF Oldest

\* A push into a buffer that is not drained leaves an aligned buffer aligned.
LEMMA PushAligned ==
    ASSUME TypeOK, TypeOK', Aligned, ~Drained, NEW v \in Vals, rbufPushBack(v)
    PROVE  Aligned'
<1>1. /\ cap \in Nat \ {0} /\ cap' = cap
      /\ start \in 0 .. cap - 1 /\ end \in 0 .. cap - 1 /\ size \in 0 .. cap
  BY BufferType DEF rbufPushBack
<1>2. /\ end' = PushEnd /\ start' = PushStart
      /\ size' = IF size = cap THEN size ELSE size + 1
  BY DEF rbufPushBack
<1>3. size' > 0
  BY <1>1, <1>2
<1>4. Oldest' = IF end' + 1 < size' THEN end' + 1 - size' + cap' ELSE end' + 1 - size'
  BY <1>3, OldestSlotAfter
<1>5. CASE size = 0
  BY <1>1, <1>2, <1>4, <1>5 DEF Aligned, Drained, PushEnd, PushStart
<1>6. CASE size # 0
  <2>1. start = IF end + 1 < size THEN end + 1 - size + cap ELSE end + 1 - size
    BY <1>1, <1>6, OldestSlot DEF Aligned
  <2>2. end' = IF end + 1 = cap THEN 0 ELSE end + 1
    BY <1>1, <1>2, <1>6, AdvanceWraps DEF PushEnd
  <2>3. CASE size = cap
    <3>1. start' = IF start + 1 = cap THEN 0 ELSE start + 1
      BY <1>1, <1>2, <2>3, AdvanceWraps DEF PushStart
    <3> QED
      BY <1>1, <1>2, <1>4, <2>1, <2>2, <2>3, <3>1 DEF Aligned
  <2>4. CASE size # cap
    BY <1>1, <1>2, <1>4, <1>6, <2>1, <2>2, <2>4 DEF Aligned, PushStart
  <2> QED
    BY <2>3, <2>4
<1> QED
  BY <1>5, <1>6

\* A pop leaves an aligned buffer aligned.
LEMMA PopAligned ==
    ASSUME TypeOK, TypeOK', Aligned, rbufPopFront
    PROVE  Aligned'
<1>1. /\ cap \in Nat \ {0} /\ cap' = cap /\ end' = end
      /\ start \in 0 .. cap - 1 /\ end \in 0 .. cap - 1 /\ size \in 0 .. cap
  BY BufferType DEF rbufPopFront, indices
<1>2. CASE size' > 0
  <2>1. size # 0 /\ start' = Advance(start) /\ size' = size - 1
    BY <1>1, <1>2 DEF rbufPopFront, indices
  <2>2. start = IF end + 1 < size THEN end + 1 - size + cap ELSE end + 1 - size
    BY <1>1, <2>1, OldestSlot DEF Aligned
  <2>3. start' = IF start + 1 = cap THEN 0 ELSE start + 1
    BY <1>1, <2>1, AdvanceWraps
  <2>4. Oldest' = IF end' + 1 < size' THEN end' + 1 - size' + cap' ELSE end' + 1 - size'
    BY <1>2, OldestSlotAfter
  <2> QED
    BY <1>1, <1>2, <2>1, <2>2, <2>3, <2>4 DEF Aligned
<1> QED
  BY <1>2 DEF Aligned

\* A call that keeps the indices keeps the alignment.
LEMMA KeepsAligned ==
    ASSUME Aligned, UNCHANGED <<cap, start, end, size>>
    PROVE  Aligned'
<1> QED
  BY DEF Aligned, Oldest

\* What makes an aligned buffer drift in one step.
LEMMA DriftStep ==
    ASSUME TypeOK, TypeOK', [Next]_vars, Aligned, ~Aligned'
    PROVE  Drained /\ size' = 1
<1>1. CASE \E c \in Caps : rbufInit(c)
  BY <1>1 DEF rbufInit, Aligned
<1>2. CASE rbufReset \/ rbufCleanup
  BY <1>2 DEF rbufReset, rbufCleanup, Aligned
<1>3. ASSUME NEW v \in Vals, rbufPushBack(v) PROVE Drained /\ size' = 1
  <2>1. Drained
    BY <1>3, PushAligned
  <2>2. cap # 0 /\ size = 0 /\ size' = IF size = cap THEN size ELSE size + 1
    BY <1>3, <2>1 DEF rbufPushBack, Drained
  <2> QED
    BY <2>1, <2>2
<1>4. CASE rbufPopFront
  BY <1>4, PopAligned
<1>5. CASE \/ \E v \in Stored : rbufSetValue(v)
           \/ rbufFront \/ rbufBack \/ rbufNext \/ rbufPrev
           \/ \E f \in BOOLEAN : rbufSetCleanupFunc(f)
  <2>1. UNCHANGED <<cap, start, end, size>>
    BY <1>5 DEF rbufSetValue, rbufFront, rbufBack, rbufNext, rbufPrev,
                TakeItem, rbufSetCleanupFunc, indices
  <2> QED
    BY <2>1, KeepsAligned
<1>6. CASE UNCHANGED vars
  BY <1>6, KeepsAligned DEF vars
<1> QED
  BY <1>1, <1>2, <1>3, <1>4, <1>5, <1>6 DEF Next

\* The start of the buffer drifts away from its oldest item in one way only:
\* by a push into a buffer that pops have drained.
THEOREM DriftTheorem == Spec => DriftOnlyByDrainedPush
<1>1. TypeOK /\ TypeOK' /\ [Next]_vars
        => [Aligned /\ ~Aligned' => Drained /\ size' = 1]_vars
  BY DriftStep
<1> QED
  BY <1>1, TypeCorrect, PTL DEF Spec, DriftOnlyByDrainedPush

-----------------------------------------------------------------------------
\* A push can store into the slot of a kept item only in a full buffer, and
\* then into the slot of the oldest.
LEMMA PushHitsOldest ==
    ASSUME TypeOK, NEW s \in Kept, s = PushEnd
    PROVE  size = cap /\ s = Oldest
<1>1. PICK k \in 0 .. size - 1 : s = modulo(end - k, cap)
  BY DEF Kept
<1>2. /\ cap \in Nat \ {0} /\ end \in 0 .. cap - 1 /\ size \in 1 .. cap
      /\ k \in 0 .. cap - 1
  BY <1>1, CapsAssumption DEF TypeOK, Slots
<1>3. s = IF end < k THEN end - k + cap ELSE end - k
  BY <1>1, <1>2, NewestSlot
<1>4. s = IF end + 1 = cap THEN 0 ELSE end + 1
  BY <1>2, AdvanceWraps DEF PushEnd
<1>5. k = cap - 1
  BY <1>2, <1>3, <1>4
<1>6. size = cap
  BY <1>1, <1>2, <1>5
<1> QED
  BY <1>2, <1>4, <1>6, OldestSlot

\* Whatever the client does, aligned or not, a push costs it at most the
\* oldest item, and only in a full buffer.
THEOREM PushTheorem == Spec => PushKeepsYounger
<1>1. ASSUME TypeOK, [Next]_vars,
             NEW s \in Kept, cap' = cap, data'[s] # data[s], it # s
      PROVE  size = cap /\ s = Oldest
  <2>1. CASE \E c \in Caps : rbufInit(c)
    BY <1>1, <2>1, CapsAssumption DEF rbufInit
  <2>2. CASE rbufCleanup
    BY <1>1, <2>2 DEF rbufCleanup
  <2>3. ASSUME NEW v \in Vals, rbufPushBack(v) PROVE size = cap /\ s = Oldest
    <3>1. s = PushEnd
      BY <1>1, <2>3 DEF rbufPushBack, TypeOK
    <3> QED
      BY <1>1, <3>1, PushHitsOldest
  <2>4. ASSUME NEW v \in Stored, rbufSetValue(v) PROVE FALSE
    BY <1>1, <2>4 DEF rbufSetValue, TypeOK
  <2>5. CASE \/ rbufReset \/ rbufPopFront
             \/ rbufFront \/ rbufBack \/ rbufNext \/ rbufPrev
             \/ \E f \in BOOLEAN : rbufSetCleanupFunc(f)
    BY <1>1, <2>5 DEF rbufReset, rbufPopFront, rbufFront, rbufBack, rbufNext,
                      rbufPrev, TakeItem, rbufSetCleanupFunc
  <2>6. CASE UNCHANGED vars
    BY <1>1, <2>6 DEF vars
  <2> QED
    BY <1>1, <2>1, <2>2, <2>3, <2>4, <2>5, <2>6 DEF Next
<1>2. TypeOK /\ [Next]_vars => [SparesYounger]_vars
  BY <1>1 DEF SparesYounger
<1> QED
  BY <1>2, TypeCorrect, PTL DEF Spec, PushKeepsYounger

-----------------------------------------------------------------------------
\* Where the k-th item after the front is.
LEMMA ItemSlot ==
    ASSUME NEW c \in Nat \ {0}, NEW b \in 0 .. c - 1, NEW k \in 0 .. c - 1
    PROVE  modulo(b + k, c) = IF b + k < c THEN b + k ELSE b + k - c
<1>1. ASSUME NEW x \in Int, x = b + k
      PROVE  x % c = IF x < c THEN x ELSE x - c
  <2>1. ~(x < 0) /\ x >= -c /\ x < 2 * c
    BY <1>1
  <2> QED
    BY <2>1, ModOnce
<1> QED
  BY <1>1 DEF modulo

\* A ring of c slots whose n items end at slot e begins at slot b, before or
\* behind its end.
LEMMA RoundShape ==
    ASSUME NEW c \in Nat \ {0}, NEW e \in 0 .. c - 1, NEW n \in 1 .. c,
           NEW b, b = IF e + 1 < n THEN e + 1 - n + c ELSE e + 1 - n
    PROVE  \/ b <= e /\ n = e - b + 1
           \/ b > e /\ n = e - b + 1 + c
OBVIOUS

\* The facts about an aligned buffer with an item, without remainders.
LEMMA AlignedShape ==
    ASSUME TypeOK, Aligned, size > 0
    PROVE  /\ cap \in Nat \ {0} /\ size \in 1 .. cap
           /\ start \in 0 .. cap - 1 /\ end \in 0 .. cap - 1
           /\ \/ start <= end /\ size = end - start + 1
              \/ start > end /\ size = end - start + 1 + cap
<1>1. /\ cap \in Nat \ {0} /\ size \in 1 .. cap
      /\ start \in 0 .. cap - 1 /\ end \in 0 .. cap - 1
  BY CapsAssumption DEF TypeOK, Slots
<1>2. start = IF end + 1 < size THEN end + 1 - size + cap ELSE end + 1 - size
  BY OldestSlot DEF Aligned
<1> QED
  BY <1>1, <1>2, RoundShape

\* From front to back and from back to front, rbufNext and rbufPrev of an
\* aligned buffer lead over each of its items once.
LEMMA WalkLemma ==
    ASSUME TypeOK
    PROVE  WalkInOrder
<1> DEFINE Item(k) == modulo(start + k, cap)
<1> SUFFICES ASSUME size > 0, Aligned
             PROVE  /\ FrontOf = Item(0)
                    /\ BackOf = Item(size - 1)
                    /\ \A k \in 0 .. size - 2 : /\ NextOf(Item(k)) = Item(k + 1)
                                                /\ PrevOf(Item(k + 1)) = Item(k)
                    /\ NextOf(BackOf) = NoItem
                    /\ PrevOf(FrontOf) = NoItem
  BY DEF WalkInOrder
<1>1. /\ cap \in Nat \ {0} /\ size \in 1 .. cap
      /\ start \in 0 .. cap - 1 /\ end \in 0 .. cap - 1
      /\ \/ start <= end /\ size = end - start + 1
         \/ start > end /\ size = end - start + 1 + cap
  BY AlignedShape
<1>2. ASSUME NEW k \in 0 .. size - 1
      PROVE  /\ Item(k) = IF start + k < cap THEN start + k ELSE start + k - cap
             /\ Item(k) \in 0 .. cap - 1
             /\ IndexInside(Item(k))
             /\ Item(k) = start <=> k = 0
             /\ Item(k) = end <=> k = size - 1
  <2>1. Item(k) = IF start + k < cap THEN start + k ELSE start + k - cap
    BY <1>1, ItemSlot
  <2> HIDE DEF Item
  <2>2. /\ Item(k) \in 0 .. cap - 1
        /\ Item(k) = start <=> k = 0
        /\ Item(k) = end <=> k = size - 1
    BY <1>1, <2>1
  <2>3. IndexInside(Item(k))
    BY <1>1, <2>1 DEF IndexInside
  <2> QED
    BY <2>1, <2>2, <2>3
<1> HIDE DEF Item
<1>3. FrontOf = Item(0) /\ BackOf = Item(size - 1)
  <2>1. 0 \in 0 .. size - 1 /\ size - 1 \in 0 .. size - 1
    BY <1>1
  <2> QED
    BY <1>1, <1>2, <2>1 DEF FrontOf, BackOf
<1>4. ASSUME NEW k \in 0 .. size - 2
      PROVE  NextOf(Item(k)) = Item(k + 1) /\ PrevOf(Item(k + 1)) = Item(k)
  <2>1. k \in 0 .. size - 1 /\ k + 1 \in 0 .. size - 1
    BY <1>1
  <2>2. NextOf(Item(k)) = Advance(Item(k))
    BY <1>1, <1>2, <2>1 DEF NextOf, NoItem
  <2>3. Advance(Item(k)) = Item(k + 1)
    <3>1. Advance(Item(k)) = IF Item(k) + 1 = cap THEN 0 ELSE Item(k) + 1
      BY <1>1, <1>2, <2>1, AdvanceWraps
    <3> QED
      BY <1>1, <1>2, <2>1, <3>1
  <2>4. PrevOf(Item(k + 1)) = modulo(Item(k + 1) - 1, cap)
    BY <1>1, <1>2, <2>1 DEF PrevOf, NoItem
  <2>5. modulo(Item(k + 1) - 1, cap) = Item(k)
    <3>1. modulo(Item(k + 1) - 1, cap)
            = IF Item(k + 1) = 0 THEN cap - 1 ELSE Item(k + 1) - 1
      BY <1>1, <1>2, <2>1, AdvanceWraps
    <3> QED
      BY <1>1, <1>2, <2>1, <3>1
  <2> QED
    BY <2>2, <2>3, <2>4, <2>5
<1>5. NextOf(BackOf) = NoItem /\ PrevOf(FrontOf) = NoItem
  BY <1>1 DEF NextOf, PrevOf, BackOf, FrontOf
<1> QED
  BY <1>3, <1>4, <1>5

\* Iterating over an aligned buffer, however it came to its state, shows every
\* item once and in order.
THEOREM WalkTheorem == Spec => []WalkInOrder
BY WalkLemma, TypeCorrect, PTL

-----------------------------------------------------------------------------
\* In an aligned buffer of two items or more, and in an empty one,
\* rbufIndexInside accepts exactly the slots of the items.
LEMMA InsideIsKept ==
    ASSUME TypeOK, Aligned, size # 1, NEW i \in Slots
    PROVE  IndexInside(i) <=> i \in Kept
<1>1. CASE size = 0
  BY <1>1 DEF IndexInside, Kept
<1>2. CASE size # 0
  <2>1. /\ cap \in Nat \ {0} /\ size \in 2 .. cap /\ i \in 0 .. cap - 1
        /\ start \in 0 .. cap - 1 /\ end \in 0 .. cap - 1
        /\ \/ start <= end /\ size = end - start + 1
           \/ start > end /\ size = end - start + 1 + cap
    <3>1. size > 0
      BY <1>2 DEF TypeOK
    <3> QED
      BY <3>1, AlignedShape DEF Slots
  <2>2. ASSUME NEW k \in 0 .. size - 1
        PROVE  modulo(end - k, cap) = IF end < k THEN end - k + cap ELSE end - k
    <3>1. k \in 0 .. cap - 1
      BY <2>1
    <3> QED
      BY <2>1, <3>1, NewestSlot
  <2>3. ASSUME IndexInside(i) PROVE i \in Kept
    <3> DEFINE k == IF i <= end THEN end - i ELSE end - i + cap
    <3>1. k \in 0 .. size - 1 /\ i = IF end < k THEN end - k + cap ELSE end - k
      BY <2>1, <2>3 DEF IndexInside
    <3> HIDE DEF k
    <3>2. i = modulo(end - k, cap)
      BY <2>2, <3>1
    <3> QED
      BY <3>1, <3>2 DEF Kept
  <2>4. ASSUME i \in Kept PROVE IndexInside(i)
    <3>1. PICK k \in 0 .. size - 1 : i = modulo(end - k, cap)
      BY <2>4 DEF Kept
    <3>2. i = IF end < k THEN end - k + cap ELSE end - k
      BY <2>2, <3>1
    <3> QED
      BY <2>1, <3>1, <3>2 DEF IndexInside
  <2> QED
    BY <2>3, <2>4
<1> QED
  BY <1>1, <1>2

\* From a handle that names no item rbufNext and rbufPrev lead nowhere, and
\* from an item to an item.
LEMMA StaleLemma ==
    ASSUME TypeOK
    PROVE  StaleHandleDetected
<1> SUFFICES ASSUME size # 1, Aligned
             PROVE  {NextOf(it), PrevOf(it)} \subseteq
                        IF it \in Kept THEN Kept \union {NoItem} ELSE {NoItem}
  BY DEF StaleHandleDetected
<1>1. CASE it = NoItem
  BY <1>1 DEF NextOf, PrevOf
<1>2. CASE it # NoItem /\ it \notin Kept
  <2>1. it \in Slots
    BY <1>2 DEF TypeOK
  <2>2. ~IndexInside(it)
    BY <1>2, <2>1, InsideIsKept
  <2> QED
    BY <1>2, <2>2 DEF NextOf, PrevOf
<1>3. CASE it # NoItem /\ it \in Kept
  <2>1. it \in Slots /\ size > 0
    BY <1>3 DEF TypeOK, Kept
  <2>2. /\ cap \in Nat \ {0} /\ size \in 2 .. cap /\ it \in 0 .. cap - 1
        /\ start \in 0 .. cap - 1 /\ end \in 0 .. cap - 1
        /\ \/ start <= end /\ size = end - start + 1
           \/ start > end /\ size = end - start + 1 + cap
    BY <2>1, AlignedShape DEF Slots
  <2>3. IndexInside(it)
    BY <1>3, <2>1, InsideIsKept
  <2>4. NextOf(it) \in Kept \union {NoItem}
    <3>1. CASE it = end
      BY <3>1 DEF NextOf
    <3>2. CASE it # end
      <4>1. Advance(it) = IF it + 1 = cap THEN 0 ELSE it + 1
        BY <2>2, AdvanceWraps
      <4>2. Advance(it) \in Slots /\ IndexInside(Advance(it))
        BY <2>2, <2>3, <3>2, <4>1 DEF IndexInside, Slots
      <4>3. Advance(it) \in Kept
        BY <4>2, InsideIsKept
      <4> QED
        BY <1>3, <2>3, <3>2, <4>3 DEF NextOf
    <3> QED
      BY <3>1, <3>2
  <2>5. PrevOf(it) \in Kept \union {NoItem}
    <3> DEFINE p == modulo(it - 1, cap)
    <3>1. CASE it = start
      BY <3>1 DEF PrevOf
    <3>2. CASE it # start
      <4>1. p = IF it = 0 THEN cap - 1 ELSE it - 1
        BY <2>2, AdvanceWraps
      <4>2. PrevOf(it) = p
        BY <1>3, <2>3, <3>2 DEF PrevOf
      <4> HIDE DEF p
      <4>3. p \in Slots /\ IndexInside(p)
        BY <2>2, <2>3, <3>2, <4>1 DEF IndexInside, Slots
      <4> QED
        BY <4>2, <4>3, InsideIsKept
    <3> QED
      BY <3>1, <3>2
  <2> QED
    BY <1>3, <2>4, <2>5
<1> QED
  BY <1>1, <1>2, <1>3

\* Unless one item is left, an aligned buffer tells the client's handle from a
\* stale one, whatever was pushed and popped since the handle was taken.
THEOREM StaleTheorem == Spec => []StaleHandleDetected
BY StaleLemma, TypeCorrect, PTL

-----------------------------------------------------------------------------
(***************************************************************************)
(* The ring buffer refines the bounded queue that rbuf.h promises: every   *)
(* step of an aligned buffer is a step of the queue, and the buffer of a   *)
(* client that resets before it pushes into a drained buffer is aligned    *)
(* for ever.                                                               *)
(***************************************************************************)

\* The index i of a ring of c slots, when it is at most one round too high.
Turn(i, c) == IF i < c THEN i ELSE i - c

\* The n values from slot b on of an array d of c slots.
Window(d, b, n, c) == [k \in 1 .. n |-> d[modulo(b + k - 1, c)]]

\* What the variables of a buffer, or of none, can be.
Shape(d, b, n, c) ==
    /\ c \in Nat
    /\ n \in 0 .. c
    /\ d \in [0 .. c - 1 -> Stored]
    /\ c # 0 => b \in 0 .. c - 1

\* The sequence s is what the n slots from b on hold.
Reads(s, d, b, n, c) ==
    /\ s \in Seq(Stored)
    /\ Len(s) = n
    /\ \A k \in 1 .. n : s[k] = d[Turn(b + k - 1, c)]

\* The refinement mapping gives a sequence of as many values as there are
\* items, which lie in the slots from the front on.
LEMMA WindowIsSeq ==
    ASSUME NEW d, NEW b, NEW n, NEW c, Shape(d, b, n, c)
    PROVE  Reads(Window(d, b, n, c), d, b, n, c)
<1>1. ASSUME NEW k \in 1 .. n
      PROVE  /\ modulo(b + k - 1, c) = Turn(b + k - 1, c)
             /\ modulo(b + k - 1, c) \in 0 .. c - 1
  <2>1. /\ c \in Nat \ {0} /\ b \in 0 .. c - 1 /\ k - 1 \in 0 .. c - 1
        /\ b + (k - 1) = b + k - 1
    BY DEF Shape
  <2>2. modulo(b + k - 1, c) = IF b + k - 1 < c THEN b + k - 1 ELSE b + k - 1 - c
    <3>1. modulo(b + (k - 1), c) = IF b + (k - 1) < c THEN b + (k - 1) ELSE b + (k - 1) - c
      BY <2>1, ItemSlot
    <3> QED
      BY <2>1, <3>1
  <2> QED
    BY <2>1, <2>2 DEF Turn
<1>2. Window(d, b, n, c) \in [1 .. n -> Stored]
  BY <1>1 DEF Window, Shape
<1>3. n \in Nat
  BY DEF Shape
<1>4. Window(d, b, n, c) \in Seq(Stored)
  BY <1>2, <1>3
<1>5. Len(Window(d, b, n, c)) = n
  BY <1>2, <1>3, <1>4
<1>6. \A k \in 1 .. n : Window(d, b, n, c)[k] = d[modulo(b + k - 1, c)]
  BY DEF Window
<1> QED
  BY <1>1, <1>4, <1>5, <1>6 DEF Reads

\* The refinement mapping before a step ...
LEMMA ContentsIs ==
    ASSUME TypeOK
    PROVE  Contents = Window(data, start, size, cap) /\ Shape(data, start, size, cap)
<1>1. Contents = Window(data, start, size, cap)
  BY DEF Contents, Window
<1>2. cap \in Nat
  BY CapsAssumption DEF TypeOK
<1> QED
  BY <1>1, <1>2 DEF TypeOK, Slots, Shape

\* ... and after it.
LEMMA ContentsIsAfter ==
    ASSUME TypeOK'
    PROVE  /\ Contents' = Window(data', start', size', cap')
           /\ Shape(data', start', size', cap')
<1>1. Contents' = Window(data', start', size', cap')
  BY DEF Contents, Window
<1>2. cap' \in Nat /\ Stored' = Stored
  BY CapsAssumption DEF TypeOK, Stored
<1> QED
  BY <1>1, <1>2 DEF TypeOK, Slots, Shape

-----------------------------------------------------------------------------
\* A push onto n values of an array that keeps them, in the slot after the last
\* of them, is Append.
LEMMA ReadsAppend ==
    ASSUME NEW d, NEW b, NEW n, NEW c, Shape(d, b, n, c), n < c,
           NEW v \in Stored, NEW s, NEW t,
           Reads(s, d, b, n, c),
           Reads(t, [d EXCEPT ![Turn(b + n, c)] = v], b, n + 1, c)
    PROVE  t = Append(s, v)
<1> DEFINE e == [d EXCEPT ![Turn(b + n, c)] = v]
           a == Append(s, v)
<1>1. /\ c \in Nat \ {0} /\ n \in Nat /\ b \in 0 .. c - 1
      /\ d \in [0 .. c - 1 -> Stored]
  BY DEF Shape
<1>2. Turn(b + n, c) \in 0 .. c - 1
  BY <1>1 DEF Turn
<1>3. /\ s \in Seq(Stored) /\ Len(s) = n
      /\ t \in Seq(Stored) /\ Len(t) = n + 1
      /\ \A k \in 1 .. n : s[k] = d[Turn(b + k - 1, c)]
      /\ \A k \in 1 .. n + 1 : t[k] = e[Turn(b + k - 1, c)]
  BY DEF Reads
<1>4. t[n + 1] = v
  <2>1. n + 1 \in 1 .. n + 1 /\ b + (n + 1) - 1 = b + n
    BY <1>1
  <2> QED
    BY <1>1, <1>2, <1>3, <2>1
<1>5. ASSUME NEW k \in 1 .. n PROVE t[k] = s[k]
  <2>1. Turn(b + k - 1, c) # Turn(b + n, c) /\ Turn(b + k - 1, c) \in 0 .. c - 1
    BY <1>1 DEF Turn
  <2>2. k \in 1 .. n + 1
    BY <1>1
  <2> QED
    BY <1>1, <1>2, <1>3, <2>1, <2>2
<1>6. /\ a \in Seq(Stored) /\ Len(a) = n + 1
      /\ \A k \in 1 .. n : a[k] = s[k]
      /\ a[n + 1] = v
  BY <1>1, <1>3, AppendProperties
<1> HIDE DEF a
<1>7. \A k \in 1 .. n + 1 : t[k] = a[k]
  BY <1>1, <1>4, <1>5, <1>6
<1>8. t = a
  BY <1>1, <1>3, <1>6, <1>7, SeqEqual
<1> QED
  BY <1>8 DEF a

\* Of n slots from b on, m slots from b2 on are all but the first.
Rest(b2, m, b, n, c) == n > 0 /\ b2 = Turn(b + 1, c) /\ m = n - 1

\* Without the first value, the slots hold the tail.
LEMMA ReadsTail ==
    ASSUME NEW d, NEW b, NEW n, NEW c, Shape(d, b, n, c),
           NEW b2, NEW m, Rest(b2, m, b, n, c),
           NEW s, NEW t, Reads(s, d, b, n, c), Reads(t, d, b2, m, c)
    PROVE  s # <<>> /\ Head(s) = d[b] /\ t = Tail(s)
<1>1. /\ c \in Nat \ {0} /\ n \in 1 .. c /\ b \in 0 .. c - 1
      /\ d \in [0 .. c - 1 -> Stored]
  BY DEF Shape, Rest
<1>2. /\ s \in Seq(Stored) /\ Len(s) = n
      /\ t \in Seq(Stored) /\ Len(t) = n - 1
      /\ \A k \in 1 .. n : s[k] = d[Turn(b + k - 1, c)]
      /\ \A k \in 1 .. n - 1 : t[k] = d[Turn(Turn(b + 1, c) + k - 1, c)]
  BY DEF Reads, Rest
<1>3. s # <<>>
  BY <1>1, <1>2
<1>4. Head(s) = d[b]
  <2>1. Turn(b + 1 - 1, c) = b /\ 1 \in 1 .. n
    BY <1>1 DEF Turn
  <2>2. s[1] = d[b]
    BY <1>2, <2>1
  <2> QED
    BY <1>2, <1>3, <2>2
<1>5. /\ Tail(s) \in Seq(Stored) /\ Len(Tail(s)) = n - 1
      /\ \A k \in 1 .. n - 1 : Tail(s)[k] = s[k + 1]
  BY <1>2, <1>3, HeadTailProperties
<1>6. ASSUME NEW k \in 1 .. n - 1 PROVE t[k] = Tail(s)[k]
  <2>1. k + 1 \in 1 .. n /\ Turn(Turn(b + 1, c) + k - 1, c) = Turn(b + (k + 1) - 1, c)
    BY <1>1 DEF Turn
  <2> QED
    BY <1>1, <1>2, <1>5, <2>1
<1>7. t = Tail(s)
  BY <1>1, <1>2, <1>5, <1>6, SeqEqual
<1> QED
  BY <1>3, <1>4, <1>7

\* The tail of a full ring is what all but the first slot hold.
LEMMA RestOfFull ==
    ASSUME NEW d, NEW b, NEW c, Shape(d, b, c, c), c # 0,
           NEW s, Reads(s, d, b, c, c)
    PROVE  /\ Shape(d, Turn(b + 1, c), c - 1, c)
           /\ Reads(Tail(s), d, Turn(b + 1, c), c - 1, c)
<1> DEFINE b2 == Turn(b + 1, c)
           m == c - 1
           r == Window(d, b2, m, c)
<1>1. c \in Nat \ {0} /\ b \in 0 .. c - 1
  BY DEF Shape
<1>2. b2 \in 0 .. c - 1 /\ m \in 0 .. c
  BY <1>1 DEF Turn
<1>3. Shape(d, b2, m, c)
  BY <1>1, <1>2 DEF Shape
<1>4. Rest(b2, m, b, c, c)
  BY <1>1 DEF Rest
<1> HIDE DEF b2, m
<1>5. Reads(r, d, b2, m, c)
  BY <1>3, WindowIsSeq
<1> HIDE DEF r
<1>6. r = Tail(s)
  BY <1>4, <1>5, ReadsTail
<1> QED
  BY <1>3, <1>5, <1>6 DEF b2, m

\* A push into a full ring is Append to the tail.
LEMMA ReadsOverwrite ==
    ASSUME NEW d, NEW b, NEW c, Shape(d, b, c, c), c # 0,
           NEW v \in Stored, NEW s, NEW t,
           Reads(s, d, b, c, c),
           Reads(t, [d EXCEPT ![b] = v], Turn(b + 1, c), c, c)
    PROVE  t = Append(Tail(s), v)
<1> DEFINE b2 == Turn(b + 1, c)
           m == c - 1
<1>1. Shape(d, b2, m, c) /\ Reads(Tail(s), d, b2, m, c)
  BY RestOfFull
<1>2. c \in Nat \ {0} /\ b \in 0 .. c - 1
  BY DEF Shape
<1>3. Turn(b2 + m, c) = b /\ m + 1 = c /\ m < c
  BY <1>2 DEF Turn
<1>4. Reads(t, [d EXCEPT ![Turn(b2 + m, c)] = v], b2, m + 1, c)
  BY <1>3
<1> HIDE DEF b2, m
<1> QED
  BY <1>1, <1>3, <1>4, ReadsAppend

\* A write to the k-th place changes the k-th value.
LEMMA ReadsReplace ==
    ASSUME NEW d, NEW b, NEW n, NEW c, Shape(d, b, n, c),
           NEW v \in Stored, NEW k \in 1 .. n, NEW s, NEW t,
           Reads(s, d, b, n, c),
           Reads(t, [d EXCEPT ![Turn(b + k - 1, c)] = v], b, n, c)
    PROVE  t = [s EXCEPT ![k] = v]
<1> DEFINE e == [d EXCEPT ![Turn(b + k - 1, c)] = v]
           r == [s EXCEPT ![k] = v]
<1>1. /\ c \in Nat \ {0} /\ n \in 1 .. c /\ b \in 0 .. c - 1
      /\ d \in [0 .. c - 1 -> Stored]
  BY DEF Shape
<1>2. /\ s \in Seq(Stored) /\ Len(s) = n
      /\ t \in Seq(Stored) /\ Len(t) = n
      /\ \A j \in 1 .. n : s[j] = d[Turn(b + j - 1, c)]
      /\ \A j \in 1 .. n : t[j] = e[Turn(b + j - 1, c)]
  BY DEF Reads
<1>3. /\ r \in Seq(Stored) /\ Len(r) = n
      /\ \A j \in 1 .. n : r[j] = IF j = k THEN v ELSE s[j]
  BY <1>2, ExceptSeq
<1>4. ASSUME NEW j \in 1 .. n PROVE t[j] = r[j]
  <2>1. /\ Turn(b + j - 1, c) \in 0 .. c - 1
        /\ Turn(b + j - 1, c) = Turn(b + k - 1, c) <=> j = k
    BY <1>1 DEF Turn
  <2> QED
    BY <1>1, <1>2, <1>3, <2>1
<1> HIDE DEF r
<1>5. t = r
  BY <1>1, <1>2, <1>3, <1>4, SeqEqual
<1> QED
  BY <1>5 DEF r

\* A write elsewhere changes nothing.
LEMMA ReadsSame ==
    ASSUME NEW d, NEW b, NEW n, NEW c, Shape(d, b, n, c),
           NEW i, NEW v, NEW s, NEW t,
           \A k \in 1 .. n : i # Turn(b + k - 1, c),
           Reads(s, d, b, n, c),
           Reads(t, [d EXCEPT ![i] = v], b, n, c)
    PROVE  t = s
<1> DEFINE e == [d EXCEPT ![i] = v]
<1>1. n \in Nat /\ d \in [0 .. c - 1 -> Stored] /\ c \in Nat /\ n \in 0 .. c
  BY DEF Shape
<1>2. /\ s \in Seq(Stored) /\ Len(s) = n
      /\ t \in Seq(Stored) /\ Len(t) = n
      /\ \A j \in 1 .. n : s[j] = d[Turn(b + j - 1, c)]
      /\ \A j \in 1 .. n : t[j] = e[Turn(b + j - 1, c)]
  BY DEF Reads
<1>3. ASSUME NEW j \in 1 .. n PROVE t[j] = s[j]
  <2>1. Turn(b + j - 1, c) \in 0 .. c - 1
    BY <1>1 DEF Turn, Shape
  <2> QED
    BY <1>1, <1>2, <2>1
<1> QED
  BY <1>1, <1>2, <1>3, SeqEqual

-----------------------------------------------------------------------------
\* A call that keeps the items and returns nothing looks at the queue.
LEMMA LookStep ==
    ASSUME UNCHANGED <<cap, data, start, size>>, ret' = NULL
    PROVE  Fifo!Next
<1>1. Contents' = Contents
  BY DEF Contents
<1> QED
  BY <1>1 DEF Fifo!Next, Fifo!Look

\* rbufInit creates the queue, rbufReset clears it, rbufCleanup destroys it.
LEMMA EmptyingStep ==
    ASSUME \/ \E c \in Caps : rbufInit(c)
           \/ rbufReset
           \/ rbufCleanup
    PROVE  Fifo!Next
<1>1. size' = 0 /\ ret' = NULL
  BY DEF rbufInit, rbufReset, rbufCleanup, Quiet
<1>2. Contents' = <<>>
  BY <1>1 DEF Contents
<1>3. CASE \E c \in Caps : rbufInit(c)
  BY <1>1, <1>2, <1>3 DEF rbufInit, Fifo!Next, Fifo!Create
<1>4. CASE rbufReset
  BY <1>1, <1>2, <1>4 DEF rbufReset, Fifo!Next, Fifo!Clear
<1>5. CASE rbufCleanup
  BY <1>1, <1>2, <1>5 DEF rbufCleanup, Fifo!Next, Fifo!Destroy
<1> QED
  BY <1>3, <1>4, <1>5

\* What both ends of a step hold.
LEMMA StepReads ==
    ASSUME TypeOK, TypeOK'
    PROVE  /\ Shape(data, start, size, cap)
           /\ Reads(Contents, data, start, size, cap)
           /\ Reads(Contents', data', start', size', cap')
<1>1. Shape(data, start, size, cap) /\ Reads(Contents, data, start, size, cap)
  BY ContentsIs, WindowIsSeq
<1>2. Reads(Contents', data', start', size', cap')
  BY ContentsIsAfter, WindowIsSeq
<1> QED
  BY <1>1, <1>2

\* rbufPushBack is Push: behind the last item, and over the oldest one in a
\* full buffer.
LEMMA PushStep ==
    ASSUME TypeOK, TypeOK', Aligned, Aligned', NEW v \in Vals, rbufPushBack(v)
    PROVE  Fifo!Push(v)
<1>1. /\ cap \in Nat \ {0} /\ cap' = cap
      /\ start \in 0 .. cap - 1 /\ end \in 0 .. cap - 1 /\ size \in 0 .. cap
  BY BufferType DEF rbufPushBack
<1>2. /\ end' = PushEnd /\ start' = PushStart /\ ret' = NULL
      /\ data' = [data EXCEPT ![PushEnd] = v]
      /\ size' = IF size = cap THEN size ELSE size + 1
  BY DEF rbufPushBack
<1>3. /\ Shape(data, start, size, cap)
      /\ Reads(Contents, data, start, size, cap)
      /\ Reads(Contents', data', start', size', cap)
  BY <1>1, StepReads
<1>4. v \in Stored /\ Len(Contents) = size
  BY <1>3 DEF Stored, Reads
<1>5. CASE size = cap
  <2>1. \/ start <= end /\ size = end - start + 1
        \/ start > end /\ size = end - start + 1 + cap
    BY <1>1, <1>5, AlignedShape
  <2>2. PushEnd = start
    BY <1>1, <1>5, <2>1, AdvanceWraps DEF PushEnd
  <2>3. PushStart = Turn(start + 1, cap)
    BY <1>1, <1>5, AdvanceWraps DEF PushStart, Turn
  <2>4. Reads(Contents', [data EXCEPT ![start] = v], Turn(start + 1, cap), cap, cap)
    BY <1>2, <1>3, <1>5, <2>2, <2>3
  <2>5. Contents' = Append(Tail(Contents), v)
    BY <1>1, <1>3, <1>4, <1>5, <2>4, ReadsOverwrite
  <2> QED
    BY <1>1, <1>2, <1>4, <1>5, <2>5 DEF Fifo!Push
<1>6. CASE size # cap
  <2>1. start' = start /\ size' = size + 1
    BY <1>2, <1>6 DEF PushStart
  <2>2. \/ start' <= end' /\ size' = end' - start' + 1
        \/ start' > end' /\ size' = end' - start' + 1 + cap
    <3>1. size' > 0 /\ end' \in 0 .. cap - 1
      BY <1>1, <2>1 DEF TypeOK, Slots
    <3>2. start' = IF end' + 1 < size' THEN end' + 1 - size' + cap ELSE end' + 1 - size'
      BY <1>1, <3>1, OldestSlotAfter DEF Aligned
    <3>3. size' \in 1 .. cap
      BY <1>1, <1>6, <2>1
    <3>4. ASSUME NEW b, NEW e \in 0 .. cap - 1, NEW n \in 1 .. cap,
                 b = IF e + 1 < n THEN e + 1 - n + cap ELSE e + 1 - n
          PROVE  \/ b <= e /\ n = e - b + 1
                 \/ b > e /\ n = e - b + 1 + cap
      BY <1>1, <3>4, RoundShape
    <3> QED
      BY <3>1, <3>2, <3>3, <3>4
  <2>3. PushEnd = Turn(start + size, cap)
    <3>1. end' \in 0 .. cap - 1
      BY <1>1 DEF TypeOK, Slots
    <3> QED
      BY <1>1, <1>2, <1>6, <2>1, <2>2, <3>1 DEF Turn
  <2>4. Reads(Contents', [data EXCEPT ![Turn(start + size, cap)] = v], start, size + 1, cap)
    BY <1>2, <1>3, <2>1, <2>3
  <2>5. size < cap
    BY <1>1, <1>6
  <2>6. Contents' = Append(Contents, v)
    BY <1>3, <1>4, <2>4, <2>5, ReadsAppend
  <2> QED
    BY <1>1, <1>2, <1>4, <1>6, <2>6 DEF Fifo!Push
<1> QED
  BY <1>5, <1>6

\* rbufPopFront is Pop, or finds nothing to pop.
LEMMA PopStep ==
    ASSUME TypeOK, TypeOK', rbufPopFront
    PROVE  Fifo!Next
<1>1. CASE size = 0
  <2>1. UNCHANGED <<cap, data, start, size>> /\ ret' = NULL
    BY <1>1 DEF rbufPopFront, indices
  <2> QED
    BY <2>1, LookStep
<1>2. CASE size # 0
  <2>1. /\ cap \in Nat \ {0} /\ cap' = cap /\ data' = data
        /\ start \in 0 .. cap - 1 /\ size \in 1 .. cap
        /\ ret' = data[start] /\ start' = Advance(start) /\ size' = size - 1
    BY <1>2, BufferType DEF rbufPopFront, FrontOf
  <2>2. start' = Turn(start + 1, cap)
    BY <2>1, AdvanceWraps DEF Turn
  <2>3. /\ Shape(data, start, size, cap)
        /\ Reads(Contents, data, start, size, cap)
        /\ Reads(Contents', data, start', size', cap)
    BY <2>1, StepReads
  <2>4. Rest(start', size', start, size, cap)
    BY <2>1, <2>2 DEF Rest
  <2>5. Contents # <<>> /\ Head(Contents) = data[start] /\ Contents' = Tail(Contents)
    BY <2>3, <2>4, ReadsTail
  <2> QED
    BY <2>1, <2>5 DEF Fifo!Next, Fifo!Pop
<1> QED
  BY <1>1, <1>2

\* rbufSetValue replaces the item its handle names, or, through a stale handle,
\* nothing.
LEMMA SetStep ==
    ASSUME TypeOK, TypeOK', NEW v \in Stored, rbufSetValue(v)
    PROVE  Fifo!Next
<1>1. /\ data' = [data EXCEPT ![it] = v] /\ ret' = NULL
      /\ UNCHANGED <<cap, start, size>>
  BY DEF rbufSetValue, Quiet, indices
<1>2. /\ Shape(data, start, size, cap)
      /\ Reads(Contents, data, start, size, cap)
      /\ Reads(Contents', [data EXCEPT ![it] = v], start, size, cap)
  BY <1>1, StepReads
<1>3. CASE \E k \in 1 .. size : it = Turn(start + k - 1, cap)
  <2>1. PICK k \in 1 .. size : it = Turn(start + k - 1, cap)
    BY <1>3
  <2>2. Contents' = [Contents EXCEPT ![k] = v]
    BY <1>2, <2>1, ReadsReplace
  <2>3. k \in DOMAIN Contents
    BY <2>1 DEF Contents
  <2>4. Fifo!Replace(k, v)
    BY <1>1, <2>2 DEF Fifo!Replace
  <2> QED
    BY <2>3, <2>4 DEF Fifo!Next, Stored
<1>4. CASE \A k \in 1 .. size : it # Turn(start + k - 1, cap)
  <2>1. Contents' = Contents
    BY <1>2, <1>4, ReadsSame
  <2> QED
    BY <1>1, <2>1 DEF Fifo!Next, Fifo!Look
<1> QED
  BY <1>3, <1>4

\* Every step between two aligned states is a step of the queue.
LEMMA AlignedStep ==
    ASSUME TypeOK, TypeOK', Aligned, Aligned', [Next]_vars
    PROVE  Fifo!Next \/ UNCHANGED Fifo!fifoVars
<1>1. CASE (\E c \in Caps : rbufInit(c)) \/ rbufReset \/ rbufCleanup
  BY <1>1, EmptyingStep
<1>2. ASSUME NEW v \in Vals, rbufPushBack(v) PROVE Fifo!Next
  BY <1>2, PushStep DEF Fifo!Next
<1>3. CASE rbufPopFront
  BY <1>3, PopStep
<1>4. ASSUME NEW v \in Stored, rbufSetValue(v) PROVE Fifo!Next
  BY <1>4, SetStep
<1>5. CASE \/ rbufFront \/ rbufBack \/ rbufNext \/ rbufPrev
           \/ \E f \in BOOLEAN : rbufSetCleanupFunc(f)
  <2>1. UNCHANGED <<cap, data, start, size>> /\ ret' = NULL
    BY <1>5 DEF rbufFront, rbufBack, rbufNext, rbufPrev, TakeItem,
                rbufSetCleanupFunc, Quiet, indices
  <2> QED
    BY <2>1, LookStep
<1>6. CASE UNCHANGED vars
  BY <1>6 DEF vars, Fifo!fifoVars, Contents
<1> QED
  BY <1>1, <1>2, <1>3, <1>4, <1>5, <1>6 DEF Next

\* Whatever the client does, the steps that begin and end in an aligned buffer
\* are those of the bounded queue.
THEOREM FifoStepsTheorem == Spec => AlignedStepsAreFifo
<1>1. TypeOK /\ TypeOK' /\ [Next]_vars
        => [Aligned /\ Aligned' => Fifo!Next \/ UNCHANGED Fifo!fifoVars]_vars
  BY AlignedStep
<1> QED
  BY <1>1, TypeCorrect, PTL DEF Spec, AlignedStepsAreFifo

-----------------------------------------------------------------------------
\* The buffer of a disciplined client never drifts.
THEOREM DisciplineTheorem == DisciplinedSpec => [](TypeOK /\ Aligned)
<1>1. DisciplinedSpec => Spec
  <2>1. [DisciplinedNext]_vars => [Next]_vars
    BY DEF DisciplinedNext
  <2> QED
    BY <2>1, PTL DEF DisciplinedSpec, Spec
<1>2. Init => Aligned
  BY DEF Init, Aligned
<1>3. TypeOK /\ TypeOK' /\ Aligned /\ [DisciplinedNext]_vars => Aligned'
  <2> SUFFICES ASSUME TypeOK, TypeOK', Aligned, [DisciplinedNext]_vars, ~Aligned'
               PROVE  FALSE
    OBVIOUS
  <2>1. [Next]_vars
    BY DEF DisciplinedNext
  <2>2. Drained /\ size' = 1
    BY <2>1, DriftStep
  <2>3. UNCHANGED vars \/ size' = 0
    BY <2>2 DEF DisciplinedNext
  <2> QED
    BY <2>2, <2>3 DEF vars, Drained
<1> QED
  BY <1>1, <1>2, <1>3, TypeCorrect, PTL DEF DisciplinedSpec

\* The buffer of a disciplined client implements the queue rbuf.h promises.
THEOREM FifoTheorem == DisciplinedSpec => ImplementsFifo
<1>1. Init => Fifo!Init
  BY DEF Init, Contents, Fifo!Init
<1>2. /\ TypeOK /\ Aligned /\ (TypeOK /\ Aligned)'
      /\ [DisciplinedNext]_vars
      => [Fifo!Next]_(Fifo!fifoVars)
  <2> SUFFICES ASSUME TypeOK, TypeOK', Aligned, Aligned', [DisciplinedNext]_vars
               PROVE  [Fifo!Next]_(Fifo!fifoVars)
    OBVIOUS
  <2>1. [Next]_vars
    BY DEF DisciplinedNext
  <2> QED
    BY <2>1, AlignedStep
<1> QED
  BY <1>1, <1>2, DisciplineTheorem, PTL DEF DisciplinedSpec, ImplementsFifo, Fifo!Spec

-----------------------------------------------------------------------------
(***************************************************************************)
(* A ring buffer of heap values: a client that clears an item before it    *)
(* pops it never sees a value freed twice.                                 *)
(***************************************************************************)
Owners == {"client", "buffer", "freed", "lost"}

\* A value lies in a slot exactly while the buffer owns it ...
HeldByBuffer == \A v \in Vals : owner[v] = "buffer" <=> \E s \in Slots : data[s] = v

\* ... and no value lies in two slots.
HeldOnce == \A s, t \in Slots : data[s] = data[t] /\ data[s] # NULL => s = t

\* The inductive invariant.
OwnerInv ==
    /\ TypeOK
    /\ owner \in [Vals -> Owners]
    /\ HeldByBuffer
    /\ HeldOnce

\* What a push does to the slots and to the value it overwrites.
LEMMA OPushKeeps ==
    ASSUME OwnerInv, NEW v \in Vals, OPush(v)
    PROVE  OwnerInv'
<1>1. TypeOK /\ owner[v] = "client" /\ rbufPushBack(v)
  BY DEF OPush, OwnerInv
<1>2. TypeOK'
  <2>1. Next
    BY <1>1 DEF Next
  <2> QED
    BY <1>1, <2>1, TypeStep
<1>3. /\ cap' = cap /\ Slots' = Slots /\ PushEnd \in Slots
      /\ data' = [data EXCEPT ![PushEnd] = v]
      /\ cleaned' = IF clean THEN {data[PushEnd]} ELSE {}
      /\ data \in [Slots -> Stored] /\ DOMAIN data' = Slots
  BY <1>1, PushSlots DEF rbufPushBack, PushCleans, TypeOK, Slots
<1>4. \A s \in Slots : data[s] # v
  BY <1>1 DEF OwnerInv, HeldByBuffer
<1>5. \A s \in Slots : data'[s] = IF s = PushEnd THEN v ELSE data[s]
  BY <1>3
<1>6. HeldOnce'
  BY <1>3, <1>4, <1>5 DEF OwnerInv, HeldOnce
<1>7. ASSUME NEW w \in Vals
      PROVE  owner'[w] \in Owners /\ (owner'[w] = "buffer" <=> \E s \in Slots : data'[s] = w)
  <2>1. owner'[w] = CASE w \in cleaned' ->
                           IF owner[w] = "buffer" THEN "freed"
                           ELSE "freed while not the buffer's"
                      [] w \notin cleaned' /\ w = v -> "buffer"
                      [] w \notin cleaned' /\ w # v /\ Forgotten(w) -> "lost"
                      [] OTHER -> owner[w]
    BY DEF OPush
  <2>2. owner[w] \in Owners /\ (owner[w] = "buffer" <=> \E s \in Slots : data[s] = w)
    BY DEF OwnerInv, HeldByBuffer
  <2>3. CASE w \in cleaned'
    <3>1. w = data[PushEnd] /\ w # v /\ owner[w] = "buffer"
      BY <1>3, <1>4, <2>2, <2>3
    <3>2. \A s \in Slots : data'[s] # w
      BY <1>3, <1>5, <3>1, NullAssumption DEF OwnerInv, HeldOnce
    <3>3. owner'[w] = "freed"
      BY <2>1, <2>3, <3>1
    <3> QED
      BY <3>2, <3>3 DEF Owners
  <2>4. CASE w \notin cleaned' /\ w = v
    <3>1. owner'[w] = "buffer"
      BY <2>1, <2>4
    <3> QED
      BY <1>3, <1>5, <2>4, <3>1 DEF Owners
  <2>5. CASE w \notin cleaned' /\ w # v /\ Forgotten(w)
    <3>1. owner'[w] = "lost"
      BY <2>1, <2>5
    <3> QED
      BY <1>3, <2>5, <3>1 DEF Owners, Forgotten
  <2>6. CASE w \notin cleaned' /\ w # v /\ ~Forgotten(w)
    <3>1. owner'[w] = owner[w]
      BY <2>1, <2>6
    <3>2. owner[w] = "buffer" => \E s \in Slots : data'[s] = w
      BY <1>3, <2>6 DEF Forgotten
    <3>3. (\E s \in Slots : data'[s] = w) => \E s \in Slots : data[s] = w
      BY <1>5, <2>6
    <3> QED
      BY <2>2, <3>1, <3>2, <3>3
  <2> QED
    BY <2>3, <2>4, <2>5, <2>6
<1>8. owner' \in [Vals -> Owners]
  <2>1. DOMAIN owner' = Vals /\ owner' = [w \in Vals |-> owner'[w]]
    BY DEF OPush
  <2> QED
    BY <1>7, <2>1
<1> QED
  BY <1>2, <1>3, <1>6, <1>7, <1>8 DEF OwnerInv, HeldByBuffer

\* Clearing the front item and popping it gives its value back, and no slot
\* keeps it.
LEMMA OTakeKeeps ==
    ASSUME OwnerInv, OTake
    PROVE  OwnerInv'
<1>1. /\ TypeOK /\ cap \in Nat \ {0} /\ size \in 1 .. cap /\ start \in 0 .. cap - 1
      /\ FrontOf = start /\ start \in Slots
  BY BufferType DEF OwnerInv, OTake, FrontOf, Slots
<1>2. /\ cap' = cap /\ Slots' = Slots
      /\ data' = [data EXCEPT ![start] = NULL]
      /\ owner' = [w \in Vals |-> IF w = data[start] THEN "client" ELSE owner[w]]
      /\ data \in [Slots -> Stored]
  BY <1>1 DEF OTake, Slots, TypeOK
<1>3. TypeOK'
  <2>1. Advance(start) \in 0 .. cap - 1
    BY <1>1, AdvanceWraps
  <2>2. data' \in [Slots -> Stored] /\ data[start] \in Stored
    BY <1>1, <1>2 DEF Stored
  <2> QED
    BY <1>1, <1>2, <2>1, <2>2 DEF OTake, TypeOK, Slots
<1>4. \A s \in Slots : data'[s] = IF s = start THEN NULL ELSE data[s]
  BY <1>1, <1>2
<1>5. HeldOnce'
  BY <1>2, <1>4 DEF OwnerInv, HeldOnce
<1>6. owner' \in [Vals -> Owners]
  BY <1>2 DEF OwnerInv, Owners
<1>7. ASSUME NEW w \in Vals
      PROVE  owner'[w] = "buffer" <=> \E s \in Slots : data'[s] = w
  <2>1. w # NULL /\ (owner[w] = "buffer" <=> \E s \in Slots : data[s] = w)
    BY NullAssumption DEF OwnerInv, HeldByBuffer
  <2>2. CASE w = data[start]
    BY <1>1, <1>2, <1>4, <2>1, <2>2 DEF OwnerInv, HeldOnce
  <2>3. CASE w # data[start]
    BY <1>2, <1>4, <2>1, <2>3
  <2> QED
    BY <2>2, <2>3
<1> QED
  BY <1>2, <1>3, <1>5, <1>6, <1>7 DEF OwnerInv, HeldByBuffer

\* rbufCleanup leaves no slot, and what the buffer still owned is lost.
LEMMA OCleanupKeeps ==
    ASSUME OwnerInv, OCleanup
    PROVE  OwnerInv'
<1>1. TypeOK'
  <2>1. TypeOK /\ Next
    BY DEF OwnerInv, OCleanup, Next
  <2> QED
    BY <2>1, TypeStep
<1>2. Slots' = {} /\ DOMAIN data' = {}
  BY DEF OCleanup, rbufCleanup, Slots
<1>3. owner' = [w \in Vals |-> IF owner[w] = "buffer" THEN "lost" ELSE owner[w]]
  BY <1>2 DEF OCleanup, Forgotten
<1>4. owner' \in [Vals -> Owners] /\ \A w \in Vals : owner'[w] # "buffer"
  BY <1>3 DEF OwnerInv, Owners
<1> QED
  BY <1>1, <1>2, <1>4 DEF OwnerInv, HeldByBuffer, HeldOnce

\* A new buffer holds no value, and the buffer before it had no slot; the other
\* calls leave the slots as they are.
LEMMA OOtherKeeps ==
    ASSUME OwnerInv, OOther
    PROVE  OwnerInv'
<1>1. TypeOK'
  <2>1. TypeOK /\ Next
    BY DEF OwnerInv, OOther, Next
  <2> QED
    BY <2>1, TypeStep
<1>2. owner' = owner
  BY DEF OOther
<1>3. CASE \E c \in Caps : rbufInit(c)
  <2>1. Slots = {}
    BY <1>3 DEF rbufInit, Slots
  <2>2. \A s \in Slots' : data'[s] = NULL
    BY <1>3 DEF rbufInit, Slots
  <2>3. \A v \in Vals : owner[v] # "buffer" /\ v # NULL
    BY <2>1, NullAssumption DEF OwnerInv, HeldByBuffer
  <2> QED
    BY <1>1, <1>2, <2>2, <2>3 DEF OwnerInv, HeldByBuffer, HeldOnce
<1>4. CASE rbufReset \/ \E f \in BOOLEAN : rbufSetCleanupFunc(f)
  <2>1. UNCHANGED <<cap, data>>
    BY <1>4 DEF rbufReset, rbufSetCleanupFunc
  <2> QED
    BY <1>1, <1>2, <2>1 DEF OwnerInv, HeldByBuffer, HeldOnce, Slots
<1> QED
  BY <1>3, <1>4 DEF OOther

\* Every step of a client that takes keeps the invariant.
LEMMA OwnerStep ==
    ASSUME OwnerInv, [TakingNext]_ownerVars
    PROVE  OwnerInv'
<1>1. ASSUME NEW v \in Vals, OPush(v) PROVE OwnerInv'
  BY <1>1, OPushKeeps
<1>2. ASSUME NEW v \in Vals, OAlloc(v) PROVE OwnerInv'
  <2>1. /\ owner' = [owner EXCEPT ![v] = "client"] /\ owner[v] = "freed"
        /\ UNCHANGED vars
    BY <1>2 DEF OAlloc
  <2>2. TypeOK'
    BY <2>1, TypeStep DEF OwnerInv
  <2> QED
    BY <2>1, <2>2 DEF OwnerInv, HeldByBuffer, HeldOnce, Owners, Slots, vars
<1>3. CASE OTake
  BY <1>3, OTakeKeeps
<1>4. CASE OCleanup
  BY <1>4, OCleanupKeeps
<1>5. CASE OOther
  BY <1>5, OOtherKeeps
<1>6. CASE UNCHANGED ownerVars
  <2>1. UNCHANGED vars /\ owner' = owner
    BY <1>6 DEF ownerVars
  <2>2. TypeOK'
    BY <2>1, TypeStep DEF OwnerInv
  <2> QED
    BY <2>1, <2>2 DEF OwnerInv, HeldByBuffer, HeldOnce, Slots, vars
<1> QED
  BY <1>1, <1>2, <1>3, <1>4, <1>5, <1>6 DEF TakingNext

\* So it holds throughout.
LEMMA OwnerCorrect == TakingSpec => []OwnerInv
<1>1. OInit => OwnerInv
  <2> SUFFICES ASSUME OInit PROVE OwnerInv
    OBVIOUS
  <2>1. TypeOK
    BY TypeInit DEF OInit
  <2>2. Slots = {}
    BY DEF OInit, Init, Slots
  <2>3. owner \in [Vals -> Owners] /\ \A v \in Vals : owner[v] = "client"
    BY DEF OInit, Owners
  <2> QED
    BY <2>1, <2>2, <2>3 DEF OwnerInv, HeldByBuffer, HeldOnce
<1>2. OwnerInv /\ [TakingNext]_ownerVars => OwnerInv'
  BY OwnerStep
<1> QED
  BY <1>1, <1>2, PTL DEF TakingSpec

\* Every value of a client that clears before it pops lies in one slot while
\* the buffer owns it, and in none before and afterwards.
THEOREM SlotsTheorem == TakingSpec => []SlotsOwnWhatTheyHold
<1>1. OwnerInv => SlotsOwnWhatTheyHold
  <2> SUFFICES ASSUME OwnerInv, NEW v \in Vals
               PROVE  Cardinality({ s \in Slots : data[s] = v })
                        = IF owner[v] = "buffer" THEN 1 ELSE 0
    BY DEF SlotsOwnWhatTheyHold
  <2>1. v # NULL /\ (owner[v] = "buffer" <=> \E s \in Slots : data[s] = v)
    BY NullAssumption DEF OwnerInv, HeldByBuffer
  <2>2. CASE owner[v] = "buffer"
    <3>1. PICK s \in Slots : data[s] = v
      BY <2>1, <2>2
    <3>2. { t \in Slots : data[t] = v } = {s}
      BY <2>1, <3>1 DEF OwnerInv, HeldOnce
    <3> QED
      BY <2>2, <3>2, FS_Singleton
  <2>3. CASE owner[v] # "buffer"
    <3>1. { t \in Slots : data[t] = v } = {}
      BY <2>1, <2>3
    <3> QED
      BY <2>3, <3>1, FS_EmptySet
  <2> QED
    BY <2>2, <2>3
<1> QED
  BY <1>1, OwnerCorrect, PTL

\* The cleanup function is never given a value that is not the buffer's.
THEOREM FreesTheorem == TakingSpec => []FreesOnlyItsOwn
<1>1. OwnerInv => FreesOnlyItsOwn
  BY DEF OwnerInv, FreesOnlyItsOwn, Owners
<1> QED
  BY <1>1, OwnerCorrect, PTL
=============================================================================
