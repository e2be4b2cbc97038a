-------------------------------- MODULE RBuf --------------------------------
(***************************************************************************)
(* The ring buffer of src/rbuf.c, one action per function of rbuf.h.  One  *)
(* buffer is followed through its life: rbufInit, any sequence of calls,   *)
(* rbufCleanup, rbufInit again.  The client keeps one item handle, `it`,   *)
(* as long as it likes, so the handle may outlive the item it named.       *)
(***************************************************************************)
EXTENDS Integers

CONSTANTS Vals,   \* the pointers a client stores
          NULL,   \* the null pointer
          Caps    \* the capacities a client asks rbufInit for

ASSUME NullAssumption == NULL \notin Vals
ASSUME CapsAssumption == Caps \subseteq Nat \ {0}

VARIABLES
    cap,      \* rbuf->cap; 0 stands for the null handle (no buffer)
    data,     \* rbuf->data, a function over the slots 0 .. cap-1
    start,    \* rbuf->start
    end,      \* rbuf->end
    size,     \* rbuf->size
    clean,    \* rbuf->clean # 0
    it,       \* an RBITEM held by the client: a slot, or NoItem
    ret,      \* the value returned by rbufPopFront, NULL after another call
    cleaned   \* the values the last call handed to rbuf->clean

vars == <<cap, data, start, end, size, clean, it, ret, cleaned>>
indices == <<start, end, size>>

NoItem == -1
Slots == 0 .. cap - 1
Stored == Vals \union {NULL}

(***************************************************************************)
(* The read-only functions, as operators.                                  *)
(***************************************************************************)
\* Faulty variants, named <definition>_<fault>, stand before the definitions
\* they vary: each is a slip the properties must notice.
Advance_NoWrap(i) == i + 1
Advance(i) == (i + 1) % cap

BackOf == IF size = 0 THEN NoItem ELSE end

FrontOf_PastFirst == IF size = 0 THEN NoItem ELSE Advance(start)
FrontOf == IF size = 0 THEN NoItem ELSE start

IndexInside_BeforeEnd(i) ==
    /\ size # 0
    /\ IF start < end THEN i >= start /\ i < end ELSE i >= start \/ i < end
IndexInside_NotEmpty(i) == size # 0
IndexInside(i) ==
    /\ size # 0
    /\ IF start < end THEN i >= start /\ i <= end ELSE i >= start \/ i <= end

\* The C remainder of a negative number is negative; adding d and reducing
\* again gives the remainder TLA+'s % gives directly.
modulo(x, d) == x % d

NextOf(i) ==
    IF i = NoItem \/ ~IndexInside(i) \/ i = end THEN NoItem ELSE Advance(i)

PrevOf(i) ==
    IF i = NoItem \/ ~IndexInside(i) \/ i = start THEN NoItem
    ELSE modulo(i - 1, cap)

(***************************************************************************)
(* The actions.  Every function returns early on a null handle; such a     *)
(* call changes nothing and is a stuttering step.                          *)
(***************************************************************************)
Init ==
    /\ cap = 0
    /\ data = [s \in Slots |-> NULL]
    /\ start = 0 /\ end = 0 /\ size = 0
    /\ clean = FALSE
    /\ it = NoItem
    /\ ret = NULL
    /\ cleaned = {}

\* What a call leaves behind that returns no value and cleans nothing.
Quiet == ret' = NULL /\ cleaned' = {}

\* A failing malloc or calloc leaves no buffer, like before the call.
rbufInit(c) ==
    /\ cap = 0
    /\ cap' = c
    /\ data' = [s \in 0 .. c - 1 |-> NULL]
    /\ start' = 0 /\ end' = 0 /\ size' = 0
    /\ clean' = FALSE
    /\ Quiet
    /\ UNCHANGED it

rbufReset ==
    /\ cap # 0
    /\ start' = 0 /\ end' = 0 /\ size' = 0
    /\ Quiet
    /\ UNCHANGED <<cap, data, clean, it>>

\* The client's handle dangles after the free; using it is outside the
\* contract, so the model forgets it.
rbufCleanup ==
    /\ cap # 0
    /\ cap' = 0
    /\ data' = [s \in {} |-> NULL]
    /\ start' = 0 /\ end' = 0 /\ size' = 0
    /\ clean' = FALSE
    /\ it' = NoItem
    /\ Quiet

\* Where a push stores: one past the end, or the end when the buffer is empty.
PushEnd_Same == end
PushEnd == IF size # 0 THEN Advance(end) ELSE end

\* A push into a full buffer drops the first item.
PushStart_Same == start
PushStart == IF size = cap THEN Advance(start) ELSE start

\* What a push of v hands to the cleanup function: whatever the slot held.
PushCleans_New(v) == IF clean THEN {v} ELSE {}
PushCleans_First(v) == IF clean THEN {data[start]} ELSE {}
PushCleans(v) == IF clean THEN {data[PushEnd]} ELSE {}

rbufPushBack(v) ==
    /\ cap # 0
    /\ end' = PushEnd
    /\ start' = PushStart
    /\ size' = IF size = cap THEN size ELSE size + 1
    /\ cleaned' = PushCleans(v)
    /\ data' = [data EXCEPT ![PushEnd] = v]
    /\ it' \in {it, PushEnd}
    /\ ret' = NULL
    /\ UNCHANGED <<cap, clean>>

rbufPopFront ==
    /\ cap # 0
    /\ IF size = 0
       THEN ret' = NULL /\ UNCHANGED indices
       ELSE /\ ret' = data[FrontOf]
            /\ start' = Advance(start)
            /\ size' = size - 1
            /\ UNCHANGED end
    /\ cleaned' = {}
    /\ UNCHANGED <<cap, data, clean, it>>

rbufSetValue(v) ==
    /\ it # NoItem
    /\ data' = [data EXCEPT ![it] = v]
    /\ Quiet
    /\ UNCHANGED <<cap, indices, clean, it>>

\* rbufFront, rbufBack, rbufNext and rbufPrev hand the client an item.
TakeItem(i) ==
    /\ cap # 0
    /\ it' = i
    /\ Quiet
    /\ UNCHANGED <<cap, data, indices, clean>>

rbufFront == TakeItem(FrontOf)
rbufBack == TakeItem(BackOf)
rbufNext == TakeItem(NextOf(it))
rbufPrev == TakeItem(PrevOf(it))

rbufSetCleanupFunc(f) ==
    /\ cap # 0
    /\ clean' = f
    /\ Quiet
    /\ UNCHANGED <<cap, data, indices, it>>

Next ==
    \/ \E c \in Caps : rbufInit(c)
    \/ rbufReset
    \/ rbufCleanup
    \/ \E v \in Vals : rbufPushBack(v)
    \/ rbufPopFront
    \/ \E v \in Stored : rbufSetValue(v)
    \/ rbufFront
    \/ rbufBack
    \/ rbufNext
    \/ rbufPrev
    \/ \E f \in BOOLEAN : rbufSetCleanupFunc(f)

\* Any client.
Spec == Init /\ [][Next]_vars

\* Popping the last item leaves `start` one past `end`.
Drained == cap # 0 /\ size = 0 /\ start # end

\* A client that calls rbufReset before it pushes into a drained buffer.
DisciplinedNext == Next /\ (Drained => size' = 0)
DisciplinedSpec == Init /\ [][DisciplinedNext]_vars

-----------------------------------------------------------------------------
(***************************************************************************)
(* Properties                                                              *)
(***************************************************************************)

\* The indices stay inside the allocated array, the size inside the capacity,
\* and a handle inside the array.
TypeOK ==
    /\ cap \in Caps \union {0}
    /\ data \in [Slots -> Stored]
    /\ size \in 0 .. cap
    /\ IF cap = 0 THEN start = 0 /\ end = 0 ELSE start \in Slots /\ end \in Slots
    /\ clean \in BOOLEAN
    /\ it \in Slots \union {NoItem}
    /\ ret \in Stored
    /\ cleaned \subseteq Stored

\* Where the newest `size` pushes really are: the slots that end at `end`.
Kept == { modulo(end - k, cap) : k \in 0 .. size - 1 }

Oldest == modulo(end - size + 1, cap)

\* `start` agrees with `end` and `size`.
Aligned == size > 0 => start = Oldest

\* The only call that lets `start` drift away from the oldest item is a push
\* into a drained buffer (PushBack does not advance `end` when size is 0, but
\* PopFront had moved `start`); no sequence of other calls can.
DriftOnlyByDrainedPush == [][Aligned /\ ~Aligned' => Drained /\ size' = 1]_vars

\* Whatever the client does, drifted or not, a push overwrites an item that is
\* still in the buffer only when the buffer is full, and then the oldest one;
\* a pop overwrites nothing.
SparesYounger ==
    \A s \in Kept : /\ cap' = cap
                   /\ data'[s] # data[s]
                   /\ it # s
                   => size = cap /\ s = Oldest
PushKeepsYounger == [][SparesYounger]_vars

\* In an aligned buffer rbufNext from rbufFront and rbufPrev from rbufBack go
\* over every item once, in order, and then give zero.
WalkInOrder ==
    size > 0 /\ Aligned =>
        LET Item(k) == modulo(start + k, cap)
        IN  /\ FrontOf = Item(0)
            /\ BackOf = Item(size - 1)
            /\ \A k \in 0 .. size - 2 : /\ NextOf(Item(k)) = Item(k + 1)
                                        /\ PrevOf(Item(k + 1)) = Item(k)
            /\ NextOf(BackOf) = NoItem
            /\ PrevOf(FrontOf) = NoItem

\* In an aligned buffer rbufIndexInside tells a stale handle from a live one
\* unless exactly one item is left (start = end then, and every index passes):
\* rbufNext and rbufPrev lead from an item to an item or to zero, and from a
\* handle that names no item any more to zero.
StaleHandleDetected ==
    size # 1 /\ Aligned =>
        {NextOf(it), PrevOf(it)} \subseteq
            IF it \in Kept THEN Kept \union {NoItem} ELSE {NoItem}

\* test/rbuf-udict-test.c asserts rbufFront = rbufBack when one item is left.
SingleFrontIsBack == size = 1 => FrontOf = BackOf

-----------------------------------------------------------------------------
(***************************************************************************)
(* While it is aligned, the ring buffer is a bounded first-in first-out    *)
(* queue.                                                                  *)
(***************************************************************************)
Contents == [k \in 1 .. size |-> data[modulo(start + k - 1, cap)]]

Fifo == INSTANCE BoundedFifo WITH q <- Contents, cap <- cap, ret <- ret

\* Every step that begins and ends aligned is a step of the bounded queue: pops
\* return the items in the order of the pushes, a push into a full buffer drops
\* exactly the oldest, and nothing else touches the contents.
AlignedStepsAreFifo ==
    [][Aligned /\ Aligned' => Fifo!Next \/ UNCHANGED Fifo!fifoVars]_vars

\* So a disciplined client's buffer implements the queue.
ImplementsFifo == Fifo!Spec
=============================================================================
