------------------------------ MODULE RBufOwner ------------------------------
(***************************************************************************)
(* A ring buffer of heap values whose cleanup function frees them: who     *)
(* owns each value.  The buffer owns what was pushed until it hands the    *)
(* value to the cleanup function or back to the client.                    *)
(***************************************************************************)
EXTENDS RBuf, FiniteSets

VARIABLE owner

ownerVars == <<vars, owner>>

OInit == Init /\ owner = [v \in Vals |-> "client"]

\* Values the buffer owned that no slot holds any more and nobody freed.
Forgotten(v) == owner[v] = "buffer" /\ \A s \in DOMAIN data' : data'[s] # v

\* A push hands v to the buffer; the cleanup function frees what it is given.
OPush(v) ==
    /\ owner[v] = "client"
    /\ rbufPushBack(v)
    /\ owner' = [w \in Vals |->
                   CASE w \in cleaned' ->
                          IF owner[w] = "buffer" THEN "freed"
                          ELSE "freed while not the buffer's"
                     [] w \notin cleaned' /\ w = v -> "buffer"
                     [] w \notin cleaned' /\ w # v /\ Forgotten(w) -> "lost"
                     [] OTHER -> owner[w]]

\* Reading the front value, storing zero in its item and popping it: the value
\* comes back to the client and its slot forgets it.
OTake ==
    /\ cap # 0 /\ size # 0
    /\ owner' = [w \in Vals |-> IF w = data[FrontOf] THEN "client" ELSE owner[w]]
    /\ data' = [data EXCEPT ![FrontOf] = NULL]
    /\ ret' = data[FrontOf] /\ cleaned' = {}
    /\ start' = Advance(start) /\ size' = size - 1
    /\ UNCHANGED <<cap, end, clean, it>>

\* rbufPopFront alone: the slot keeps the pointer the client gets.
OPop ==
    /\ rbufPopFront
    /\ owner' = [w \in Vals |-> IF w = ret' THEN "client" ELSE owner[w]]

\* rbufCleanup frees the array and none of the values.
OCleanup ==
    /\ rbufCleanup
    /\ owner' = [w \in Vals |-> IF Forgotten(w) THEN "lost" ELSE owner[w]]

\* The allocator hands out a freed address again.
OAlloc(v) ==
    /\ owner[v] = "freed"
    /\ owner' = [owner EXCEPT ![v] = "client"]
    /\ UNCHANGED vars

OOther ==
    /\ \/ \E c \in Caps : rbufInit(c)
       \/ rbufReset
       \/ \E f \in BOOLEAN : rbufSetCleanupFunc(f)
    /\ UNCHANGED owner

TakingNext ==
    \/ \E v \in Vals : OPush(v) \/ OAlloc(v)
    \/ OTake \/ OCleanup \/ OOther

\* A client that clears an item before it pops it.
TakingSpec == OInit /\ [][TakingNext]_ownerVars

\* A client that pops as rbuf.h describes.
PoppingSpec == OInit /\ [][TakingNext \/ OPop]_ownerVars

\* Slots and owners agree: a value lies in a slot exactly while the buffer owns
\* it, and then in one slot only (stale slots after rbufReset and drifted
\* buffers included).  So each pushed value is freed at most once.
SlotsOwnWhatTheyHold ==
    \A v \in Vals :
        Cardinality({ s \in Slots : data[s] = v }) = IF owner[v] = "buffer" THEN 1 ELSE 0

\* rbuf.h: "Cleanup function called when buffer start to overwrite old items".
\* A value the buffer does not own is never given to the cleanup function.
FreesOnlyItsOwn == \A v \in Vals : owner[v] # "freed while not the buffer's"
=============================================================================
