-------------------------- MODULE YangCrummeyQueue --------------------------
(***************************************************************************)
(* YangCrummeyQueue (bagpipe/src/queue.rs): an unbounded array of cells,   *)
(* kept as a list of segments, with one counter that hands out the cells   *)
(* to pushes and one that hands them out to pops.  Every access to a       *)
(* counter, a cell or a pointer is one step.  Segment k holds the cells    *)
(* k * SegSize .. (k + 1) * SegSize - 1 and its id is k.                   *)
(***************************************************************************)
EXTENDS Integers, FiniteSets

CONSTANTS
    Clients,   \* the threads
    Pushers,   \* those that push ...
    Poppers,   \* ... and pop
    Items,     \* non-zero words other than the sentinel
    SegSize,   \* SEG_SIZE
    MaxIndex   \* bound on the two counters

\* The segment that holds a cell.
SegOf(i) == i \div SegSize

Cells == 0 .. MaxIndex - 1
Segments == 0 .. SegOf(MaxIndex - 1)
Sides == {"push", "pop"}   \* the tail and the head
Zero == "zero"
SENTINEL == "sentinel"

\* What the constants are to be.
Sound ==
    /\ Pushers \cup Poppers \subseteq Clients
    /\ SegSize \in Nat \ {0}
    /\ MaxIndex \in Nat \ {0}
    /\ Items \cap {Zero, SENTINEL} = {}

ASSUME YangCrummeyAssumption == Sound

VARIABLES
    index,     \* tail_index and head_index
    seg,       \* tail_data and head_data
    linked,    \* the segments 0 .. linked - 1 exist, each points to the next
    ctr,       \* how many of the two pointers have left each segment
    cell,
    owned,     \* the items each client has outside the queue
    drained,   \* the cells a pop has swapped
    unlinked,  \* how often each segment was given to the epoch collector ...
    pinned,    \* ... and the clients whose guards still protect it
    dropped,   \* the queue is gone
    \* each client
    pc,        \* the next step of its operation
    side,      \* which operation
    it,        \* the item it pushes
    data,      \* the segment it loaded first
    cur,       \* the segment find_cell has reached
    ix         \* the index it got

queue == <<index, seg, linked, ctr, cell>>
reclaim == <<unlinked, pinned>>
vars == <<queue, owned, drained, reclaim, dropped, pc, side, it, data, cur, ix>>

Goto(c, l) == pc' = [pc EXCEPT ![c] = l]

\* An operation ends: the guard is dropped.
Return(c) ==
    /\ Goto(c, "idle")
    /\ pinned' = [k \in Segments |-> pinned[k] \ {c}]
    /\ it' = [it EXCEPT ![c] = Zero]
    /\ data' = [data EXCEPT ![c] = 0]
    /\ cur' = [cur EXCEPT ![c] = 0]
    /\ ix' = [ix EXCEPT ![c] = 0]

Unlink(k) ==
    /\ unlinked' = [unlinked EXCEPT ![k] = @ + 1]
    /\ pinned' = [pinned EXCEPT ![k] = {d \in Clients : pc[d] # "idle"}]
-----------------------------------------------------------------------------
Init ==
    /\ index = [s \in Sides |-> 0]
    /\ seg = [s \in Sides |-> 0]
    /\ linked = 1
    /\ ctr = [k \in Segments |-> 0]
    /\ cell = [i \in Cells |-> Zero]
    /\ owned \in [Clients -> SUBSET Items]
    /\ \A v \in Items : \E c \in Pushers : \A d \in Clients : v \in owned[d] <=> d = c
    /\ drained = {}
    /\ unlinked = [k \in Segments |-> 0]
    /\ pinned = [k \in Segments |-> {}]
    /\ dropped = FALSE
    /\ pc = [c \in Clients |-> "idle"]
    /\ side = [c \in Clients |-> "push"]
    /\ it = [c \in Clients |-> Zero]
    /\ data = [c \in Clients |-> 0]
    /\ cur = [c \in Clients |-> 0]
    /\ ix = [c \in Clients |-> 0]

(* try_push and try_pop: pin, and load the segment pointer of the side.    *)
Begin(c, s) ==
    /\ pc[c] = "idle"
    /\ ~dropped
    /\ side' = [side EXCEPT ![c] = s]
    /\ data' = [data EXCEPT ![c] = seg[s]]
    /\ Goto(c, "add")
    /\ UNCHANGED <<queue, owned, drained, reclaim, dropped, cur, ix>>

Push(c) ==
    /\ c \in Pushers
    /\ \E v \in owned[c] : it' = [it EXCEPT ![c] = v]
    /\ Begin(c, "push")

Pop(c) == c \in Poppers /\ Begin(c, "pop") /\ UNCHANGED it

(* Take an index.                                                          *)
Add(c) ==
    /\ pc[c] = "add"
    /\ index[side[c]] < MaxIndex
    /\ index' = [index EXCEPT ![side[c]] = @ + 1]
    /\ ix' = [ix EXCEPT ![c] = index[side[c]]]
    /\ cur' = [cur EXCEPT ![c] = data[c]]
    /\ Goto(c, "find")
    /\ UNCHANGED <<seg, linked, ctr, cell, owned, drained, reclaim, dropped, side, it, data>>

SegId(c) == SegOf(ix[c])

\* Mutant: the segment pointer is loaded after the index is taken.
FindCellLateLoad(c) ==
    /\ pc[c] = "find"
    /\ IF cur[c] = data[c] /\ data[c] # seg[side[c]]
       THEN /\ cur' = [cur EXCEPT ![c] = seg[side[c]]]
            /\ data' = [data EXCEPT ![c] = seg[side[c]]]
            /\ UNCHANGED pc
       ELSE IF cur[c] = SegId(c)
       THEN Goto(c, IF SegId(c) = data[c] + 1 THEN "clean" ELSE "swap") /\ UNCHANGED <<cur, data>>
       ELSE IF cur[c] + 1 < linked
       THEN cur' = [cur EXCEPT ![c] = @ + 1] /\ UNCHANGED <<pc, data>>
       ELSE Goto(c, "link") /\ UNCHANGED <<cur, data>>
    /\ UNCHANGED <<queue, owned, drained, reclaim, dropped, side, it, ix>>

(* find_cell: walk the list from the segment loaded, up to the one that    *)
(* holds the index.  It tells whether it had to walk.                      *)
FindCell(c) ==
    /\ pc[c] = "find"
    /\ IF cur[c] = SegId(c)
       THEN /\ Goto(c, IF cur[c] # data[c] /\ SegId(c) = data[c] + 1 THEN "clean" ELSE "swap")
            /\ UNCHANGED cur
       ELSE IF cur[c] + 1 < linked
       THEN cur' = [cur EXCEPT ![c] = @ + 1] /\ UNCHANGED pc
       ELSE Goto(c, "link") /\ UNCHANGED cur
    /\ UNCHANGED <<queue, owned, drained, reclaim, dropped, side, it, data, ix>>

(* There is no next segment: link a new one, unless another client has.    *)
Link(c) ==
    /\ pc[c] = "link"
    /\ IF cur[c] + 1 < linked
       THEN UNCHANGED <<linked, cur>>
       ELSE linked' = linked + 1 /\ cur' = [cur EXCEPT ![c] = @ + 1]
    /\ Goto(c, "find")
    /\ UNCHANGED <<index, seg, ctr, cell, owned, drained, reclaim, dropped, side, it, data, ix>>

(* try_cleanup: the segment after the loaded one is there, as the client   *)
(* has walked to it.  Move the side's pointer on ...                       *)
CleanupSwing(c) ==
    /\ pc[c] = "clean"
    /\ IF seg[side[c]] = data[c]
       THEN seg' = [seg EXCEPT ![side[c]] = data[c] + 1] /\ Goto(c, "count")
       ELSE Goto(c, "swap") /\ UNCHANGED seg
    /\ UNCHANGED <<index, linked, ctr, cell, owned, drained, reclaim, dropped, side, it, data, cur, ix>>

\* Mutant: whoever leaves the segment first reclaims it.
CleanupFirst(c) ==
    /\ pc[c] = "count"
    /\ ctr' = [ctr EXCEPT ![data[c]] = @ + 1]
    /\ IF ctr[data[c]] = 0 THEN Unlink(data[c]) ELSE UNCHANGED reclaim
    /\ Goto(c, "swap")
    /\ UNCHANGED <<index, seg, linked, cell, owned, drained, dropped, side, it, data, cur, ix>>

(* ... and reclaim the segment if the other pointer has left it before.    *)
CleanupCount(c) ==
    /\ pc[c] = "count"
    /\ ctr' = [ctr EXCEPT ![data[c]] = @ + 1]
    /\ IF ctr[data[c]] = 1 THEN Unlink(data[c]) ELSE UNCHANGED reclaim
    /\ Goto(c, "swap")
    /\ UNCHANGED <<index, seg, linked, cell, owned, drained, dropped, side, it, data, cur, ix>>

\* Mutant: a push that finds the sentinel reports success.
SwapInAlways(c) ==
    /\ pc[c] = "swap" /\ side[c] = "push"
    /\ cell' = [cell EXCEPT ![ix[c]] = it[c]]
    /\ owned' = [owned EXCEPT ![c] = @ \ {it[c]}]
    /\ Return(c)
    /\ UNCHANGED <<index, seg, linked, ctr, drained, unlinked, dropped, side>>

(* A push swaps its item in.  It has failed if a pop has been at the cell, *)
(* and then leaves the item in a cell that nobody will look at.            *)
SwapIn(c) ==
    /\ pc[c] = "swap" /\ side[c] = "push"
    /\ cell' = [cell EXCEPT ![ix[c]] = it[c]]
    /\ owned' = IF cell[ix[c]] = Zero THEN [owned EXCEPT ![c] = @ \ {it[c]}] ELSE owned
    /\ Return(c)
    /\ UNCHANGED <<index, seg, linked, ctr, drained, unlinked, dropped, side>>

(* A pop swaps the sentinel in.                                            *)
SwapOut(c) ==
    LET old == cell[ix[c]] IN
    /\ pc[c] = "swap" /\ side[c] = "pop"
    /\ cell' = [cell EXCEPT ![ix[c]] = SENTINEL]
    /\ drained' = drained \cup {ix[c]}
    /\ IF old = Zero
       THEN Goto(c, "tail") /\ UNCHANGED <<owned, pinned, it, data, cur, ix>>
       ELSE owned' = [owned EXCEPT ![c] = @ \cup {old}] /\ Return(c)
    /\ UNCHANGED <<index, seg, linked, ctr, unlinked, dropped, side>>

\* Mutant: the pop calls the queue empty without a look at the tail.
IgnoreTail(c) ==
    /\ pc[c] = "tail"
    /\ Goto(c, "empty")
    /\ UNCHANGED <<queue, owned, drained, reclaim, dropped, side, it, data, cur, ix>>

(* The pop was first at its cell: is the queue empty, or was it too early? *)
LoadTail(c) ==
    /\ pc[c] = "tail"
    /\ IF ix[c] > index["push"]
       THEN Goto(c, "empty") /\ UNCHANGED <<pinned, it, data, cur, ix>>
       ELSE Return(c)   \* TransientFailure
    /\ UNCHANGED <<queue, owned, drained, unlinked, dropped, side>>

ReturnEmpty(c) ==
    /\ pc[c] = "empty"
    /\ Return(c)
    /\ UNCHANGED <<queue, owned, drained, unlinked, dropped, side>>

\* Mutant: the segments are unlinked from the pointer that is ahead.
DropFromAhead ==
    LET first == IF seg["pop"] < seg["push"] THEN seg["push"] ELSE seg["pop"] IN
    /\ ~dropped
    /\ \A c \in Clients : pc[c] = "idle"
    /\ dropped' = TRUE
    /\ unlinked' = [k \in Segments |-> IF k \in first .. linked - 1 THEN unlinked[k] + 1
                                                                   ELSE unlinked[k]]
    /\ UNCHANGED <<queue, owned, drained, pinned, pc, side, it, data, cur, ix>>

(* Drop, when no client is left: unlink the segments from the pointer that *)
(* is behind.                                                              *)
Drop ==
    LET first == IF seg["pop"] < seg["push"] THEN seg["pop"] ELSE seg["push"] IN
    /\ ~dropped
    /\ \A c \in Clients : pc[c] = "idle"
    /\ dropped' = TRUE
    /\ unlinked' = [k \in Segments |-> IF k \in first .. linked - 1 THEN unlinked[k] + 1
                                                                   ELSE unlinked[k]]
    /\ UNCHANGED <<queue, owned, drained, pinned, pc, side, it, data, cur, ix>>

Step(c) ==
    \/ Add(c) \/ FindCell(c) \/ Link(c) \/ CleanupSwing(c) \/ CleanupCount(c)
    \/ SwapIn(c) \/ SwapOut(c) \/ LoadTail(c) \/ ReturnEmpty(c)

Next == Drop \/ \E c \in Clients : Push(c) \/ Pop(c) \/ Step(c)

Spec == Init /\ [][Next]_vars
-----------------------------------------------------------------------------
\* The items in cells that no pop has come to.
Present == {v \in Items : \E i \in Cells \ drained : cell[i] = v}

(* The queue is a weak bag: a push that returns Ok puts its item in once,  *)
(* and one pop gets it out; a push that meets a sentinel keeps its item    *)
(* though it leaves a copy in the cell (many_threads_no_lost_nodes,        *)
(* queue.rs:901).                                                          *)
Bag == INSTANCE WeakBag WITH bag <- Present
IsWeakBag == Bag!Spec

Freed(k) == unlinked[k] > 0 /\ pinned[k] = {}

(* No client is in a segment that the collector may have freed: whoever    *)
(* reaches a segment that both pointers have left has pinned before. And   *)
(* no segment is reclaimed twice, by the two pointers leaving it or by     *)
(* Drop ("it avoids a double-free with head_data and tail_data advancing   *)
(* past the same segment", queue.rs:266), and Drop leaves none behind.     *)
NoUseAfterFree ==
    /\ \A c \in Clients :
        /\ pc[c] # "idle" => ~Freed(data[c])
        /\ pc[c] \in {"find", "link", "clean", "count", "swap"} => ~Freed(cur[c])
    /\ \A k \in Segments : unlinked[k] <= 1
    /\ dropped => \A k \in 0 .. linked - 1 : unlinked[k] = 1

(* find_cell only walks forward: the segment loaded is not past the one    *)
(* that holds the index, because the pointer is loaded before the index is *)
(* taken ("otherwise we are in danger of the pointer being advanced",      *)
(* queue.rs:290; the assertion of find_cell, 430).                         *)
WalksForward == \A c \in Clients : pc[c] = "find" => cur[c] <= SegId(c)

(* A pop that answers Empty leaves no item that was still to be had, that  *)
(* is one in a cell no pop has been given.                                 *)
EmptyIsHonest ==
    [][\A c \in Clients : pc[c] = "tail" /\ pc'[c] = "empty" =>
        ~ \E i \in Cells : i >= index["pop"] /\ cell[i] \in Items]_vars
=============================================================================
