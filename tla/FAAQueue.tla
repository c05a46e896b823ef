------------------------------ MODULE FAAQueue ------------------------------
(***************************************************************************)
(* FAAQueueLowLevel with revocation (bagpipe/src/queue.rs): a linked list  *)
(* of nodes, each an array of cells with two counters that hand out the    *)
(* cells to pushes and to pops.  Every access to a counter, a cell, a      *)
(* pointer or an item's handle is one step.                                *)
(***************************************************************************)
EXTENDS Integers, FiniteSets

CONSTANTS
    Clients,   \* the threads
    Pushers,   \* those that push ...
    Poppers,   \* ... pop ...
    Revokers,  \* ... and revoke
    Items,     \* non-zero words
    SegSize,   \* SMALL_SEG_SIZE
    MaxNodes,  \* bound on the length of the list
    MaxIndex   \* bound on the counters of a node

Nodes == 0 .. MaxNodes - 1
Slots == 0 .. SegSize - 1
Zero == "zero"
SENTINEL == "sentinel"
NoCell == <<>>

ASSUME QueueAssumption ==
    /\ Pushers \cup Poppers \cup Revokers \subseteq Clients
    /\ SegSize \in Nat \ {0}
    /\ MaxNodes \in Nat \ {0}
    /\ MaxIndex \in Nat /\ SegSize <= MaxIndex
    /\ Items \cap {Zero, SENTINEL} = {}

\* Where a client has no guard.
Unguarded == {"idle", "revoke_cas", "revoke_erase"}

VARIABLES
    linked,      \* the nodes 0 .. linked - 1 exist, node k points to node k + 1
    head, tail,  \* the nodes the queue points to
    head_index, tail_index,  \* the counters of each node
    data,        \* the cells of each node
    handle,      \* the cell that each item's handle names
    owned,       \* the items each client has outside the queue
    unlinked,    \* the nodes given to the epoch collector ...
    pinned,      \* ... and the clients whose guards still protect each of them
    \* each client
    pc,          \* the next step of its operation
    node,        \* the node it works on
    ix,          \* the index it got
    it,          \* the item it pushes, revokes or has popped
    seen         \* the items that were there to be had since its operation began

list == <<linked, head, tail, head_index, tail_index, data>>
reclaim == <<unlinked, pinned>>
vars == <<list, handle, owned, reclaim, pc, node, ix, it, seen>>

InData(v) == \E k \in Nodes, j \in Slots : data[k][j] = v

\* An item that no pop has been given the index of yet.
Waiting(v) == \E k \in Nodes, j \in Slots : data[k][j] = v /\ j >= head_index[k]

Goto(c, l) == pc' = [pc EXCEPT ![c] = l]
Load(c, k) == node' = [node EXCEPT ![c] = k]

\* An operation ends: the guard is dropped.
Return(c) ==
    /\ Goto(c, "idle")
    /\ pinned' = [k \in Nodes |-> pinned[k] \ {c}]
    /\ node' = [node EXCEPT ![c] = 0]
    /\ ix' = [ix EXCEPT ![c] = 0]
    /\ it' = [it EXCEPT ![c] = Zero]
    /\ seen' = [seen EXCEPT ![c] = {}]

Stay == UNCHANGED <<ix, it, seen, reclaim>>
-----------------------------------------------------------------------------
(* FAAQueueLowLevel::new, with the items in the hands of the pushers.      *)
Init ==
    /\ linked = 1
    /\ head = 0
    /\ tail = 0
    /\ head_index = [k \in Nodes |-> 0]
    /\ tail_index = [k \in Nodes |-> 0]
    /\ data = [k \in Nodes |-> [j \in Slots |-> Zero]]
    /\ handle = [v \in Items |-> NoCell]
    /\ owned \in [Clients -> SUBSET Items]
    /\ \A v \in Items : \E c \in Pushers : \A d \in Clients : v \in owned[d] <=> d = c
    /\ unlinked = {}
    /\ pinned = [k \in Nodes |-> {}]
    /\ pc = [c \in Clients |-> "idle"]
    /\ node = [c \in Clients |-> 0]
    /\ ix = [c \in Clients |-> 0]
    /\ it = [c \in Clients |-> Zero]
    /\ seen = [c \in Clients |-> {}]

\* What an item leaving the queue does to the pops in progress.
Unsee(v) == seen' = [d \in Clients |-> seen[d] \ {v}]
-----------------------------------------------------------------------------
(* try_push, and the top of its loop: load the tail.                       *)
Push(c) ==
    /\ pc[c] = "idle"
    /\ c \in Pushers
    /\ \E v \in owned[c] : it' = [it EXCEPT ![c] = v]
    /\ seen' = [seen EXCEPT ![c] = {v \in Items : Waiting(v)}]
    /\ Goto(c, "push")
    /\ UNCHANGED <<list, handle, owned, reclaim, node, ix>>

PushLoad(c) ==
    /\ pc[c] = "push"
    /\ Load(c, tail)
    /\ Goto(c, "push_add")
    /\ UNCHANGED <<list, handle, owned>> /\ Stay

(* Take an index of the tail node.                                         *)
PushAdd(c) ==
    LET k == node[c] IN
    /\ pc[c] = "push_add"
    /\ tail_index[k] < MaxIndex
    /\ tail_index' = [tail_index EXCEPT ![k] = @ + 1]
    /\ ix' = [ix EXCEPT ![c] = tail_index[k]]
    /\ Goto(c, IF tail_index[k] >= SegSize THEN "push_tail" ELSE "push_store")
    /\ UNCHANGED <<linked, head, tail, head_index, data, handle, owned, reclaim, node, it, seen>>

(* The node is full: start over if the tail has moved ...                  *)
PushIsTail(c) ==
    /\ pc[c] = "push_tail"
    /\ Goto(c, IF tail = node[c] THEN "push_next" ELSE "push")
    /\ UNCHANGED <<list, handle, owned, node>> /\ Stay

(* ... otherwise advance it if there is a next node ...                    *)
PushNext(c) ==
    /\ pc[c] = "push_next"
    /\ Goto(c, IF node[c] + 1 < linked THEN "push_help" ELSE "push_link")
    /\ UNCHANGED <<list, handle, owned, node>> /\ Stay

SwingTail(c) ==
    /\ tail' = IF tail = node[c] THEN node[c] + 1 ELSE tail
    /\ UNCHANGED <<linked, head, head_index, tail_index, data>>

PushHelp(c) ==
    /\ pc[c] = "push_help"
    /\ SwingTail(c)
    /\ Goto(c, "push")
    /\ UNCHANGED <<handle, owned, node>> /\ Stay

(* ... or link a new node that holds the item in its first cell, which     *)
(* stores no handle.                                                       *)
PushLink(c) ==
    LET k == node[c] + 1 IN
    /\ pc[c] = "push_link"
    /\ IF k < linked
       THEN Goto(c, "push") /\ UNCHANGED <<list, owned>>
       ELSE /\ k \in Nodes
            /\ linked' = linked + 1
            /\ tail_index' = [tail_index EXCEPT ![k] = 1]
            /\ data' = [data EXCEPT ![k][0] = it[c]]
            /\ owned' = [owned EXCEPT ![c] = @ \ {it[c]}]
            /\ Goto(c, "push_swing")
            /\ UNCHANGED <<head, tail, head_index>>
    /\ UNCHANGED <<handle, node>> /\ Stay

PushSwing(c) ==
    /\ pc[c] = "push_swing"
    /\ SwingTail(c)
    /\ Return(c)
    /\ UNCHANGED <<handle, owned, unlinked>>

(* The index is in range: store the handle, then swap the item in.         *)
PushStore(c) ==
    /\ pc[c] = "push_store"
    /\ handle' = [handle EXCEPT ![it[c]] = <<node[c], ix[c]>>]
    /\ Goto(c, "push_cas")
    /\ UNCHANGED <<list, owned, node>> /\ Stay

\* Mutant: the item is stored without comparing the cell with zero.
PushSwapIn(c) ==
    /\ pc[c] = "push_cas"
    /\ data' = [data EXCEPT ![node[c]][ix[c]] = it[c]]
    /\ owned' = [owned EXCEPT ![c] = @ \ {it[c]}]
    /\ Return(c)
    /\ UNCHANGED <<linked, head, tail, head_index, tail_index, handle, unlinked>>

PushCas(c) ==
    /\ pc[c] = "push_cas"
    /\ IF data[node[c]][ix[c]] = Zero
       THEN /\ data' = [data EXCEPT ![node[c]][ix[c]] = it[c]]
            /\ owned' = [owned EXCEPT ![c] = @ \ {it[c]}]
       ELSE UNCHANGED <<data, owned>>
    /\ Return(c)
    /\ UNCHANGED <<linked, head, tail, head_index, tail_index, handle, unlinked>>
-----------------------------------------------------------------------------
(* try_pop, and the top of its loop: load the head.                        *)
Pop(c) ==
    /\ pc[c] = "idle"
    /\ c \in Poppers
    /\ seen' = [seen EXCEPT ![c] = {v \in Items : Waiting(v)}]
    /\ Goto(c, "pop")
    /\ UNCHANGED <<list, handle, owned, reclaim, node, ix, it>>

PopLoad(c) ==
    /\ pc[c] = "pop"
    /\ Load(c, head)
    /\ Goto(c, "pop_head")
    /\ UNCHANGED <<list, handle, owned>> /\ Stay

(* The emptiness check: head_index, then tail_index, then next.            *)
PopHeadIndex(c) ==
    /\ pc[c] = "pop_head"
    /\ ix' = [ix EXCEPT ![c] = head_index[node[c]]]
    /\ Goto(c, "pop_tail")
    /\ UNCHANGED <<list, handle, owned, reclaim, node, it, seen>>

PopTailIndex(c) ==
    /\ pc[c] = "pop_tail"
    /\ Goto(c, IF ix[c] >= tail_index[node[c]] THEN "pop_last" ELSE "pop_add")
    /\ UNCHANGED <<list, handle, owned, node>> /\ Stay

\* Mutant: the emptiness check does not look at the next node.
PopIgnoresNext(c) ==
    /\ pc[c] = "pop_last"
    /\ Goto(c, "empty")
    /\ UNCHANGED <<list, handle, owned, node>> /\ Stay

PopIsLast(c) ==
    /\ pc[c] = "pop_last"
    /\ Goto(c, IF node[c] + 1 < linked THEN "pop_add" ELSE "empty")
    /\ UNCHANGED <<list, handle, owned, node>> /\ Stay

\* Mutant: the last cell of a node counts as past the end.
PopAddShort(c) ==
    LET k == node[c] IN
    /\ pc[c] = "pop_add"
    /\ head_index[k] < MaxIndex
    /\ head_index' = [head_index EXCEPT ![k] = @ + 1]
    /\ ix' = [ix EXCEPT ![c] = head_index[k]]
    /\ IF head_index[k] < SegSize - 1
       THEN Goto(c, "pop_swap") /\ Unsee(data[k][head_index[k]])
       ELSE Goto(c, "pop_next") /\ UNCHANGED seen
    /\ UNCHANGED <<linked, head, tail, tail_index, data, handle, owned, reclaim, node, it>>

(* Take an index of the head node.                                         *)
PopAdd(c) ==
    LET k == node[c] IN
    /\ pc[c] = "pop_add"
    /\ head_index[k] < MaxIndex
    /\ head_index' = [head_index EXCEPT ![k] = @ + 1]
    /\ ix' = [ix EXCEPT ![c] = head_index[k]]
    /\ IF head_index[k] < SegSize
       THEN Goto(c, "pop_swap") /\ Unsee(data[k][head_index[k]])
       ELSE Goto(c, "pop_next") /\ UNCHANGED seen
    /\ UNCHANGED <<linked, head, tail, tail_index, data, handle, owned, reclaim, node, it>>

(* The node is used up: move the head to the next one, if there is one,    *)
(* and hand this one to the collector.                                     *)
PopNext(c) ==
    /\ pc[c] = "pop_next"
    /\ Goto(c, IF node[c] + 1 < linked THEN "pop_move" ELSE "empty")
    /\ UNCHANGED <<list, handle, owned, node>> /\ Stay

\* Mutant: the node the head moves to is unlinked.
PopUnlinksNext(c) ==
    /\ pc[c] = "pop_move"
    /\ IF head = node[c]
       THEN /\ head' = node[c] + 1
            /\ unlinked' = unlinked \cup {node[c] + 1}
            /\ pinned' = [pinned EXCEPT ![node[c] + 1] =
                            {d \in Clients : pc[d] \notin Unguarded}]
       ELSE UNCHANGED <<head, reclaim>>
    /\ Goto(c, "pop")
    /\ UNCHANGED <<linked, tail, head_index, tail_index, data, handle, owned, node, ix, it, seen>>

PopMove(c) ==
    /\ pc[c] = "pop_move"
    /\ IF head = node[c]
       THEN /\ head' = node[c] + 1
            /\ unlinked' = unlinked \cup {node[c]}
            /\ pinned' = [pinned EXCEPT ![node[c]] =
                            {d \in Clients : pc[d] \notin Unguarded}]
       ELSE UNCHANGED <<head, reclaim>>
    /\ Goto(c, "pop")
    /\ UNCHANGED <<linked, tail, head_index, tail_index, data, handle, owned, node, ix, it, seen>>

PopEmpty(c) ==
    /\ pc[c] = "empty"
    /\ Return(c)
    /\ UNCHANGED <<list, handle, owned, unlinked>>

\* Mutant: the cell is read without swapping the sentinel in.
PopLoadsCell(c) ==
    LET old == data[node[c]][ix[c]] IN
    /\ pc[c] = "pop_swap"
    /\ UNCHANGED data
    /\ IF old \in {Zero, SENTINEL}
       THEN Return(c) /\ UNCHANGED <<owned, unlinked>>
       ELSE /\ owned' = [owned EXCEPT ![c] = @ \cup {old}]
            /\ it' = [it EXCEPT ![c] = old]
            /\ Goto(c, "pop_erase")
            /\ UNCHANGED <<reclaim, node, ix, seen>>
    /\ UNCHANGED <<linked, head, tail, head_index, tail_index, handle>>

(* Swap the sentinel in: the pop fails if the push has not come yet, or if *)
(* the item was revoked.                                                   *)
PopSwap(c) ==
    LET old == data[node[c]][ix[c]] IN
    /\ pc[c] = "pop_swap"
    /\ data' = [data EXCEPT ![node[c]][ix[c]] = SENTINEL]
    /\ IF old \in {Zero, SENTINEL}
       THEN Return(c) /\ UNCHANGED <<owned, unlinked>>
       ELSE /\ owned' = [owned EXCEPT ![c] = @ \cup {old}]
            /\ it' = [it EXCEPT ![c] = old]
            /\ Goto(c, "pop_erase")
            /\ UNCHANGED <<reclaim, node, ix, seen>>
    /\ UNCHANGED <<linked, head, tail, head_index, tail_index, handle>>

PopErase(c) ==
    /\ pc[c] = "pop_erase"
    /\ handle' = [handle EXCEPT ![it[c]] = NoCell]
    /\ Return(c)
    /\ UNCHANGED <<list, owned, unlinked>>
-----------------------------------------------------------------------------
(* revoke, which takes no guard: load the handle, then swap the sentinel   *)
(* for the item in the cell it names.                                      *)
Revoke(c) ==
    /\ pc[c] = "idle"
    /\ c \in Revokers
    /\ \E v \in Items :
        /\ handle[v] # NoCell
        /\ it' = [it EXCEPT ![c] = v]
        /\ node' = [node EXCEPT ![c] = handle[v][1]]
        /\ ix' = [ix EXCEPT ![c] = handle[v][2]]
    /\ Goto(c, "revoke_cas")
    /\ UNCHANGED <<list, handle, owned, reclaim, seen>>

RevokeCas(c) ==
    LET v == it[c] IN
    /\ pc[c] = "revoke_cas"
    /\ IF data[node[c]][ix[c]] = v
       THEN /\ data' = [data EXCEPT ![node[c]][ix[c]] = SENTINEL]
            /\ owned' = [owned EXCEPT ![c] = @ \cup {v}]
            /\ Unsee(v)
            /\ Goto(c, "revoke_erase")
            /\ UNCHANGED it
       ELSE /\ UNCHANGED <<data, owned, seen>>
            /\ Goto(c, "idle")
            /\ it' = [it EXCEPT ![c] = Zero]
    /\ node' = [node EXCEPT ![c] = 0]
    /\ ix' = [ix EXCEPT ![c] = 0]
    /\ UNCHANGED <<linked, head, tail, head_index, tail_index, handle, reclaim>>

(* The caller clears the handle of what it revoked (transition_full).      *)
RevokeErase(c) ==
    /\ pc[c] = "revoke_erase"
    /\ handle' = [handle EXCEPT ![it[c]] = NoCell]
    /\ Goto(c, "idle")
    /\ it' = [it EXCEPT ![c] = Zero]
    /\ UNCHANGED <<list, owned, reclaim, node, ix, seen>>
-----------------------------------------------------------------------------
Step(c) ==
    \/ PushLoad(c) \/ PushAdd(c) \/ PushIsTail(c) \/ PushNext(c) \/ PushHelp(c)
    \/ PushLink(c) \/ PushSwing(c) \/ PushStore(c) \/ PushCas(c)
    \/ PopLoad(c) \/ PopHeadIndex(c) \/ PopTailIndex(c) \/ PopIsLast(c) \/ PopAdd(c)
    \/ PopNext(c) \/ PopMove(c) \/ PopEmpty(c) \/ PopSwap(c) \/ PopErase(c)
    \/ RevokeCas(c) \/ RevokeErase(c)

Next == \E c \in Clients : Push(c) \/ Pop(c) \/ Revoke(c) \/ Step(c)

Spec == Init /\ [][Next]_vars
-----------------------------------------------------------------------------
TypeOK ==
    /\ linked \in 1 .. MaxNodes
    /\ head \in 0 .. linked - 1
    /\ tail \in 0 .. linked - 1
    /\ head_index \in [Nodes -> 0 .. MaxIndex]
    /\ tail_index \in [Nodes -> 0 .. MaxIndex]
    /\ data \in [Nodes -> [Slots -> Items \cup {Zero, SENTINEL}]]
    /\ handle \in [Items -> (Nodes \X Slots) \cup {NoCell}]
    /\ owned \in [Clients -> SUBSET Items]
    /\ unlinked \in SUBSET Nodes
    /\ pinned \in [Nodes -> SUBSET Clients]
    /\ node \in [Clients -> Nodes]
    /\ ix \in [Clients -> 0 .. MaxIndex]
    /\ it \in [Clients -> Items \cup {Zero}]
    /\ seen \in [Clients -> SUBSET Items]

(* The queue is a weak bag: every push that succeeds puts its item into    *)
(* the bag once, and one pop or revoke gets it out, whatever the races for *)
(* the cells (cf. the test many_threads_no_lost_nodes, queue.rs:892).      *)
Bag == INSTANCE WeakBag WITH bag <- {v \in Items : InData(v)}
IsWeakBag == Bag!Spec

\* A pop in progress has been given cell j of node k.
Taken(k, j) == \E c \in Clients : pc[c] = "pop_swap" /\ node[c] = k /\ ix[c] = j

(* An item in a cell is still ahead of the pops, in a node they will get   *)
(* to, or one pop has been given its cell: none is left behind.            *)
NoneStranded ==
    \A k \in Nodes, j \in Slots : data[k][j] \in Items =>
        (k >= head /\ j >= head_index[k]) \/ Taken(k, j)

(* A pop that answers Empty is right: no item was there to be had during   *)
(* the whole pop.  The two counters are read one after the other ("if      *)
(* tail_ix is less than what head_ix was in the past, the queue is still   *)
(* empty regardless", queue.rs:632-634).                                   *)
EmptyIsHonest == \A c \in Clients : pc[c] = "empty" => seen[c] = {}

\* The collector may free a node once the guards it found have been dropped.
Freed(k) == k \in unlinked /\ pinned[k] = {}

\* The steps that access the node loaded before.
Accessing == {"push_add", "push_next", "push_link", "push_cas", "pop_head", "pop_tail",
              "pop_last", "pop_add", "pop_next", "pop_swap", "revoke_cas"}

(* No client accesses a node that has been freed: when the head moves on,  *)
(* whoever is still in the node it leaves has an active guard (the reason  *)
(* that try_pop gives for unlinking it, queue.rs:648-654).                 *)
NoUseAfterFree ==
    \A c \in Clients : pc[c] \in Accessing => ~Freed(node[c])

(* The argument of try_pop for unlinking a node (queue.rs:648-654): the    *)
(* pops that are still in a node the head has left have an active guard.   *)
PopsAreProtected ==
    \A c \in Clients :
        pc[c] \in {"pop_head", "pop_tail", "pop_last", "pop_add", "pop_next", "pop_swap"} =>
            ~Freed(node[c])

\* The cells that hold an item, and the order of cells in the list.
Cells(v) == {p \in Nodes \X Slots : data[p[1]][p[2]] = v}
Before(p, q) == p[1] < q[1] \/ (p[1] = q[1] /\ p[2] < q[2])

\* A push puts its item behind all that were in when it began, and a pop is
\* given no cell behind an item that no other pop has been given.
PushesBehind ==
    \A c \in Clients, u, v \in Items :
        pc[c] \in {"push_cas", "push_link"} /\ u \in seen[c] /\ v = it[c] =>
            \A p \in Cells(u), q \in Cells(v)' : Before(p, q)

PopsInOrder ==
    \A c \in Clients, u \in Items :
        pc[c] # "pop_swap" /\ pc'[c] = "pop_swap" =>
            \A p \in Cells(u)' : Taken(p[1], p[2])' \/ Before(<<node'[c], ix'[c]>>, p)

(* The queue is first in, first out, as far as concurrent calls have an    *)
(* order: an item goes in behind all that were in when its push began, and *)
(* a pop is given no cell behind an item that no other pop has been given  *)
(* (for two threads the test two_threads_enqueue_dequeue, queue.rs:832).   *)
FifoOrder == [][PushesBehind /\ PopsInOrder]_vars
=============================================================================
