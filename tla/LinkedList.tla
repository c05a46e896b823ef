----------------------------- MODULE LinkedList -----------------------------
(***************************************************************************)
(* The intrusive list of the slab allocator (slab-alloc/src/util.rs, mod   *)
(* list), as operators on a record of the list's size, head and tail and   *)
(* of the next and prev fields of every slab header, in the list or not.   *)
(***************************************************************************)
EXTENDS Naturals
LOCAL INSTANCE TLC

Null == 0

NewList == [size |-> 0, head |-> Null, tail |-> Null, next |-> <<>>, prev |-> <<>>]

\* A header comes and goes with its slab, and comes with null links.
AddNode(l, t) == [l EXCEPT !.next = (t :> Null) @@ @, !.prev = (t :> Null) @@ @]
DropNodes(l, S) ==
    LET rest == DOMAIN l.next \ S
    IN  [l EXCEPT !.next = [t \in rest |-> @[t]], !.prev = [t \in rest |-> @[t]]]

Single(l, t) == [l EXCEPT !.head = t, !.tail = t, !.size = 1]

InsertFront(l, t) ==
    IF l.size = 0 THEN Single(l, t)
    ELSE [l EXCEPT !.next[t] = l.head, !.prev[l.head] = t,
                   !.head = t, !.size = @ + 1]

InsertBack(l, t) ==
    IF l.size = 0 THEN Single(l, t)
    ELSE [l EXCEPT !.next[l.tail] = t, !.prev[t] = l.tail,
                   !.tail = t, !.size = @ + 1]

Emptied(l) == [l EXCEPT !.head = Null, !.tail = Null, !.size = 0]

RemoveFront(l) ==
    LET second == l.next[l.head]
    IN  IF l.size = 1 THEN Emptied(l)
        ELSE [l EXCEPT !.head = second, !.prev[second] = Null,
                       !.next[l.head] = Null, !.size = @ - 1]

RemoveBack(l) ==
    LET last == l.prev[l.tail]
    IN  IF l.size = 1 THEN Emptied(l)
        ELSE [l EXCEPT !.tail = last, !.next[last] = Null,
                       !.prev[l.tail] = Null, !.size = @ - 1]

\* Mutant: the node keeps its link to what followed it.
MoveToBackLinked(l, t) ==
    LET next == l.next[t]
        prev == l.prev[t]
        out == IF l.head = t THEN [l EXCEPT !.prev[next] = Null, !.head = next]
               ELSE [l EXCEPT !.next[prev] = next, !.prev[next] = prev]
    IN  IF l.size = 1 \/ l.tail = t THEN l
        ELSE [out EXCEPT !.prev[t] = l.tail, !.next[l.tail] = t, !.tail = t]

\* The node is taken out of its place and linked in after the tail.
MoveToBack(l, t) ==
    LET next == l.next[t]
        prev == l.prev[t]
        out == IF l.head = t THEN [l EXCEPT !.prev[next] = Null, !.head = next]
               ELSE [l EXCEPT !.next[prev] = next, !.prev[next] = prev]
    IN  IF l.size = 1 \/ l.tail = t THEN l
        ELSE [out EXCEPT !.prev[t] = l.tail, !.next[t] = Null,
                         !.next[l.tail] = t, !.tail = t]

-----------------------------------------------------------------------------
(* The nodes in list order: size steps along next from the head.           *)
Order(l) ==
    LET Node[k \in 1 .. l.size] ==
            IF k = 1 THEN l.head
            ELSE IF Node[k - 1] \in DOMAIN l.next THEN l.next[Node[k - 1]] ELSE Null
    IN  [k \in 1 .. l.size |-> Node[k]]

(* The two chains of links mirror each other and end at the head and the   *)
(* tail, and a node outside of the list has null links.                    *)
WellLinked(l) ==
    LET s == Order(l)
        At(k) == IF k \in 1 .. l.size THEN s[k] ELSE Null
    IN  /\ l.head = At(1) /\ l.tail = At(l.size)
        /\ \A k \in 1 .. l.size :
              s[k] \in DOMAIN l.next /\ l.next[s[k]] = At(k + 1) /\ l.prev[s[k]] = At(k - 1)
        /\ \A t \in DOMAIN l.next \ {s[k] : k \in 1 .. l.size} :
              l.next[t] = Null /\ l.prev[t] = Null
=============================================================================
