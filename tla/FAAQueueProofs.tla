--------------------------- MODULE FAAQueueProofs ---------------------------
(***************************************************************************)
(* What FAAQueueLowLevel guarantees, for any number of clients and any     *)
(* length of list: the inductive invariant, that every step of a client    *)
(* keeps its parts (what each client knows about its own locals, the       *)
(* cells, the shape of the list, and what the operations in progress have  *)
(* seen), and the theorems that follow.                                    *)
(***************************************************************************)
EXTENDS FAAQueue, TLAPS

\* Where a push still has its item, and where a pop works on a node.
Pushing == {"push", "push_add", "push_tail", "push_next", "push_help", "push_link",
            "push_store", "push_cas"}
Popping == {"pop_head", "pop_tail", "pop_last", "pop_add", "pop_next", "pop_move",
            "pop_swap"}
Labels == Pushing \cup Popping \cup
          {"idle", "push_swing", "pop", "pop_erase", "empty", "revoke_cas", "revoke_erase"}

Types == TypeOK /\ pc \in [Clients -> Labels]

(* What the place of a client in its operation says about its locals.      *)
ControlOf(c) ==
    /\ node[c] < linked
    /\ pc[c] \in Pushing => it[c] \in owned[c]
    /\ pc[c] \in {"pop_erase", "revoke_cas", "revoke_erase"} => it[c] \in Items
    /\ pc[c] \in {"push_store", "push_cas", "pop_swap", "revoke_cas"} => ix[c] \in Slots
    /\ pc[c] \in {"push_help", "push_swing", "pop_move"} => node[c] + 1 < linked

Control == \A c \in Clients : ControlOf(c)

(* The counters behind the indices that clients hold.                      *)
IndicesOf(c) ==
    /\ pc[c] \in {"push_store", "push_cas"} => ix[c] < tail_index[node[c]]
    /\ pc[c] \in {"push_tail", "push_next", "push_link"} => tail_index[node[c]] >= SegSize
    /\ pc[c] = "pop_tail" => ix[c] <= head_index[node[c]]
    /\ pc[c] = "pop_swap" => ix[c] < head_index[node[c]]
    /\ pc[c] \in {"pop_next", "pop_move"} => head_index[node[c]] >= SegSize
    /\ pc[c] \in Popping => node[c] <= head

Indices == \A c \in Clients : IndicesOf(c)

(* The list: what is past its end, before its head, and outside of the     *)
(* counters of each node.                                                  *)
Shape ==
    /\ \A v \in Items : handle[v] # NoCell => handle[v][1] < linked
    /\ \A k \in Nodes :
        /\ k >= linked => tail_index[k] = 0 /\ \A j \in Slots : data[k][j] = Zero
        /\ k + 1 < linked => tail_index[k] >= SegSize
        /\ k < head => head_index[k] >= SegSize
    /\ \A k \in Nodes, j \in Slots : data[k][j] \in Items => j < tail_index[k]

(* A cell that no pop was given an index of, or that one has not reached.  *)
Given ==
    \A k \in Nodes, j \in Slots : data[k][j] # SENTINEL => j >= head_index[k] \/ Taken(k, j)

(* An item is with one client, or in one cell.                             *)
InOnePlace ==
    /\ \A v \in Items : \A c, d \in Clients : v \in owned[c] /\ v \in owned[d] => c = d
    /\ \A c \in Clients : \A v \in owned[c] : ~ InData(v)
    /\ \A k, l \in Nodes, i, j \in Slots :
        data[k][i] \in Items /\ data[k][i] = data[l][j] => k = l /\ i = j

(* A pop in a node that the head has left is one its unlinking waits for.  *)
Guards ==
    /\ \A k \in unlinked : k < head
    /\ \A c \in Clients : pc[c] \in Popping /\ node[c] \in unlinked => c \in pinned[node[c]]

(* An item seen is where it was: waiting, behind the node in which a pop   *)
(* found nothing, and ahead of the cell that a push was given.             *)
SeenOf(c) ==
    /\ \A v \in seen[c] : Waiting(v)
    /\ pc[c] = "empty" => seen[c] = {}
    /\ \A k \in Nodes, j \in Slots : data[k][j] \in seen[c] =>
        /\ pc[c] = "pop_last" => k > node[c]
        /\ pc[c] \in {"push_store", "push_cas"} => Before(<<k, j>>, <<node[c], ix[c]>>)

Seen == \A c \in Clients : SeenOf(c)

IInv == Types /\ Control /\ Indices /\ Shape /\ Given /\ InOnePlace /\ Guards /\ Seen

-----------------------------------------------------------------------------
Action(c) == Push(c) \/ Pop(c) \/ Revoke(c) \/ Step(c)

(* Every step keeps the types; that the head and the tail stay inside of   *)
(* the list needs what the clients know about the next node (Control).     *)
LEMMA TypesStep == ASSUME Types, Control, NEW c \in Clients, Action(c) PROVE Types'
<1>l. pc' \in [Clients -> Labels]
  <2>1. \E l \in Labels : pc' = [pc EXCEPT ![c] = l]
    <3>1. CASE Push(c) \/ Pop(c) \/ Revoke(c)
      BY Zenon, <3>1 DEF Push, Pop, Revoke, Goto, Labels, Pushing, Popping
    <3>2. CASE PushLoad(c) \/ PushAdd(c) \/ PushIsTail(c) \/ PushNext(c) \/ PushHelp(c)
      BY Zenon, <3>2 DEF PushLoad, PushAdd, PushIsTail, PushNext, PushHelp, Goto, Labels, Pushing
    <3>3. CASE PushLink(c) \/ PushStore(c)
      BY Zenon, <3>3 DEF PushLink, PushStore, Goto, Labels, Pushing
    <3>4. CASE PopLoad(c) \/ PopHeadIndex(c) \/ PopTailIndex(c) \/ PopIsLast(c) \/ PopAdd(c)
      BY Zenon, <3>4 DEF PopLoad, PopHeadIndex, PopTailIndex, PopIsLast, PopAdd, Goto, Labels, Popping
    <3>5. CASE PopNext(c) \/ PopMove(c) \/ RevokeCas(c) \/ RevokeErase(c)
      BY Zenon, <3>5 DEF PopNext, PopMove, RevokeCas, RevokeErase, Goto, Labels, Popping
    <3>6. CASE PushSwing(c) \/ PushCas(c) \/ PopEmpty(c) \/ PopErase(c) \/ PopSwap(c)
      <4>1. pc' = [pc EXCEPT ![c] = "idle"] \/ pc' = [pc EXCEPT ![c] = "pop_erase"]
        BY Zenon, <3>6 DEF PushSwing, PushCas, PopEmpty, PopErase, PopSwap, Return, Goto
      <4> QED
        BY Zenon, <4>1 DEF Labels
    <3> QED
      BY Zenon, <3>1, <3>2, <3>3, <3>4, <3>5, <3>6 DEF Action, Step
  <2> QED
    BY Zenon, <2>1 DEF Types
<1> USE DEF Goto, Load, Stay, list, reclaim
<1>0. /\ SegSize \in Nat \ {0} /\ MaxNodes \in Nat \ {0} /\ MaxIndex \in Nat \ {0}
      /\ Nodes \subseteq Nat /\ 0 \in Nodes /\ 0 \in Slots
      /\ \A k \in Nat : k < linked => k \in Nodes
  BY QueueAssumption DEF Nodes, Slots, Types, TypeOK
<1>a. /\ node[c] < linked
      /\ pc[c] \in {"push_help", "push_swing", "pop_move"} => node[c] + 1 < linked
      /\ pc[c] \in {"push_store", "push_cas", "pop_swap", "revoke_cas"} => ix[c] \in Slots
      /\ pc[c] \in {"pop_erase", "revoke_cas", "revoke_erase"} => it[c] \in Items
      /\ pc[c] \in Pushing => it[c] \in owned[c]
  BY Zenon DEF Control, ControlOf
<1>b. /\ linked \in 1 .. MaxNodes /\ head \in 0 .. linked - 1 /\ tail \in 0 .. linked - 1
      /\ node \in [Clients -> Nodes] /\ node[c] \in Nodes
  BY Zenon DEF Types, TypeOK
<1>1. linked' \in 1 .. MaxNodes /\ head' \in 0 .. linked' - 1 /\ tail' \in 0 .. linked' - 1
  <2>1. CASE PushHelp(c) \/ PushSwing(c)
    BY <2>1, <1>0, <1>a, <1>b DEF PushHelp, PushSwing, SwingTail
  <2>2. CASE PushLink(c)
    BY <2>2, <1>0, <1>b DEF PushLink, Nodes
  <2>3. CASE PopMove(c)
    BY <2>3, <1>0, <1>a, <1>b DEF PopMove
  <2>4. CASE ~ (PushHelp(c) \/ PushSwing(c) \/ PushLink(c) \/ PopMove(c))
    <3>1. UNCHANGED <<linked, head, tail>>
      BY Zenon, <2>4 DEF Action, Step, Push, PushLoad, PushAdd, PushIsTail, PushNext, PushStore,
         PushCas, Pop, PopLoad, PopHeadIndex, PopTailIndex, PopIsLast, PopAdd, PopNext,
         PopEmpty, PopSwap, PopErase, Revoke, RevokeCas, RevokeErase
    <3> QED
      BY Zenon, <3>1, <1>b
  <2> QED
    BY Zenon, <2>1, <2>2, <2>3, <2>4
<1>2. head_index' \in [Nodes -> 0 .. MaxIndex] /\ tail_index' \in [Nodes -> 0 .. MaxIndex]
  <2>0. /\ head_index \in [Nodes -> 0 .. MaxIndex] /\ tail_index \in [Nodes -> 0 .. MaxIndex]
        /\ MaxIndex >= 1
    BY QueueAssumption DEF Types, TypeOK
  <2>1. CASE PushAdd(c) \/ PopAdd(c)
    BY <2>0, <2>1, <1>0, <1>b DEF PushAdd, PopAdd
  <2>2. CASE PushLink(c)
    BY <2>0, <2>2, <1>0 DEF PushLink
  <2>3. CASE ~ (PushAdd(c) \/ PushLink(c) \/ PopAdd(c))
    <3>1. UNCHANGED <<head_index, tail_index>>
      BY Zenon, <2>3 DEF Action, Step, Push, PushLoad, PushIsTail, PushNext, PushHelp, PushSwing,
         SwingTail, PushStore, PushCas, Pop, PopLoad, PopHeadIndex, PopTailIndex, PopIsLast,
         PopNext, PopMove, PopEmpty, PopSwap, PopErase, Revoke, RevokeCas, RevokeErase
    <3> QED
      BY Zenon, <3>1, <2>0
  <2> QED
    BY Zenon, <2>1, <2>2, <2>3
<1>3. /\ data' \in [Nodes -> [Slots -> Items \cup {Zero, SENTINEL}]]
      /\ owned' \in [Clients -> SUBSET Items]
  <2> USE DEF Types, TypeOK
  <2>1. CASE PushLink(c)
    BY SMTT(30), <2>1, <1>0, <1>a DEF PushLink, Pushing
  <2>2. CASE PushCas(c)
    BY <2>2, <1>0, <1>a, <1>b DEF PushCas, Pushing
  <2>3. CASE PopSwap(c)
    <3>1. data[node[c]][ix[c]] \in Items \cup {Zero, SENTINEL}
      BY <2>3, <1>a, <1>b DEF PopSwap
    <3>2. data' = [data EXCEPT ![node[c]][ix[c]] = SENTINEL]
      BY Zenon, <2>3 DEF PopSwap
    <3>3. \/ UNCHANGED owned
          \/ /\ data[node[c]][ix[c]] \in Items
             /\ owned' = [owned EXCEPT ![c] = @ \cup {data[node[c]][ix[c]]}]
      BY Zenon, <2>3, <3>1 DEF PopSwap
    <3>4. data' \in [Nodes -> [Slots -> Items \cup {Zero, SENTINEL}]]
      BY Zenon, <3>2, <1>b
    <3>5. owned' \in [Clients -> SUBSET Items]
      <4>1. data[node[c]][ix[c]] \in Items => owned[c] \cup {data[node[c]][ix[c]]} \in SUBSET Items
        BY Zenon
      <4> QED
        BY Zenon, <3>3, <4>1
    <3> QED
      BY Zenon, <3>4, <3>5
  <2>4. CASE RevokeCas(c)
    <3>1. \/ UNCHANGED <<data, owned>>
          \/ /\ data' = [data EXCEPT ![node[c]][ix[c]] = SENTINEL]
             /\ owned' = [owned EXCEPT ![c] = @ \cup {it[c]}]
      BY Zenon, <2>4 DEF RevokeCas
    <3>2. it[c] \in Items
      BY Zenon, <2>4, <1>a DEF RevokeCas
    <3>3. data' \in [Nodes -> [Slots -> Items \cup {Zero, SENTINEL}]]
      <4>1. [data EXCEPT ![node[c]][ix[c]] = SENTINEL]
              \in [Nodes -> [Slots -> Items \cup {Zero, SENTINEL}]]
        BY Zenon, <1>b
      <4> QED
        BY Zenon, <3>1, <4>1
    <3>4. owned' \in [Clients -> SUBSET Items]
      <4>1. /\ owned \in [Clients -> SUBSET Items] /\ owned[c] \in SUBSET Items
            /\ owned[c] \cup {it[c]} \in SUBSET Items
        BY Zenon, <3>2
      <4>2. [owned EXCEPT ![c] = owned[c] \cup {it[c]}] \in [Clients -> SUBSET Items]
        BY Zenon, <4>1
      <4> QED
        BY Zenon, <3>1, <4>1, <4>2
    <3> QED
      BY Zenon, <3>3, <3>4
  <2>5. CASE ~ (PushLink(c) \/ PushCas(c) \/ PopSwap(c) \/ RevokeCas(c))
    <3>1. UNCHANGED <<data, owned>>
      BY Zenon, <2>5 DEF Action, Step, Push, PushLoad, PushAdd, PushIsTail, PushNext, PushHelp,
         PushSwing, SwingTail, PushStore, Pop, PopLoad, PopHeadIndex, PopTailIndex,
         PopIsLast, PopAdd, PopNext, PopMove, PopEmpty, PopErase, Revoke, RevokeErase
    <3> QED
      BY Zenon, <3>1
  <2> QED
    BY Zenon, <2>1, <2>2, <2>3, <2>4, <2>5
<1>4. handle' \in [Items -> (Nodes \X Slots) \cup {NoCell}]
  <2> USE DEF Types, TypeOK
  <2>1. CASE PushStore(c)
    BY Zenon, <2>1, <1>a, <1>b DEF PushStore, Pushing
  <2>2. CASE PopErase(c) \/ RevokeErase(c)
    BY Zenon, <2>2, <1>a DEF PopErase, RevokeErase
  <2>3. CASE ~ (PushStore(c) \/ PopErase(c) \/ RevokeErase(c))
    <3>1. UNCHANGED handle
      BY Zenon, <2>3 DEF Action, Step, Push, PushLoad, PushAdd, PushIsTail, PushNext, PushHelp,
         PushLink, PushSwing, PushCas, Pop, PopLoad, PopHeadIndex, PopTailIndex, PopIsLast,
         PopAdd, PopNext, PopMove, PopEmpty, PopSwap, Revoke, RevokeCas
    <3> QED
      BY Zenon, <3>1
  <2> QED
    BY Zenon, <2>1, <2>2, <2>3
<1>5. unlinked' \in SUBSET Nodes /\ pinned' \in [Nodes -> SUBSET Clients]
  <2>0. unlinked \in SUBSET Nodes /\ pinned \in [Nodes -> SUBSET Clients]
    BY Zenon DEF Types, TypeOK
  <2>1. CASE PopMove(c)
    <3>1. \/ UNCHANGED <<unlinked, pinned>>
          \/ /\ unlinked' = unlinked \cup {node[c]}
             /\ pinned' = [pinned EXCEPT ![node[c]] = {d \in Clients : pc[d] \notin Unguarded}]
      BY Zenon, <2>1 DEF PopMove
    <3> QED
      BY ZenonT(30), <3>1, <2>0, <1>b
  <2>2. CASE PushSwing(c) \/ PushCas(c) \/ PopEmpty(c) \/ PopErase(c)
    BY <2>0, <2>2 DEF PushSwing, PushCas, PopEmpty, PopErase, Return
  <2>3. CASE PopSwap(c)
    BY <2>0, <2>3 DEF PopSwap, Return
  <2>4. CASE ~ (PopMove(c) \/ PushSwing(c) \/ PushCas(c) \/ PopEmpty(c) \/ PopErase(c)
                \/ PopSwap(c))
    <3>1. UNCHANGED <<unlinked, pinned>>
      BY Zenon, <2>4 DEF Action, Step, Push, PushLoad, PushAdd, PushIsTail, PushNext, PushHelp,
         PushLink, PushStore, Pop, PopLoad, PopHeadIndex, PopTailIndex, PopIsLast, PopAdd,
         PopNext, Revoke, RevokeCas, RevokeErase
    <3> QED
      BY Zenon, <3>1, <2>0
  <2> QED
    BY Zenon, <2>1, <2>2, <2>3, <2>4
<1>6. node' \in [Clients -> Nodes]
  <2>1. CASE PushLoad(c) \/ PopLoad(c)
    BY <2>1, <1>0, <1>b DEF PushLoad, PopLoad
  <2>2. CASE Revoke(c)
    BY <2>2, <1>b DEF Revoke, Types, TypeOK
  <2>3. CASE ~ (PushLoad(c) \/ PopLoad(c) \/ Revoke(c))
    <3>1. UNCHANGED node \/ node' = [node EXCEPT ![c] = 0]
      BY Zenon, <2>3 DEF Action, Step, Push, PushAdd, PushIsTail, PushNext, PushHelp, PushLink,
         PushSwing, PushStore, PushCas, Pop, PopHeadIndex, PopTailIndex, PopIsLast, PopAdd,
         PopNext, PopMove, PopEmpty, PopSwap, PopErase, RevokeCas, RevokeErase, Return
    <3> QED
      BY Zenon, <3>1, <1>0, <1>b
  <2> QED
    BY Zenon, <2>1, <2>2, <2>3
<1>7. ix' \in [Clients -> 0 .. MaxIndex]
  <2> USE <1>0, <1>b DEF Types, TypeOK
  <2>1. CASE PushAdd(c) \/ PopAdd(c) \/ PopHeadIndex(c)
    <3>1. tail_index[node[c]] \in 0 .. MaxIndex /\ head_index[node[c]] \in 0 .. MaxIndex
      BY Zenon
    <3>2. \/ ix' = [ix EXCEPT ![c] = tail_index[node[c]]]
          \/ ix' = [ix EXCEPT ![c] = head_index[node[c]]]
      BY Zenon, <2>1 DEF PushAdd, PopAdd, PopHeadIndex
    <3> QED
      BY Zenon, <3>1, <3>2
  <2>2. CASE Revoke(c)
    BY <2>2, QueueAssumption DEF Revoke, Slots
  <2>3. CASE ~ (PushAdd(c) \/ PopAdd(c) \/ PopHeadIndex(c) \/ Revoke(c))
    <3>1. UNCHANGED ix \/ ix' = [ix EXCEPT ![c] = 0]
      BY Zenon, <2>3 DEF Action, Step, Push, PushLoad, PushIsTail, PushNext, PushHelp, PushLink,
         PushSwing, PushStore, PushCas, Pop, PopLoad, PopTailIndex, PopIsLast,
         PopNext, PopMove, PopEmpty, PopSwap, PopErase, RevokeCas, RevokeErase, Return
    <3> QED
      BY <3>1
  <2> QED
    BY Zenon, <2>1, <2>2, <2>3
<1>8. it' \in [Clients -> Items \cup {Zero}] /\ seen' \in [Clients -> SUBSET Items]
  <2> USE DEF Types, TypeOK
  <2>1. CASE Push(c)
    BY Zenon, <2>1 DEF Push
  <2>2. CASE Pop(c)
    BY Zenon, <2>2 DEF Pop
  <2>3. CASE PopAdd(c)
    BY <2>3 DEF PopAdd, Unsee
  <2>4. CASE PopSwap(c)
    <3>1. data[node[c]][ix[c]] \in Items \cup {Zero, SENTINEL}
      BY <2>4, <1>a, <1>b DEF PopSwap
    <3>2. \/ it' = [it EXCEPT ![c] = Zero] /\ seen' = [seen EXCEPT ![c] = {}]
          \/ /\ data[node[c]][ix[c]] \in Items
             /\ it' = [it EXCEPT ![c] = data[node[c]][ix[c]]]
             /\ UNCHANGED seen
      BY Zenon, <2>4, <3>1 DEF PopSwap, Return
    <3> QED
      BY Zenon, <3>2
  <2>5. CASE Revoke(c)
    BY <2>5 DEF Revoke
  <2>6. CASE RevokeCas(c)
    BY <2>6 DEF RevokeCas, Unsee
  <2>7. CASE ~ (Push(c) \/ Pop(c) \/ PopAdd(c) \/ PopSwap(c) \/ Revoke(c) \/ RevokeCas(c))
    <3>1. /\ UNCHANGED it \/ it' = [it EXCEPT ![c] = Zero]
          /\ UNCHANGED seen \/ seen' = [seen EXCEPT ![c] = {}]
      BY Zenon, <2>7 DEF Action, Step, PushLoad, PushAdd, PushIsTail, PushNext, PushHelp, PushLink,
         PushSwing, PushStore, PushCas, PopLoad, PopHeadIndex, PopTailIndex, PopIsLast,
         PopNext, PopMove, PopEmpty, PopErase, RevokeErase, Return
    <3> QED
      BY ZenonT(60), <3>1
  <2> QED
    BY Zenon, <2>1, <2>2, <2>3, <2>4, <2>5, <2>6, <2>7
<1> QED
  BY Zenon, <1>1, <1>2, <1>3, <1>4, <1>5, <1>6, <1>7, <1>8, <1>l DEF Types, TypeOK

(* A step of an operation leaves the other clients where they are, with    *)
(* the node, the index and the item they work on and with what they own.   *)
LEMMA Others == ASSUME Types, NEW c \in Clients, Action(c)
                PROVE  \A d \in Clients \ {c} :
                         /\ pc'[d] = pc[d] /\ node'[d] = node[d] /\ ix'[d] = ix[d]
                         /\ it'[d] = it[d] /\ owned'[d] = owned[d]
<1> SUFFICES ASSUME NEW d \in Clients, d # c
             PROVE  /\ pc'[d] = pc[d] /\ node'[d] = node[d] /\ ix'[d] = ix[d]
                    /\ it'[d] = it[d] /\ owned'[d] = owned[d]
  BY Zenon
<1> USE DEF Types, TypeOK, Goto, Load, Stay, Return
<1>1. CASE Push(c) \/ Pop(c) \/ Revoke(c)
  BY ZenonT(30), <1>1 DEF Push, Pop, Revoke
<1>2. CASE PushLoad(c) \/ PushAdd(c) \/ PushIsTail(c) \/ PushNext(c) \/ PushHelp(c)
  BY Zenon, <1>2 DEF PushLoad, PushAdd, PushIsTail, PushNext, PushHelp
<1>3. CASE PushLink(c) \/ PushSwing(c) \/ PushStore(c) \/ PushCas(c)
  BY <1>3 DEF PushLink, PushSwing, PushStore, PushCas
<1>4. CASE PopLoad(c) \/ PopHeadIndex(c) \/ PopTailIndex(c) \/ PopIsLast(c) \/ PopAdd(c)
  BY <1>4 DEF PopLoad, PopHeadIndex, PopTailIndex, PopIsLast, PopAdd
<1>5. CASE PopNext(c) \/ PopMove(c) \/ PopEmpty(c) \/ PopSwap(c) \/ PopErase(c)
  BY <1>5 DEF PopNext, PopMove, PopEmpty, PopSwap, PopErase
<1>6. CASE RevokeCas(c) \/ RevokeErase(c)
  BY ZenonT(30), <1>6 DEF RevokeCas, RevokeErase
<1> QED
  BY Zenon, <1>1, <1>2, <1>3, <1>4, <1>5, <1>6 DEF Action, Step

(* The list only grows, its head only moves on and the counters of a node  *)
(* only go up: fetch_add is the only access that changes them.             *)
LEMMA Grows == ASSUME Types, Control, Shape, NEW c \in Clients, Action(c)
               PROVE  /\ linked <= linked' /\ head <= head'
                      /\ \A k \in Nodes : /\ head_index[k] <= head_index'[k]
                                          /\ tail_index[k] <= tail_index'[k]
<1> USE DEF Types, TypeOK, list
<1>0. linked \in Nat /\ head \in Nat /\ Nodes \subseteq Nat /\ node[c] \in Nodes
      /\ node[c] \in Nat
      /\ \A k \in Nodes : head_index[k] \in Nat /\ tail_index[k] \in Nat
  BY QueueAssumption DEF Nodes
<1>1. CASE PushAdd(c) \/ PopAdd(c)
  BY <1>1, <1>0 DEF PushAdd, PopAdd
<1>2. CASE PushLink(c)
  <2>1. \/ UNCHANGED list
        \/ /\ linked' = linked + 1 /\ UNCHANGED <<head, head_index>>
           /\ node[c] + 1 \in Nodes /\ node[c] + 1 >= linked
           /\ tail_index' = [tail_index EXCEPT ![node[c] + 1] = 1]
    <3>1. CASE node[c] + 1 < linked
      BY Zenon, <1>2, <3>1 DEF PushLink
    <3>2. CASE ~ (node[c] + 1 < linked)
      BY <1>2, <3>2, <1>0 DEF PushLink
    <3> QED
      BY Zenon, <3>1, <3>2
  <2>2. node[c] + 1 \in Nodes /\ node[c] + 1 >= linked => tail_index[node[c] + 1] = 0
    BY Zenon DEF Shape
  <2>3. ASSUME NEW k \in Nodes PROVE tail_index[k] <= tail_index'[k]
    BY <2>1, <2>2, <1>0
  <2>4. linked <= linked' /\ UNCHANGED <<head, head_index>>
    BY <2>1, <1>0
  <2> QED
    BY <2>3, <2>4, <1>0
<1>3. CASE PopMove(c)
  BY <1>3, <1>0 DEF PopMove
<1>4. CASE ~ (PushAdd(c) \/ PopAdd(c) \/ PushLink(c) \/ PopMove(c))
  <2>1. UNCHANGED <<linked, head, head_index, tail_index>>
    BY Zenon, <1>4 DEF Action, Step, Push, PushLoad, PushIsTail, PushNext, PushHelp, PushSwing,
       SwingTail, PushStore, PushCas, Pop, PopLoad, PopHeadIndex, PopTailIndex, PopIsLast,
       PopNext, PopEmpty, PopSwap, PopErase, Revoke, RevokeCas, RevokeErase, Stay
  <2> QED
    BY <2>1, <1>0
<1> QED
  BY Zenon, <1>1, <1>2, <1>3, <1>4

-----------------------------------------------------------------------------
(* Every step of a client keeps what its place in the operation says about *)
(* its locals, and the counters stay ahead of the indices that it and the  *)
(* other clients hold.                                                     *)
LEMMA LocalsStep ==
    ASSUME Types, Control, Indices, Shape, Types', NEW c \in Clients, Action(c)
    PROVE  Control' /\ Indices'
<1>1. Control'
  <2>a. /\ linked \in Nat /\ linked' \in Nat /\ Nodes \subseteq Nat
        /\ node \in [Clients -> Nodes] /\ linked >= 1
    BY QueueAssumption DEF Types, TypeOK, Nodes
  <2>b. linked <= linked'
    BY Zenon, Grows
  <2>0. /\ linked \in Nat /\ linked' \in Nat /\ linked <= linked' /\ Nodes \subseteq Nat
        /\ node \in [Clients -> Nodes] /\ linked >= 1
    BY Zenon, <2>a, <2>b
  <2>1. ASSUME NEW d \in Clients, d # c PROVE ControlOf(d)'
    <3>1. /\ pc'[d] = pc[d] /\ node'[d] = node[d] /\ ix'[d] = ix[d]
          /\ it'[d] = it[d] /\ owned'[d] = owned[d]
      BY Zenon, <2>1, Others
    <3>2. ControlOf(d) /\ node[d] \in Nat
      BY Zenon, <2>0 DEF Control
    <3> QED
      BY <3>1, <3>2, <2>0 DEF ControlOf
  <2>2. ControlOf(c)'
    <3>0. ControlOf(c) /\ node[c] \in Nat
      BY Zenon, <2>0 DEF Control
    <3> USE <2>0, <3>0 DEF ControlOf, Types, TypeOK, Goto, Load, Stay, Return, list,
        Pushing, Popping
    <3>1. CASE Push(c) \/ Pop(c)
      BY <3>1 DEF Push, Pop
    <3>2. CASE PushLoad(c) \/ PopLoad(c)
      BY <3>2 DEF PushLoad, PopLoad
    <3>3. CASE PushAdd(c)
      BY <3>3, QueueAssumption DEF PushAdd, Slots
    <3>4. CASE PushIsTail(c) \/ PushNext(c) \/ PushHelp(c) \/ PushStore(c)
      BY <3>4 DEF PushIsTail, PushNext, PushHelp, SwingTail, PushStore
    <3>5. CASE PushLink(c)
      BY <3>5 DEF PushLink
    <3>6. CASE PushSwing(c) \/ PushCas(c) \/ PopEmpty(c) \/ PopErase(c)
      BY <3>6 DEF PushSwing, SwingTail, PushCas, PopEmpty, PopErase
    <3>7. CASE PopHeadIndex(c) \/ PopTailIndex(c) \/ PopIsLast(c) \/ PopNext(c) \/ PopMove(c)
      BY <3>7 DEF PopHeadIndex, PopTailIndex, PopIsLast, PopNext, PopMove
    <3>8. CASE PopAdd(c)
      BY SMTT(30), <3>8, QueueAssumption DEF PopAdd, Slots
    <3>9. CASE PopSwap(c)
      BY <3>9 DEF PopSwap
    <3>10. CASE Revoke(c)
      BY <3>10 DEF Revoke, Shape
    <3>11. CASE RevokeCas(c) \/ RevokeErase(c)
      BY <3>11 DEF RevokeCas, RevokeErase
    <3> QED
      BY Zenon, <3>1, <3>2, <3>3, <3>4, <3>5, <3>6, <3>7, <3>8, <3>9, <3>10, <3>11 DEF Action, Step
  <2> QED
    BY Zenon, <2>1, <2>2 DEF Control
<1>2. Indices'
  <2>0. /\ linked \in Nat /\ linked' \in Nat /\ Nodes \subseteq Nat /\ SegSize \in Nat
        /\ node \in [Clients -> Nodes] /\ head \in Nat /\ head' \in Nat /\ head <= head'
        /\ ix \in [Clients -> Nat]
        /\ \A k \in Nodes : /\ head_index[k] \in Nat /\ tail_index[k] \in Nat
                            /\ head_index'[k] \in Nat /\ tail_index'[k] \in Nat
                            /\ head_index[k] <= head_index'[k] /\ tail_index[k] <= tail_index'[k]
    <3>1. /\ linked \in Nat /\ linked' \in Nat /\ Nodes \subseteq Nat /\ SegSize \in Nat
          /\ node \in [Clients -> Nodes] /\ head \in Nat /\ head' \in Nat
      BY QueueAssumption DEF Types, TypeOK, Nodes
    <3>3. ix \in [Clients -> Nat]
      <4>1. ix \in [Clients -> 0 .. MaxIndex] /\ 0 .. MaxIndex \subseteq Nat
        BY QueueAssumption DEF Types, TypeOK
      <4> QED
        BY Zenon, <4>1
    <3>2. \A k \in Nodes : /\ head_index[k] \in Nat /\ tail_index[k] \in Nat
                           /\ head_index'[k] \in Nat /\ tail_index'[k] \in Nat
      BY SMTT(30), QueueAssumption DEF Types, TypeOK
    <3> QED
      BY Zenon, <3>1, <3>2, <3>3, Grows
  <2>1. ASSUME NEW d \in Clients, d # c PROVE IndicesOf(d)'
    <3>1. node[d] \in Nodes /\ IndicesOf(d) /\ ix[d] \in Nat /\ node[d] \in Nat
      BY Zenon, <2>0 DEF Indices
    <3>2. pc'[d] = pc[d] /\ node'[d] = node[d] /\ ix'[d] = ix[d]
      BY Zenon, <2>1, Others
    <3> QED
      BY <2>0, <3>1, <3>2 DEF IndicesOf
  <2>2. IndicesOf(c)'
    <3>0. IndicesOf(c) /\ node[c] \in Nodes /\ node[c] \in Nat /\ ix[c] \in Nat
      BY Zenon, <2>0 DEF Indices
    <3> USE <2>0, <3>0 DEF IndicesOf, Types, TypeOK, Goto, Load, Stay, Return, list, Popping
    <3>1. CASE Push(c) \/ Pop(c) \/ Revoke(c)
      BY <3>1 DEF Push, Pop, Revoke
    <3>2. CASE PushLoad(c) \/ PopLoad(c)
      BY <3>2 DEF PushLoad, PopLoad
    <3>3. CASE PushAdd(c)
      BY <3>3, QueueAssumption DEF PushAdd
    <3>4. CASE PushIsTail(c) \/ PushNext(c) \/ PushHelp(c) \/ PushStore(c)
      BY <3>4 DEF PushIsTail, PushNext, PushHelp, SwingTail, PushStore
    <3>5. CASE PushLink(c)
      BY <3>5 DEF PushLink
    <3>6. CASE PushSwing(c) \/ PushCas(c) \/ PopEmpty(c) \/ PopErase(c)
      BY <3>6 DEF PushSwing, SwingTail, PushCas, PopEmpty, PopErase
    <3>7. CASE PopHeadIndex(c) \/ PopTailIndex(c) \/ PopIsLast(c) \/ PopNext(c) \/ PopMove(c)
      BY <3>7 DEF PopHeadIndex, PopTailIndex, PopIsLast, PopNext, PopMove
    <3>8. CASE PopAdd(c)
      BY <3>8, QueueAssumption DEF PopAdd
    <3>9. CASE PopSwap(c)
      BY <3>9 DEF PopSwap
    <3>10. CASE RevokeCas(c) \/ RevokeErase(c)
      BY <3>10 DEF RevokeCas, RevokeErase
    <3> QED
      BY Zenon, <3>1, <3>2, <3>3, <3>4, <3>5, <3>6, <3>7, <3>8, <3>9, <3>10 DEF Action, Step
  <2> QED
    BY Zenon, <2>1, <2>2 DEF Indices
<1> QED
  BY Zenon, <1>1, <1>2

-----------------------------------------------------------------------------
(* What steps do to the cells: a push puts its item into an empty cell ... *)
Store(k, j, v) ==
    \A l \in Nodes, i \in Slots : data'[l][i] = IF l = k /\ i = j THEN v ELSE data[l][i]

Put(c, k, j) ==
    /\ data[k][j] = Zero
    /\ it[c] \in Items /\ it[c] \in owned[c]
    /\ Store(k, j, it[c])
    /\ owned' = [owned EXCEPT ![c] = @ \ {it[c]}]
    /\ k < linked' /\ j < tail_index'[k]
    /\ UNCHANGED <<head, head_index>>
    /\ \/ pc[c] = "push_cas" /\ k = node[c] /\ j = ix[c]
       \/ pc[c] = "push_link" /\ k >= linked

(* ... and a pop or a revoke swaps the sentinel in.                        *)
Take(c, k, j) ==
    /\ k = node[c] /\ j = ix[c]
    /\ Store(k, j, SENTINEL)
    /\ owned' = IF data[k][j] \in Items THEN [owned EXCEPT ![c] = @ \cup {data[k][j]}] ELSE owned
    /\ UNCHANGED <<linked, head, head_index, tail_index>>
    /\ \/ pc[c] = "pop_swap"
       \/ pc[c] = "revoke_cas" /\ data[k][j] = it[c] /\ Unsee(it[c])

(* A step leaves the cells and the owners alone, or is one of the two.     *)
LEMMA Cell == ASSUME Types, Control, Indices, Shape, NEW c \in Clients, Action(c)
              PROVE  \/ UNCHANGED <<data, owned>>
                     \/ \E k \in Nodes, j \in Slots : Put(c, k, j) \/ Take(c, k, j)
<1> USE DEF list
<1>0. /\ linked \in Nat /\ Nodes \subseteq Nat /\ SegSize \in Nat /\ 0 \in Slots
      /\ node[c] \in Nodes /\ node[c] \in Nat /\ ControlOf(c) /\ IndicesOf(c)
      /\ Items \cap {Zero, SENTINEL} = {}
  BY QueueAssumption DEF Types, TypeOK, Nodes, Slots, Control, Indices
<1>1. ASSUME NEW k \in Nodes, NEW j \in Slots, NEW v,
             data' = [data EXCEPT ![k][j] = v]
      PROVE  Store(k, j, v)
  BY Zenon, <1>1 DEF Store, Types, TypeOK
<1>2. CASE PushCas(c)
  <2>1. /\ pc[c] = "push_cas" /\ it[c] \in owned[c] /\ ix[c] \in Slots
        /\ ix[c] < tail_index[node[c]] /\ it[c] \in Items
        /\ UNCHANGED <<linked, head, head_index, tail_index>>
    BY Zenon, <1>2, <1>0 DEF PushCas, ControlOf, IndicesOf, Pushing, Types, TypeOK
  <2>2. CASE data[node[c]][ix[c]] = Zero
    <3>1. /\ data' = [data EXCEPT ![node[c]][ix[c]] = it[c]]
          /\ owned' = [owned EXCEPT ![c] = @ \ {it[c]}]
      BY Zenon, <1>2, <2>2 DEF PushCas
    <3>2. Put(c, node[c], ix[c])
      BY Zenon, <1>0, <1>1, <2>1, <2>2, <3>1 DEF Put, ControlOf
    <3> QED
      BY Zenon, <3>2, <2>1, <1>0
  <2> QED
    BY Zenon, <1>2, <2>2 DEF PushCas
<1>3. CASE PushLink(c)
  <2>1. pc[c] = "push_link" /\ it[c] \in owned[c] /\ it[c] \in Items
    BY Zenon, <1>3, <1>0 DEF PushLink, ControlOf, Pushing, Types, TypeOK
  <2>2. CASE ~ (node[c] + 1 < linked)
    <3> DEFINE k == node[c] + 1
    <3>1. /\ k \in Nodes /\ linked' = linked + 1
          /\ tail_index' = [tail_index EXCEPT ![k] = 1]
          /\ data' = [data EXCEPT ![k][0] = it[c]]
          /\ owned' = [owned EXCEPT ![c] = @ \ {it[c]}]
          /\ UNCHANGED <<head, head_index>>
      BY Zenon, <1>3, <2>2 DEF PushLink
    <3>2. tail_index'[k] = 1 /\ k >= linked /\ k < linked'
      BY <3>1, <2>2, <1>0 DEF ControlOf, Types, TypeOK
    <3>3. Store(k, 0, it[c]) /\ data[k][0] = Zero
      BY Zenon, <3>1, <3>2, <1>0, <1>1 DEF Shape
    <3>4. Put(c, k, 0)
      BY <2>1, <3>1, <3>2, <3>3 DEF Put
    <3> HIDE DEF k
    <3> QED
      BY Zenon, <3>1, <3>4, <1>0
  <2> QED
    BY Zenon, <1>3, <2>2 DEF PushLink
<1>4. CASE PopSwap(c)
  <2>1. /\ pc[c] = "pop_swap" /\ ix[c] \in Slots
        /\ data' = [data EXCEPT ![node[c]][ix[c]] = SENTINEL]
        /\ UNCHANGED <<linked, head, head_index, tail_index>>
    BY Zenon, <1>4, <1>0 DEF PopSwap, ControlOf
  <2>2. data[node[c]][ix[c]] \in Items \cup {Zero, SENTINEL}
    BY <2>1, <1>0 DEF Types, TypeOK
  <2>3. owned' = IF data[node[c]][ix[c]] \in Items
                 THEN [owned EXCEPT ![c] = @ \cup {data[node[c]][ix[c]]}] ELSE owned
    BY Zenon, <1>4, <2>2, <1>0 DEF PopSwap
  <2>4. Take(c, node[c], ix[c])
    BY Zenon, <2>1, <2>3, <1>0, <1>1 DEF Take
  <2> QED
    BY Zenon, <2>1, <2>4, <1>0
<1>5. CASE RevokeCas(c)
  <2>1. /\ pc[c] = "revoke_cas" /\ ix[c] \in Slots /\ it[c] \in Items
        /\ UNCHANGED <<linked, head, head_index, tail_index>>
    BY Zenon, <1>5, <1>0 DEF RevokeCas, ControlOf
  <2>2. CASE data[node[c]][ix[c]] = it[c]
    <3>1. /\ data' = [data EXCEPT ![node[c]][ix[c]] = SENTINEL]
          /\ owned' = [owned EXCEPT ![c] = @ \cup {it[c]}]
          /\ Unsee(it[c])
      BY Zenon, <1>5, <2>2 DEF RevokeCas
    <3>2. Take(c, node[c], ix[c])
      BY Zenon, <2>1, <2>2, <3>1, <1>0, <1>1 DEF Take
    <3> QED
      BY Zenon, <2>1, <3>2, <1>0
  <2> QED
    BY Zenon, <1>5, <2>2 DEF RevokeCas
<1>6. CASE ~ (PushCas(c) \/ PushLink(c) \/ PopSwap(c) \/ RevokeCas(c))
  BY Zenon, <1>6 DEF Action, Step, Push, PushLoad, PushAdd, PushIsTail, PushNext, PushHelp,
     PushSwing, SwingTail, PushStore, Pop, PopLoad, PopHeadIndex, PopTailIndex, PopIsLast,
     PopAdd, PopNext, PopMove, PopEmpty, PopErase, Revoke, RevokeErase, Stay
<1> QED
  BY Zenon, <1>2, <1>3, <1>4, <1>5, <1>6

(* An item stays in one place: only its owner puts it into a cell, and     *)
(* whoever swaps the sentinel in becomes its owner.                        *)
LEMMA InOnePlaceStep ==
    ASSUME Types, Control, Indices, Shape, InOnePlace, NEW c \in Clients, Action(c)
    PROVE  InOnePlace'
<1> USE QueueAssumption DEF Types, TypeOK
<1>1. CASE UNCHANGED <<data, owned>>
  BY <1>1 DEF InOnePlace, InData
<1>2. ASSUME NEW k \in Nodes, NEW j \in Slots, Put(c, k, j) PROVE InOnePlace'
  <2>1. \A v \in Items : \A d, e \in Clients : v \in owned'[d] /\ v \in owned'[e] => d = e
    BY ZenonT(30), <1>2 DEF InOnePlace, Put
  <2>2. \A d \in Clients : \A v \in owned'[d] : v \in Items /\ v # it[c] /\ v \in owned[d]
    BY <1>2 DEF InOnePlace, Put
  <2>3. \A l \in Nodes, i \in Slots : data'[l][i] = IF l = k /\ i = j THEN it[c] ELSE data[l][i]
    BY Zenon, <1>2 DEF Put, Store
  <2>4. \A d \in Clients : \A v \in owned'[d] : ~ InData(v)'
    BY <2>2, <2>3 DEF InOnePlace, InData
  <2>5. \A l \in Nodes, i \in Slots : data[l][i] # it[c]
    BY Zenon, <1>2 DEF InOnePlace, InData, Put
  <2>6. \A l, m \in Nodes, i, h \in Slots :
          data'[l][i] \in Items /\ data'[l][i] = data'[m][h] => l = m /\ i = h
    <3> SUFFICES ASSUME NEW l \in Nodes, NEW m \in Nodes, NEW i \in Slots, NEW h \in Slots,
                        data'[l][i] \in Items, data'[l][i] = data'[m][h]
                 PROVE  l = m /\ i = h
      BY Zenon
    <3>1. (l = k /\ i = j) <=> (m = k /\ h = j)
      BY <2>3, <2>5
    <3>2. CASE ~ (l = k /\ i = j)
      BY SMTT(30), <3>1, <3>2, <2>3 DEF InOnePlace
    <3> QED
      BY Zenon, <3>1, <3>2
  <2> QED
    BY Zenon, <2>1, <2>4, <2>6 DEF InOnePlace
<1>3. ASSUME NEW k \in Nodes, NEW j \in Slots, Take(c, k, j) PROVE InOnePlace'
  <2> DEFINE old == data[k][j]
  <2>1. \A l \in Nodes, i \in Slots : data'[l][i] = IF l = k /\ i = j THEN SENTINEL ELSE data[l][i]
    BY Zenon, <1>3 DEF Take, Store
  <2>2. \A l \in Nodes, i \in Slots : data'[l][i] \in Items => data'[l][i] = data[l][i]
    BY Zenon, <2>1
  <2>3. \A d \in Clients : \A v \in owned'[d] :
          v \in owned[d] \/ (d = c /\ v = old /\ old \in Items)
    BY Zenon, <1>3 DEF Take
  <2>4. old \in Items => /\ \A d \in Clients : old \notin owned[d]
                         /\ \A l \in Nodes, i \in Slots : data'[l][i] # old
    <3> SUFFICES ASSUME old \in Items
                 PROVE  /\ \A d \in Clients : old \notin owned[d]
                        /\ \A l \in Nodes, i \in Slots : data'[l][i] # old
      BY Zenon
    <3>1. \A d \in Clients : old \notin owned[d]
      BY DEF InOnePlace, InData
    <3>2. ASSUME NEW l \in Nodes, NEW i \in Slots, data'[l][i] = old PROVE FALSE
      <4>1. data[l][i] = data[k][j] /\ data[k][j] \in Items
        BY Zenon, <3>2, <2>2
      <4>2. l = k /\ i = j
        BY <4>1 DEF InOnePlace
      <4> QED
        BY <3>2, <4>2, <2>1
    <3> QED
      BY Zenon, <3>1, <3>2
  <2>5. \A d \in Clients : \A v \in owned'[d] : ~ InData(v)'
    BY <2>2, <2>3, <2>4 DEF InOnePlace, InData
  <2> QED
    BY <2>2, <2>1, <2>3, <2>4, <2>5 DEF InOnePlace
<1> QED
  BY Zenon, <1>1, <1>2, <1>3, Cell

(* The list keeps its shape: only a full tail gets a successor, and the    *)
(* head leaves only a node whose indices are all given out.                *)
LEMMA ShapeStep ==
    ASSUME Types, Control, Indices, Shape, Types', NEW c \in Clients, Action(c) PROVE Shape'
<1>a. /\ linked \in Nat /\ linked' \in Nat /\ Nodes \subseteq Nat /\ SegSize \in Nat
      /\ Slots \subseteq Nat /\ head \in Nat /\ head' \in Nat
      /\ node[c] \in Nodes /\ node[c] \in Nat /\ ControlOf(c) /\ IndicesOf(c)
  BY QueueAssumption DEF Types, TypeOK, Nodes, Slots, Control, Indices
<1>b. \A k \in Nodes : /\ head_index[k] \in Nat /\ tail_index[k] \in Nat
                       /\ head_index'[k] \in Nat /\ tail_index'[k] \in Nat
  BY QueueAssumption DEF Types, TypeOK
<1>c. /\ linked <= linked' /\ head <= head'
      /\ \A k \in Nodes : head_index[k] <= head_index'[k] /\ tail_index[k] <= tail_index'[k]
  BY Zenon, Grows
<1>d. SENTINEL \notin Items
  BY Zenon, QueueAssumption
<1>e. (\A k \in Nodes : k \in Nat) /\ (\A j \in Slots : j \in Nat)
  BY Zenon, <1>a
<1> USE <1>a, <1>b, <1>c, <1>e DEF list
<1>1. ASSUME NEW v \in Items, handle'[v] # NoCell PROVE handle'[v][1] < linked'
  <2>1. \/ handle'[v] = handle[v] \/ handle'[v] = NoCell
        \/ handle'[v] = <<node[c], ix[c]>>
    <3>1. CASE PushStore(c)
      BY Zenon, <3>1 DEF PushStore, Types, TypeOK
    <3>2. CASE PopErase(c) \/ RevokeErase(c)
      BY Zenon, <3>2 DEF PopErase, RevokeErase, Types, TypeOK
    <3>3. CASE ~ (PushStore(c) \/ PopErase(c) \/ RevokeErase(c))
      BY Zenon, <3>3 DEF Action, Step, Push, PushLoad, PushAdd, PushIsTail, PushNext, PushHelp,
         PushLink, PushSwing, PushCas, Pop, PopLoad, PopHeadIndex, PopTailIndex, PopIsLast,
         PopAdd, PopNext, PopMove, PopEmpty, PopSwap, Revoke, RevokeCas
    <3> QED
      BY Zenon, <3>1, <3>2, <3>3
  <2>2. CASE handle'[v] = handle[v]
    <3>1. handle[v] \in Nodes \X Slots /\ handle[v][1] < linked
      BY Zenon, <1>1, <2>2 DEF Shape, Types, TypeOK
    <3>2. handle[v][1] \in Nat
      BY Zenon, <3>1
    <3> QED
      BY <2>2, <3>1, <3>2
  <2> QED
    BY <2>1, <2>2, <1>1 DEF ControlOf
<1>2. ASSUME NEW k \in Nodes, k >= linked'
      PROVE  tail_index'[k] = 0 /\ \A j \in Slots : data'[k][j] = Zero
  <2>1. k \in Nat /\ k >= linked /\ k # node[c] /\ tail_index[k] = 0
        /\ \A j \in Slots : data[k][j] = Zero
    <3>1. k \in Nat /\ k >= linked
      BY <1>2
    <3>2. node[c] < linked
      BY Zenon DEF ControlOf
    <3>3. tail_index[k] = 0 /\ \A j \in Slots : data[k][j] = Zero
      BY Zenon, <3>1 DEF Shape
    <3> QED
      BY <3>1, <3>2, <3>3
  <2>2. tail_index'[k] = tail_index[k]
    <3>1. CASE PushAdd(c)
      BY Zenon, <3>1, <2>1 DEF PushAdd, Types, TypeOK
    <3>2. CASE PushLink(c)
      <4>1. CASE ~ (node[c] + 1 < linked)
        <5>1. /\ linked' = linked + 1 /\ node[c] + 1 \in Nodes
              /\ tail_index' = [tail_index EXCEPT ![node[c] + 1] = 1]
          BY Zenon, <3>2, <4>1 DEF PushLink
        <5>2. k # node[c] + 1
          BY <5>1, <1>2 DEF ControlOf
        <5> QED
          BY Zenon, <5>1, <5>2 DEF Types, TypeOK
      <4> QED
        BY Zenon, <3>2, <4>1 DEF PushLink
    <3>3. CASE ~ (PushAdd(c) \/ PushLink(c))
      BY Zenon, <3>3 DEF Action, Step, Push, PushLoad, PushIsTail, PushNext, PushHelp, PushSwing,
         SwingTail, PushStore, PushCas, Pop, PopLoad, PopHeadIndex, PopTailIndex, PopIsLast,
         PopAdd, PopNext, PopMove, PopEmpty, PopSwap, PopErase, Revoke, RevokeCas,
         RevokeErase
    <3> QED
      BY Zenon, <3>1, <3>2, <3>3
  <2>3. ASSUME NEW j \in Slots PROVE data'[k][j] = Zero
    <3>1. CASE UNCHANGED <<data, owned>>
      BY Zenon, <3>1, <2>1
    <3>2. ASSUME NEW l \in Nodes, NEW i \in Slots, Put(c, l, i) PROVE data'[k][j] = Zero
      BY <3>2, <2>1, <1>2 DEF Put, Store
    <3>3. ASSUME NEW l \in Nodes, NEW i \in Slots, Take(c, l, i) PROVE data'[k][j] = Zero
      BY Zenon, <3>3, <2>1 DEF Take, Store
    <3> QED
      BY Zenon, <3>1, <3>2, <3>3, Cell
  <2> QED
    BY Zenon, <2>1, <2>2, <2>3
<1>3. ASSUME NEW k \in Nodes, k + 1 < linked' PROVE tail_index'[k] >= SegSize
  <2>1. CASE k + 1 < linked
    <3>1. tail_index[k] >= SegSize
      BY Zenon, <2>1 DEF Shape
    <3>2. /\ tail_index[k] \in Nat /\ tail_index'[k] \in Nat /\ SegSize \in Nat
          /\ tail_index[k] <= tail_index'[k]
      BY ZenonT(30)
    <3> QED
      BY ONLY <3>1, <3>2
  <2>2. CASE ~ (k + 1 < linked)
    <3>1. linked' # linked
      BY Zenon, <1>3, <2>2
    <3>2. PushLink(c)
      BY Zenon, <3>1 DEF Action, Step, Push, PushLoad, PushAdd, PushIsTail, PushNext, PushHelp,
         PushSwing, SwingTail, PushStore, PushCas, Pop, PopLoad, PopHeadIndex, PopTailIndex,
         PopIsLast, PopAdd, PopNext, PopMove, PopEmpty, PopSwap, PopErase, Revoke,
         RevokeCas, RevokeErase
    <3>3. /\ pc[c] = "push_link" /\ linked' = linked + 1 /\ ~ (node[c] + 1 < linked)
      BY Zenon, <3>1, <3>2 DEF PushLink
    <3>4. k = node[c]
      <4>1. /\ k \in Nat /\ node[c] \in Nat /\ linked \in Nat /\ node[c] < linked
            /\ k + 1 < linked + 1 /\ ~ (k + 1 < linked) /\ ~ (node[c] + 1 < linked)
        BY Zenon, <1>3, <2>2, <3>3 DEF ControlOf
      <4> QED
        BY ONLY <4>1
    <3> QED
      BY <3>3, <3>4 DEF IndicesOf
  <2> QED
    BY Zenon, <2>1, <2>2
<1>4. ASSUME NEW k \in Nodes, k < head' PROVE head_index'[k] >= SegSize
  <2>1. CASE k < head
    <3>1. head_index[k] >= SegSize
      BY Zenon, <2>1 DEF Shape
    <3>2. /\ head_index[k] \in Nat /\ head_index'[k] \in Nat /\ SegSize \in Nat
          /\ head_index[k] <= head_index'[k]
      BY Zenon
    <3> QED
      BY ONLY <3>1, <3>2
  <2>2. CASE ~ (k < head)
    <3>1. head' # head
      BY Zenon, <1>4, <2>2
    <3>2. PopMove(c)
      BY Zenon, <3>1 DEF Action, Step, Push, PushLoad, PushAdd, PushIsTail, PushNext, PushHelp,
         PushLink, PushSwing, SwingTail, PushStore, PushCas, Pop, PopLoad, PopHeadIndex,
         PopTailIndex, PopIsLast, PopAdd, PopNext, PopEmpty, PopSwap, PopErase, Revoke,
         RevokeCas, RevokeErase
    <3>3. pc[c] = "pop_move" /\ head = node[c] /\ head' = node[c] + 1
      BY Zenon, <3>1, <3>2 DEF PopMove
    <3>4. k = node[c]
      <4>1. k < node[c] + 1 /\ ~ (k < node[c])
        BY Zenon, <1>4, <2>2, <3>3
      <4> QED
        BY <4>1
    <3> QED
      BY <3>3, <3>4 DEF IndicesOf
  <2> QED
    BY Zenon, <2>1, <2>2
<1>5. ASSUME NEW k \in Nodes, NEW j \in Slots, data'[k][j] \in Items PROVE j < tail_index'[k]
  <2>0. data[k][j] \in Items => j < tail_index'[k]
    <3>1. data[k][j] \in Items => j < tail_index[k]
      BY Zenon DEF Shape
    <3>2. /\ j \in Nat /\ tail_index[k] \in Nat /\ tail_index'[k] \in Nat
          /\ tail_index[k] <= tail_index'[k]
      BY Zenon
    <3> QED
      BY ONLY <3>1, <3>2
  <2>1. CASE UNCHANGED <<data, owned>>
    BY Zenon, <1>5, <2>0, <2>1
  <2>2. ASSUME NEW l \in Nodes, NEW i \in Slots, Put(c, l, i) PROVE j < tail_index'[k]
    BY Zenon, <1>5, <2>0, <2>2 DEF Put, Store
  <2>3. ASSUME NEW l \in Nodes, NEW i \in Slots, Take(c, l, i) PROVE j < tail_index'[k]
    BY ZenonT(30), <1>5, <2>0, <2>3, <1>d DEF Take, Store
  <2> QED
    BY Zenon, <2>1, <2>2, <2>3, Cell
<1> QED
  BY Zenon, <1>1, <1>2, <1>3, <1>4, <1>5 DEF Shape

(* Every step keeps what the cells behind the head index say: a cell that  *)
(* is not spoilt has a pop on its way to it.  And a pop in a node that the *)
(* head has left keeps the node's unlinking waiting (crossbeam-epoch's     *)
(* guards).                                                                *)
LEMMA CellsStep ==
    ASSUME Types, Control, Indices, Shape, Given, Guards, Types', NEW c \in Clients, Action(c)
    PROVE  Given' /\ Guards'
<1>1. Given'
  <2> SUFFICES ASSUME NEW k \in Nodes, NEW j \in Slots, data'[k][j] # SENTINEL
               PROVE  j >= head_index'[k] \/ Taken(k, j)'
    BY Zenon DEF Given
  <2>a. /\ SegSize \in Nat /\ j \in Nat /\ j < SegSize /\ head_index[k] \in Nat
        /\ node[c] \in Nodes /\ Zero # SENTINEL
    BY QueueAssumption DEF Types, TypeOK, Slots, Zero, SENTINEL
  <2>1. data[k][j] # SENTINEL
    <3>1. ASSUME NEW l \in Nodes, NEW i \in Slots, Put(c, l, i) PROVE data[k][j] # SENTINEL
      BY Zenon, <3>1, <2>a DEF Put, Store
    <3>2. ASSUME NEW l \in Nodes, NEW i \in Slots, Take(c, l, i) PROVE data[k][j] # SENTINEL
      BY Zenon, <3>2 DEF Take, Store
    <3> QED
      BY Zenon, <3>1, <3>2, Cell
  <2>2. CASE Taken(k, j)
    <3>1. PICK d \in Clients : pc[d] = "pop_swap" /\ node[d] = k /\ ix[d] = j
      BY Zenon, <2>2 DEF Taken
    <3>2. CASE d = c
      <4>1. PopSwap(c)
        BY Zenon, <3>1, <3>2 DEF Action, Step, Push, PushLoad, PushAdd, PushIsTail, PushNext, PushHelp,
           PushLink, PushSwing, PushStore, PushCas, Pop, PopLoad, PopHeadIndex, PopTailIndex,
           PopIsLast, PopAdd, PopNext, PopMove, PopEmpty, PopErase, Revoke, RevokeCas,
           RevokeErase
      <4>2. data' = [data EXCEPT ![k][j] = SENTINEL]
        BY Zenon, <4>1, <3>1, <3>2 DEF PopSwap
      <4>3. data'[k][j] = SENTINEL
        BY ZenonT(30), <4>2 DEF Types, TypeOK
      <4> QED
        BY Zenon, <4>3
    <3>3. CASE d # c
      <4>1. pc'[d] = pc[d] /\ node'[d] = node[d] /\ ix'[d] = ix[d]
        BY Zenon, <3>3, Others
      <4> QED
        BY Zenon, <3>1, <4>1 DEF Taken
    <3> QED
      BY Zenon, <3>2, <3>3
  <2>3. CASE j >= head_index[k]
    <3>1. CASE PopAdd(c)
      <4>1. CASE node[c] = k
        <5>1. /\ head_index' = [head_index EXCEPT ![k] = @ + 1]
              /\ ix' = [ix EXCEPT ![c] = head_index[k]] /\ UNCHANGED node
              /\ head_index[k] < SegSize => pc' = [pc EXCEPT ![c] = "pop_swap"]
          BY Zenon, <3>1, <4>1 DEF PopAdd, Goto
        <5>2. head_index'[k] = head_index[k] + 1 /\ ix'[c] = head_index[k] /\ node'[c] = k
          BY Zenon, <5>1, <4>1 DEF Types, TypeOK
        <5>3. CASE j = head_index[k]
          <6>1. pc'[c] = "pop_swap"
            BY Zenon, <5>1, <5>3, <2>a DEF Types
          <6> QED
            BY Zenon, <5>2, <5>3, <6>1 DEF Taken
        <5>4. CASE j # head_index[k]
          BY <5>2, <5>4, <2>3, <2>a
        <5> QED
          BY Zenon, <5>3, <5>4
      <4>2. CASE node[c] # k
        <5>1. head_index'[k] = head_index[k]
          BY Zenon, <3>1, <4>2 DEF PopAdd, Types, TypeOK
        <5> QED
          BY Zenon, <5>1, <2>3
      <4> QED
        BY Zenon, <4>1, <4>2
    <3>2. CASE ~ PopAdd(c)
      <4>1. UNCHANGED head_index
        BY Zenon, <3>2 DEF Action, Step, Push, PushLoad, PushAdd, PushIsTail, PushNext, PushHelp,
           PushLink, PushSwing, SwingTail, PushStore, PushCas, Pop, PopLoad, PopHeadIndex,
           PopTailIndex, PopIsLast, PopNext, PopMove, PopEmpty, PopSwap, PopErase, Revoke,
           RevokeCas, RevokeErase, list
      <4> QED
        BY Zenon, <4>1, <2>3
    <3> QED
      BY Zenon, <3>1, <3>2
  <2> QED
    BY Zenon, <2>1, <2>2, <2>3 DEF Given
<1>2. Guards'
  <2> USE DEF Types, TypeOK, Goto, Load, Stay, list, reclaim
  <2>a. /\ head \in Nat /\ Nodes \subseteq Nat /\ (\A k \in Nodes : k \in Nat)
        /\ node[c] \in Nodes /\ unlinked \subseteq Nodes
    BY QueueAssumption DEF Nodes
  <2>1. CASE PopMove(c)
    <3>0. pc' = [pc EXCEPT ![c] = "pop"] /\ UNCHANGED node
      BY Zenon, <2>1 DEF PopMove
    <3>a. \A d \in Clients : pc'[d] \in Popping => pc[d] \in Popping /\ pc[d] \notin Unguarded
      BY Zenon, <3>0 DEF Popping, Unguarded
    <3>1. CASE head = node[c]
      <4>1. /\ head' = node[c] + 1 /\ unlinked' = unlinked \cup {node[c]}
            /\ pinned' = [pinned EXCEPT ![node[c]] = {d \in Clients : pc[d] \notin Unguarded}]
        BY Zenon, <2>1, <3>1 DEF PopMove
      <4>2. \A k \in unlinked' : k < head'
        BY <4>1, <3>1, <2>a DEF Guards
      <4>3. ASSUME NEW d \in Clients, pc'[d] \in Popping, node'[d] \in unlinked'
            PROVE  d \in pinned'[node'[d]]
        <5>1. CASE node[d] = node[c]
          BY Zenon, <5>1, <4>1, <4>3, <3>0, <3>a, <2>a
        <5>2. CASE node[d] # node[c]
          BY Zenon, <5>2, <4>1, <4>3, <3>0, <3>a DEF Guards
        <5> QED
          BY Zenon, <5>1, <5>2
      <4> QED
        BY Zenon, <4>2, <4>3 DEF Guards
    <3>2. CASE head # node[c]
      <4>1. UNCHANGED <<head, unlinked, pinned>>
        BY ZenonT(30), <2>1, <3>2 DEF PopMove
      <4> QED
        BY Zenon, <4>1, <3>0, <3>a DEF Guards
    <3> QED
      BY Zenon, <3>1, <3>2
  <2>2. CASE PopLoad(c)
    BY <2>2, <2>a DEF PopLoad, Guards
  <2>3. CASE PushSwing(c) \/ PushCas(c) \/ PopEmpty(c) \/ PopErase(c)
             \/ (PopSwap(c) /\ Return(c) /\ UNCHANGED unlinked)
    <3>1. Return(c) /\ UNCHANGED <<head, unlinked>>
      BY Zenon, <2>3 DEF PushSwing, SwingTail, PushCas, PopEmpty, PopErase, PopSwap
    <3>2. ASSUME NEW d \in Clients, pc'[d] \in Popping
          PROVE  /\ d # c /\ pc[d] \in Popping /\ node'[d] = node[d]
                 /\ node[d] \in Nodes /\ pinned'[node[d]] = pinned[node[d]] \ {c}
      BY <3>1, <3>2 DEF Return, Popping
    <3> QED
      BY ZenonT(30), <3>1, <3>2 DEF Guards
  <2>4. CASE ~ (PopMove(c) \/ PopLoad(c) \/ PushSwing(c) \/ PushCas(c) \/ PopEmpty(c)
                \/ PopErase(c) \/ (PopSwap(c) /\ Return(c) /\ UNCHANGED unlinked))
    <3>1. UNCHANGED <<head, unlinked, pinned>>
      BY ZenonT(60), <2>4 DEF Action, Step, Push, PushLoad, PushAdd, PushIsTail, PushNext, PushHelp,
         SwingTail, PushLink, PushStore, Pop, PopHeadIndex, PopTailIndex, PopIsLast, PopAdd,
         PopNext, PopSwap, Revoke, RevokeCas, RevokeErase
    <3>2. pc'[c] \in Popping => pc[c] \in Popping /\ node'[c] = node[c]
      <4>1. CASE Push(c) \/ Pop(c) \/ Revoke(c)
        BY SMTT(30), <4>1 DEF Push, Pop, Revoke, Popping
      <4>2. CASE PushLoad(c) \/ PushAdd(c) \/ PushIsTail(c)
        BY <4>2 DEF PushLoad, PushAdd, PushIsTail, Popping
      <4>6. CASE PushNext(c) \/ PushHelp(c)
        BY <4>6 DEF PushNext, PushHelp, Popping
      <4>3. CASE PushLink(c) \/ PushStore(c)
        BY <4>3 DEF PushLink, PushStore, Popping
      <4>7. CASE RevokeCas(c) \/ RevokeErase(c)
        BY <4>7 DEF RevokeCas, RevokeErase, Popping
      <4>4. CASE PopHeadIndex(c) \/ PopTailIndex(c) \/ PopIsLast(c) \/ PopAdd(c) \/ PopNext(c)
        BY Zenon, <4>4 DEF PopHeadIndex, PopTailIndex, PopIsLast, PopAdd, PopNext, Popping
      <4>5. CASE PopSwap(c)
        BY Zenon, <4>5, <2>4 DEF PopSwap, Popping
      <4> QED
        BY ZenonT(30), <4>1, <4>2, <4>6, <4>3, <4>7, <4>4, <4>5, <2>4 DEF Action, Step
    <3>3. ASSUME NEW d \in Clients, pc'[d] \in Popping
          PROVE  pc[d] \in Popping /\ node'[d] = node[d]
      BY Zenon, <3>2, <3>3, Others
    <3> QED
      BY Zenon, <3>1, <3>3 DEF Guards
  <2> QED
    BY Zenon, <2>1, <2>2, <2>3, <2>4
<1> QED
  BY Zenon, <1>1, <1>2
-----------------------------------------------------------------------------

(* Where an item that waits can be.                                        *)
LEMMA WaitingCell ==
    ASSUME Types, Shape, InOnePlace, NEW v \in Items, Waiting(v),
           NEW k \in Nodes, NEW j \in Slots, data[k][j] = v
    PROVE  head_index[k] <= j /\ j < tail_index[k] /\ head <= k /\ k < linked
<1>a. /\ head \in Nat /\ linked \in Nat /\ k \in Nat /\ j \in Nat /\ SegSize \in Nat
      /\ j < SegSize /\ head_index[k] \in Nat /\ v # Zero
  BY QueueAssumption DEF Types, TypeOK, Nodes, Slots
<1>1. PICK l \in Nodes, i \in Slots : data[l][i] = v /\ i >= head_index[l]
  BY Zenon DEF Waiting
<1>2. l = k /\ i = j
  BY ZenonT(30), <1>1 DEF InOnePlace
<1>3. head_index[k] <= j /\ j < tail_index[k]
  BY Zenon, <1>1, <1>2, <1>a DEF Shape
<1>4. ~ (k < head) /\ ~ (k >= linked)
  <2>1. /\ k < head => head_index[k] >= SegSize
        /\ k >= linked => tail_index[k] = 0
    BY Zenon DEF Shape
  <2>2. \A a, b, e \in Nat : a <= b /\ b < e => ~ (a >= e)
    OBVIOUS
  <2>3. \A b \in Nat : ~ (b < 0)
    OBVIOUS
  <2>4. ~ (k < head)
    BY Zenon, <1>3, <1>a, <2>1, <2>2
  <2>5. ~ (k >= linked)
    BY Zenon, <1>3, <1>a, <2>1, <2>3
  <2> QED
    BY Zenon, <2>4, <2>5
<1>5. \A a, b \in Nat : (~ (a < b) => b <= a) /\ (~ (a >= b) => a < b)
  OBVIOUS
<1> QED
  BY Zenon, <1>3, <1>4, <1>5, <1>a

(* An item that waits and stays seen has not moved.                        *)
LEMMA SeenStays ==
    ASSUME Types, Control, Indices, Shape, InOnePlace, Types',
           NEW c \in Clients, Action(c), NEW d \in Clients,
           NEW v \in Items, Waiting(v), v \in seen'[d]
    PROVE  /\ Waiting(v)'
           /\ \A k \in Nodes, j \in Slots : data'[k][j] = v <=> data[k][j] = v
<1>a. Zero \notin Items /\ SENTINEL \notin Items /\ node[c] \in Nodes
  BY Zenon, QueueAssumption DEF Types, TypeOK
<1>0. PICK k \in Nodes, j \in Slots : data[k][j] = v /\ j >= head_index[k]
  BY Zenon DEF Waiting
<1>b. /\ head_index[k] \in Nat /\ j \in Nat /\ j < SegSize /\ SegSize \in Nat
      /\ head_index \in [Nodes -> 0 .. MaxIndex]
  BY QueueAssumption DEF Types, TypeOK, Slots
<1>1. CASE UNCHANGED <<data, owned>>
  <2>1. CASE PopAdd(c)
    <3>1. CASE node[c] = k /\ j = head_index[k]
      <4>1. Unsee(v)
        BY Zenon, <2>1, <3>1, <1>0, <1>b DEF PopAdd
      <4> QED
        BY Zenon, <4>1 DEF Unsee
    <3>2. CASE ~ (node[c] = k /\ j = head_index[k])
      <4>1. head_index' = [head_index EXCEPT ![node[c]] = @ + 1]
        BY ZenonT(30), <2>1 DEF PopAdd
      <4>2. j >= head_index'[k]
        BY <3>2, <4>1, <1>0, <1>a, <1>b
      <4> QED
        BY Zenon, <1>0, <1>1, <4>2 DEF Waiting
    <3> QED
      BY Zenon, <3>1, <3>2
  <2>2. CASE ~ PopAdd(c)
    <3>1. UNCHANGED head_index
      BY Zenon, <2>2 DEF Action, Step, Push, PushLoad, PushAdd, PushIsTail, PushNext, PushHelp,
         PushLink, PushSwing, SwingTail, PushStore, PushCas, Pop, PopLoad, PopHeadIndex,
         PopTailIndex, PopIsLast, PopNext, PopMove, PopEmpty, PopSwap, PopErase, Revoke,
         RevokeCas, RevokeErase, list
    <3> QED
      BY Zenon, <3>1, <1>0, <1>1 DEF Waiting
  <2> QED
    BY Zenon, <2>1, <2>2
<1>2. ASSUME NEW l \in Nodes, NEW i \in Slots, Put(c, l, i)
      PROVE  /\ Waiting(v)'
             /\ \A m \in Nodes, h \in Slots : data'[m][h] = v <=> data[m][h] = v
  <2>1. it[c] # v /\ UNCHANGED head_index /\ data[l][i] # v
    BY Zenon, <1>2, <1>0, <1>a DEF Put, InOnePlace, InData
  <2>2. \A m \in Nodes, h \in Slots : data'[m][h] = v <=> data[m][h] = v
    BY Zenon, <1>2, <2>1 DEF Put, Store
  <2> QED
    BY Zenon, <2>1, <2>2, <1>0 DEF Waiting
<1>3. ASSUME NEW l \in Nodes, NEW i \in Slots, Take(c, l, i)
      PROVE  /\ Waiting(v)'
             /\ \A m \in Nodes, h \in Slots : data'[m][h] = v <=> data[m][h] = v
  <2>1. data[l][i] # v
    <3>1. CASE pc[c] = "pop_swap"
      <4>1. ~ (l = k /\ i = j)
        BY SMTT(30), <3>1, <1>3, <1>0, <1>b DEF Take, Indices, IndicesOf
      <4> QED
        BY Zenon, <4>1, <1>0 DEF InOnePlace
    <3>2. CASE pc[c] # "pop_swap"
      BY <3>2, <1>3 DEF Take, Unsee
    <3> QED
      BY Zenon, <3>1, <3>2
  <2>2. \A m \in Nodes, h \in Slots : data'[m][h] = v <=> data[m][h] = v
    BY <1>3, <2>1, <1>a DEF Take, Store
  <2> QED
    BY Zenon, <2>2, <1>0, <1>3 DEF Waiting, Take
<1> QED
  BY Zenon, <1>1, <1>2, <1>3, Cell

(* The items seen by an operation keep waiting, ahead of the cell that its *)
(* push was given and behind the node in which its pop found nothing: the  *)
(* counters that try_pop reads one after the other agree about Empty.      *)
LEMMA SeenStep ==
    ASSUME Types, Control, Indices, Shape, InOnePlace, Seen, Types',
           NEW c \in Clients, Action(c)
    PROVE  Seen'
<1>1. ASSUME NEW d \in Clients
      PROVE  seen'[d] \subseteq seen[d] \/ (d = c /\ seen'[d] = {v \in Items : Waiting(v)})
  <2>0. seen \in [Clients -> SUBSET Items]
    BY Zenon DEF Types, TypeOK
  <2>1. CASE Push(c) \/ Pop(c)
    BY Zenon, <2>0, <2>1 DEF Push, Pop
  <2>2. CASE PopAdd(c)
    BY Zenon, <2>0, <2>2 DEF PopAdd, Unsee
  <2>3. CASE RevokeCas(c)
    BY Zenon, <2>0, <2>3 DEF RevokeCas, Unsee
  <2>4. CASE ~ (Push(c) \/ Pop(c) \/ PopAdd(c) \/ RevokeCas(c))
    <3>1. UNCHANGED seen \/ seen' = [seen EXCEPT ![c] = {}]
      BY Zenon, <2>4 DEF Action, Step, PushLoad, PushAdd, PushIsTail, PushNext, PushHelp,
         PushLink, PushSwing, PushStore, PushCas, PopLoad, PopHeadIndex,
         PopTailIndex, PopIsLast, PopNext, PopMove, PopEmpty, PopSwap, PopErase, Revoke,
         RevokeErase, Return, Stay
    <3> QED
      BY Zenon, <3>1, <2>0
  <2> QED
    BY Zenon, <2>1, <2>2, <2>3, <2>4
<1>2. ASSUME NEW d \in Clients, NEW v \in seen'[d]
      PROVE  /\ v \in Items /\ Waiting(v) /\ Waiting(v)'
             /\ \A k \in Nodes, j \in Slots : data'[k][j] = v <=> data[k][j] = v
  <2>1. v \in Items
    BY Zenon DEF Types, TypeOK
  <2>2. Waiting(v)
    BY Zenon, <1>1 DEF Seen, SeenOf
  <2> QED
    BY Zenon, <2>1, <2>2, SeenStays
<1>3. ASSUME NEW d \in Clients, d # c PROVE SeenOf(d)'
  <2>1. /\ pc'[d] = pc[d] /\ node'[d] = node[d] /\ ix'[d] = ix[d]
        /\ seen'[d] \subseteq seen[d] /\ SeenOf(d)
    BY ZenonT(30), <1>1, <1>3, Others DEF Seen
  <2>2. ASSUME NEW k \in Nodes, NEW j \in Slots, data'[k][j] \in seen'[d]
        PROVE  data[k][j] \in seen[d]
    BY <1>2, <2>1, <2>2
  <2> QED
    BY Zenon, <1>2, <2>1, <2>2 DEF SeenOf, Before
<1>4. SeenOf(c)'
  <2>a. /\ node[c] \in Nodes /\ node[c] \in Nat /\ linked \in Nat /\ head \in Nat
        /\ Nodes \subseteq Nat /\ Slots \subseteq Nat /\ SegSize \in Nat /\ ix[c] \in Nat
        /\ (\A k \in Nodes : k \in Nat) /\ (\A j \in Slots : j \in Nat /\ j < SegSize)
    BY QueueAssumption DEF Types, TypeOK, Nodes, Slots
  <2>b. \A k \in Nodes : head_index[k] \in Nat /\ tail_index[k] \in Nat
    BY QueueAssumption DEF Types, TypeOK
  <2>c. ASSUME NEW k \in Nodes, NEW j \in Slots, NEW v \in Items, Waiting(v), data[k][j] = v
        PROVE  head_index[k] <= j /\ j < tail_index[k] /\ head <= k /\ k < linked
    BY Zenon, <2>c, WaitingCell
  <2>d. ControlOf(c) /\ IndicesOf(c) /\ SeenOf(c)
    BY Zenon DEF Control, Indices, Seen
  <2>1. ASSUME pc'[c] = "empty" PROVE seen'[c] = {}
    <3>0. PopIsLast(c) \/ PopNext(c)
      BY ZenonT(60), <2>1 DEF Action, Step, Push, PushLoad, PushAdd, PushIsTail, PushNext, PushHelp,
         PushLink, PushSwing, PushStore, PushCas, Pop, PopLoad, PopHeadIndex,
         PopTailIndex, PopAdd, PopMove, PopEmpty, PopSwap, PopErase,
         Revoke, RevokeCas, RevokeErase, Return, Goto, Stay, Types
    <3>n. ~ (node[c] + 1 < linked) /\ UNCHANGED seen
      BY ZenonT(30), <3>0, <2>1 DEF PopIsLast, PopNext, Goto, Stay, Types
    <3>1. (PopIsLast(c) \/ PopNext(c)) /\ UNCHANGED seen
      BY Zenon, <3>0, <3>n
    <3>2. SUFFICES ASSUME NEW v \in seen[c] PROVE FALSE
      BY Zenon, <3>1
    <3>3. v \in Items /\ Waiting(v)
      BY Zenon, <2>d DEF SeenOf, Types, TypeOK
    <3>4. PICK k \in Nodes, j \in Slots : data[k][j] = v
      BY Zenon, <3>3 DEF Waiting
    <3>5. head_index[k] <= j /\ head <= k /\ k < linked
      BY Zenon, <3>3, <3>4, <2>c
    <3>6. k <= node[c]
      <4>1. k \in Nat /\ node[c] \in Nat /\ linked \in Nat
        BY Zenon, <2>a
      <4> QED
        BY SMTT(30), <4>1, <3>n, <3>5
    <3>7. CASE PopIsLast(c)
      <4>1. k > node[c]
        BY Zenon, <3>7, <3>4, <2>d DEF PopIsLast, SeenOf
      <4> QED
        BY <4>1, <3>6, <2>a
    <3>8. CASE PopNext(c)
      <4>1. node[c] <= head /\ head_index[node[c]] >= SegSize
        BY Zenon, <3>8, <2>d DEF PopNext, IndicesOf, Popping
      <4>2. k = node[c]
        BY <4>1, <3>5, <3>6, <2>a
      <4> QED
        BY <4>1, <4>2, <3>5, <2>a, <2>b
    <3> QED
      BY Zenon, <3>1, <3>7, <3>8
  <2>2. ASSUME NEW k \in Nodes, NEW j \in Slots, data'[k][j] \in seen'[c],
               pc'[c] = "pop_last"
        PROVE  k > node'[c]
    <3>1. PopTailIndex(c) /\ ix[c] >= tail_index[node[c]] /\ UNCHANGED <<node, seen, data>>
      BY ZenonT(60), <2>2 DEF Action, Step, Push, PushLoad, PushAdd, PushIsTail, PushNext, PushHelp,
         PushLink, PushSwing, PushStore, PushCas, Pop, PopLoad, PopHeadIndex,
         PopTailIndex, PopIsLast, PopAdd, PopNext, PopMove, PopEmpty, PopSwap, PopErase,
         Revoke, RevokeCas, RevokeErase, Return, Goto, Stay, Types, list
    <3>2. data[k][j] \in seen[c] /\ data[k][j] \in Items /\ Waiting(data[k][j])
      BY Zenon, <2>2, <3>1, <2>d DEF SeenOf, Types, TypeOK
    <3>3. head_index[k] <= j /\ j < tail_index[k] /\ head <= k
      BY Zenon, <3>2, <2>c
    <3>4. node[c] <= head /\ ix[c] <= head_index[node[c]]
      BY ZenonT(60), <3>1, <2>d DEF PopTailIndex, IndicesOf, Popping
    <3>5. k # node[c]
      BY <3>1, <3>3, <3>4, <2>a, <2>b
    <3> QED
      BY <3>1, <3>3, <3>4, <3>5, <2>a
  <2>3. ASSUME NEW k \in Nodes, NEW j \in Slots, data'[k][j] \in seen'[c],
               pc'[c] \in {"push_store", "push_cas"}
        PROVE  Before(<<k, j>>, <<node[c], ix[c]>>)'
    <3>1. \/ PushAdd(c) /\ tail_index[node[c]] < SegSize
          \/ PushStore(c)
      <4>1. PushAdd(c) \/ PushStore(c)
        BY ZenonT(60), <2>3 DEF Action, Step, Push, PushLoad, PushIsTail, PushNext, PushHelp,
           PushLink, PushSwing, PushCas, Pop, PopLoad, PopHeadIndex, PopTailIndex,
           PopIsLast, PopAdd, PopNext, PopMove, PopEmpty, PopSwap, PopErase, Revoke,
           RevokeCas, RevokeErase, Return, Goto, Types
      <4>2. PushAdd(c) => ~ (tail_index[node[c]] >= SegSize)
        BY Zenon, <2>3 DEF PushAdd, Goto, Types
      <4> QED
        BY <4>1, <4>2, <2>a, <2>b
    <3>2. UNCHANGED <<node, seen, data>>
      BY Zenon, <3>1 DEF PushAdd, PushStore, Stay, list
    <3>3. data[k][j] \in seen[c] /\ data[k][j] \in Items /\ Waiting(data[k][j])
      BY Zenon, <2>3, <3>2, <2>d DEF SeenOf, Types, TypeOK
    <3>4. CASE PushStore(c)
      BY Zenon, <3>2, <3>3, <3>4, <2>d DEF PushStore, SeenOf, Stay, Before
    <3>5. CASE PushAdd(c) /\ tail_index[node[c]] < SegSize
      <4>1. j < tail_index[k] /\ k < linked
        BY Zenon, <3>3, <2>c
      <4>2. ix'[c] = tail_index[node[c]] /\ node'[c] = node[c]
        BY Zenon, <3>2, <3>5 DEF PushAdd, Types, TypeOK
      <4>3. ~ (node[c] + 1 < linked)
        BY <3>5, <2>a, <2>b DEF Shape
      <4>4. k < node[c] \/ (k = node[c] /\ j < tail_index[node[c]])
        BY <4>1, <4>3, <2>a
      <4> QED
        BY Zenon, <4>2, <4>4 DEF Before
    <3> QED
      BY Zenon, <3>1, <3>4, <3>5
  <2> QED
    BY Zenon, <1>2, <2>1, <2>2, <2>3 DEF SeenOf
<1> QED
  BY Zenon, <1>3, <1>4 DEF Seen

-----------------------------------------------------------------------------

(* Every state that the steps of FAAQueueLowLevel reach satisfies the      *)
(* inductive invariant, for any number of clients and any length of list.  *)
THEOREM Invariance == Spec => []IInv
<1>1. Init => IInv
  <2> SUFFICES ASSUME Init PROVE IInv
    BY Zenon
  <2> USE QueueAssumption
  <2>1. Types
    BY DEF Init, Types, TypeOK, Nodes, Slots, Labels
  <2>2. Control /\ Indices
    BY DEF Init, Control, ControlOf, Indices, IndicesOf, Pushing, Popping, Nodes, Slots
  <2>3. Shape /\ Given
    BY DEF Init, Shape, Given, Nodes, Slots, Zero, SENTINEL
  <2>4. InOnePlace
    <3>1. \A k \in Nodes, j \in Slots : data[k][j] \notin Items
      BY Zenon DEF Init, Nodes, Slots
    <3> QED
      BY Zenon, <3>1 DEF Init, InOnePlace, InData
  <2>5. Guards /\ Seen
    BY Zenon DEF Init, Guards, Seen, SeenOf, Popping
  <2> QED
    BY Zenon, <2>1, <2>2, <2>3, <2>4, <2>5 DEF IInv
<1>2. IInv /\ [Next]_vars => IInv'
  <2> SUFFICES ASSUME IInv, [Next]_vars PROVE IInv'
    BY Zenon
  <2>1. ASSUME NEW c \in Clients, Action(c) PROVE IInv'
    <3>1. Types'
      BY Zenon, <2>1, TypesStep DEF IInv
    <3> QED
      BY Zenon, <2>1, <3>1, LocalsStep, ShapeStep, CellsStep, InOnePlaceStep, SeenStep DEF IInv
  <2>2. CASE UNCHANGED vars
    <3>1. (Types /\ Control)'
      BY Zenon, <2>2 DEF vars, list, reclaim, IInv, Types, TypeOK, Control, ControlOf
    <3>2. (Indices /\ Shape)'
      BY Zenon, <2>2 DEF vars, list, reclaim, IInv, Indices, IndicesOf, Shape
    <3>3. (Given /\ InOnePlace)'
      BY <2>2 DEF vars, list, reclaim, IInv, Given, Taken, InOnePlace, InData
    <3>4. (Guards /\ Seen)'
      BY <2>2 DEF vars, list, reclaim, IInv, Guards, Seen, SeenOf, Waiting, Before
    <3> QED
      BY ZenonT(30), <3>1, <3>2, <3>3, <3>4 DEF IInv
  <2> QED
    BY Zenon, <2>1, <2>2 DEF Next, Action
<1> QED
  BY <1>1, <1>2, PTL DEF Spec

(* No item in a cell is left behind by the pops of try_pop: it is ahead of *)
(* the head's counter, or one pop was given its cell.                      *)
THEOREM NothingStranded == Spec => []NoneStranded
<1>1. IInv => NoneStranded
  <2> SUFFICES ASSUME IInv, NEW k \in Nodes, NEW j \in Slots, data[k][j] \in Items,
                      ~ Taken(k, j)
               PROVE  k >= head /\ j >= head_index[k]
    BY Zenon DEF NoneStranded
  <2>1. j >= head_index[k]
    BY Zenon, QueueAssumption DEF IInv, Given
  <2>2. /\ k \in Nat /\ head \in Nat /\ j \in Nat /\ j < SegSize /\ SegSize \in Nat
        /\ head_index[k] \in Nat
    BY QueueAssumption DEF IInv, Types, TypeOK, Nodes, Slots
  <2>3. k < head => head_index[k] >= SegSize
    BY Zenon DEF IInv, Shape
  <2> QED
    BY <2>1, <2>2, <2>3
<1> QED
  BY <1>1, Invariance, PTL

(* The emptiness check of try_pop, which reads two counters and a pointer  *)
(* one after the other, is right whenever it answers Empty.                *)
THEOREM EmptyHonest == Spec => []EmptyIsHonest
<1>1. IInv => EmptyIsHonest
  BY Zenon DEF IInv, Seen, SeenOf, EmptyIsHonest
<1> QED
  BY <1>1, Invariance, PTL

(* The reason that try_pop gives for unlinking a node holds of the pops:   *)
(* those still in the node have a guard that the collector waits for.      *)
THEOREM ProtectedPops == Spec => []PopsAreProtected
<1>1. IInv => PopsAreProtected
  BY Zenon DEF IInv, Guards, PopsAreProtected, Freed, Popping
<1> QED
  BY <1>1, Invariance, PTL

(* A push that succeeds puts its item into the bag, and one pop or revoke  *)
(* gets it out: the queue implements the weak bag that its users rely on.  *)
THEOREM ImplementsWeakBag == Spec => IsWeakBag
<1> DEFINE bag == {v \in Items : InData(v)}
<1>1. Init => Bag!Init
  <2> SUFFICES ASSUME Init PROVE Bag!Init
    BY Zenon
  <2>1. \A v \in Items : ~ InData(v)
    BY Zenon, QueueAssumption DEF Init, InData, Nodes, Slots
  <2> QED
    BY Zenon, <2>1, QueueAssumption DEF Init, Bag!Init
<1>2. IInv /\ [Next]_vars => [Bag!Next]_<<bag, owned>>
  <2> SUFFICES ASSUME IInv, [Next]_vars PROVE [Bag!Next]_<<bag, owned>>
    BY Zenon
  <2> USE QueueAssumption
  <2>1. ASSUME NEW c \in Clients, NEW k \in Nodes, NEW j \in Slots, Put(c, k, j)
        PROVE  Bag!Push(c, it[c])
    <3>1. \A v \in Items : InData(v)' <=> InData(v) \/ v = it[c]
      BY <2>1 DEF InData, Put, Store
    <3>2. bag' = bag \cup {it[c]}
      BY Zenon, <3>1, <2>1 DEF Put
    <3> QED
      BY ZenonT(30), <2>1, <3>2 DEF Put, Bag!Push
  <2>2. ASSUME NEW c \in Clients, NEW k \in Nodes, NEW j \in Slots, Take(c, k, j),
               data[k][j] \in Items
        PROVE  Bag!Get(c, data[k][j])
    <3>1. \A v \in Items : (\E l \in Nodes, i \in Slots : data'[l][i] = v)
                             <=> InData(v) /\ v # data[k][j]
      BY <2>2 DEF InData, Take, Store, IInv, InOnePlace
    <3>2. bag' = bag \ {data[k][j]} /\ data[k][j] \in bag
      BY Zenon, <3>1, <2>2 DEF InData
    <3> QED
      BY ZenonT(30), <2>2, <3>2 DEF Take, Bag!Get
  <2>3. ASSUME NEW c \in Clients, NEW k \in Nodes, NEW j \in Slots, Take(c, k, j),
               data[k][j] \notin Items
        PROVE  UNCHANGED <<bag, owned>>
    <3>1. \A v \in Items : (\E l \in Nodes, i \in Slots : data'[l][i] = v) <=> InData(v)
      BY <2>3 DEF InData, Take, Store
    <3> QED
      BY Zenon, <2>3, <3>1 DEF Take, InData
  <2>4. CASE UNCHANGED <<data, owned>>
    BY Zenon, <2>4 DEF InData
  <2>5. ASSUME NEW c \in Clients, Action(c) PROVE [Bag!Next]_<<bag, owned>>
    <3>1. \/ UNCHANGED <<data, owned>>
          \/ \E k \in Nodes, j \in Slots : Put(c, k, j) \/ Take(c, k, j)
      BY Zenon, <2>5, Cell DEF IInv
    <3>2. ASSUME NEW k \in Nodes, NEW j \in Slots, Put(c, k, j) PROVE Bag!Next
      BY ZenonT(60), <3>2, <2>1 DEF Bag!Next, Put
    <3>3. ASSUME NEW k \in Nodes, NEW j \in Slots, Take(c, k, j)
          PROVE  Bag!Next \/ UNCHANGED <<bag, owned>>
      BY Zenon, <3>3, <2>2, <2>3 DEF Bag!Next
    <3> QED
      BY Zenon, <3>1, <3>2, <3>3, <2>4
  <2>6. CASE UNCHANGED vars
    BY Zenon, <2>4, <2>6 DEF vars, list
  <2> QED
    BY Zenon, <2>5, <2>6 DEF Next, Action
<1> QED
  BY <1>1, <1>2, Invariance, PTL DEF Spec, IsWeakBag, Bag!Spec

(* The queue is first in, first out as far as calls have an order: a push  *)
(* goes behind what was in the queue when it began, and a pop is given no  *)
(* cell behind an item that no other pop was given.                        *)
THEOREM FirstInFirstOut == Spec => FifoOrder
<1>1. ASSUME IInv, IInv', NEW a \in Clients, Action(a) PROVE PushesBehind
  <2> SUFFICES ASSUME NEW c \in Clients, NEW u \in Items, NEW v \in Items,
                      pc[c] \in {"push_cas", "push_link"}, u \in seen[c], v = it[c],
                      NEW p \in Cells(u), NEW q \in Cells(v)'
               PROVE  Before(p, q)
    BY Zenon DEF PushesBehind
  <2>a. /\ p \in Nodes \X Slots /\ data[p[1]][p[2]] = u
        /\ q \in Nodes \X Slots /\ data'[q[1]][q[2]] = v
    BY Zenon DEF Cells
  <2>b. v \in owned[c] /\ SENTINEL \notin Items
    BY Zenon, <1>1, QueueAssumption DEF IInv, Control, ControlOf, Pushing
  <2>1. ~ InData(v)
    BY ZenonT(30), <1>1, <2>b DEF IInv, InOnePlace
  <2>2. ASSUME NEW l \in Nodes, NEW i \in Slots, Take(a, l, i) PROVE FALSE
    BY <2>2, <2>1, <2>a, <2>b DEF Take, Store, InData
  <2>3. ~ UNCHANGED <<data, owned>>
    BY Zenon, <2>1, <2>a DEF InData
  <2>4. PICK l \in Nodes, i \in Slots : Put(a, l, i)
    BY Zenon, <1>1, <2>2, <2>3, Cell DEF IInv
  <2>c. q[1] \in Nodes /\ q[2] \in Slots /\ data[q[1]][q[2]] # v
    BY Zenon, <2>1, <2>a DEF InData
  <2>5. q[1] = l /\ q[2] = i /\ it[a] = v
    BY ZenonT(30), <2>4, <2>a, <2>c DEF Put, Store
  <2>6. a = c
    <3>1. v \in owned[a]
      BY Zenon, <2>4, <2>5 DEF Put
    <3> QED
      BY ZenonT(30), <1>1, <2>b, <3>1 DEF IInv, InOnePlace
  <2>7. CASE pc[c] = "push_cas"
    <3>1. Before(<<p[1], p[2]>>, <<node[c], ix[c]>>)
      BY ZenonT(30), <1>1, <2>7, <2>a DEF IInv, Seen, SeenOf
    <3> QED
      BY Zenon, <3>1, <2>4, <2>5, <2>6, <2>7 DEF Put, Before
  <2>8. CASE pc[c] = "push_link"
    <3>1. Waiting(u)
      BY Zenon, <1>1 DEF IInv, Seen, SeenOf
    <3>2. p[1] < linked
      BY ZenonT(30), <1>1, <2>a, <3>1, WaitingCell DEF IInv
    <3>3. l >= linked /\ l \in Nat /\ linked \in Nat /\ p[1] \in Nat
      BY SMTT(30), <1>1, <2>4, <2>6, <2>8, <2>a, QueueAssumption DEF Put, IInv, Types, TypeOK, Nodes
    <3> QED
      BY <3>2, <3>3, <2>5 DEF Before
  <2> QED
    BY Zenon, <2>7, <2>8
<1>2. ASSUME IInv, IInv', NEW a \in Clients, Action(a) PROVE PopsInOrder
  <2> SUFFICES ASSUME NEW c \in Clients, NEW u \in Items,
                      pc[c] # "pop_swap", pc'[c] = "pop_swap",
                      NEW p \in Cells(u)', ~ Taken(p[1], p[2])'
               PROVE  Before(<<node'[c], ix'[c]>>, p)
    BY Zenon DEF PopsInOrder
  <2>a. /\ p \in Nodes \X Slots /\ data'[p[1]][p[2]] = u /\ u # SENTINEL
        /\ p[1] \in Nodes /\ p[2] \in Slots
    BY Zenon, QueueAssumption DEF Cells
  <2>b. /\ head' \in Nat /\ p[1] \in Nat /\ p[2] \in Nat /\ p[2] < SegSize /\ SegSize \in Nat
        /\ node'[c] \in Nodes /\ node'[c] \in Nat /\ ix'[c] \in Nat
    BY SMTT(30), <1>2, <2>a, QueueAssumption DEF IInv, Types, TypeOK, Nodes, Slots
  <2>c. \A k \in Nodes : head_index'[k] \in Nat
    BY <1>2, QueueAssumption DEF IInv, Types, TypeOK
  <2>1. p[2] >= head_index'[p[1]]
    BY ZenonT(30), <1>2, <2>a DEF IInv, Given
  <2>2. ~ (p[1] < head')
    <3>1. p[1] < head' => head_index'[p[1]] >= SegSize
      BY Zenon, <1>2, <2>a DEF IInv, Shape
    <3>2. head_index'[p[1]] \in Nat
      BY Zenon, <2>a, <2>c
    <3>3. \A x, y, z \in Nat : y >= x /\ y < z => ~ (x >= z)
      OBVIOUS
    <3> QED
      BY Zenon, <3>1, <3>2, <3>3, <2>1, <2>b
  <2>3. node'[c] <= head' /\ ix'[c] < head_index'[node'[c]]
    BY Zenon, <1>2 DEF IInv, Indices, IndicesOf, Popping
  <2>4. node'[c] < p[1] \/ (node'[c] = p[1] /\ ix'[c] < p[2])
    BY <2>1, <2>2, <2>3, <2>a, <2>b, <2>c
  <2> QED
    BY Zenon, <2>4 DEF Before
<1>3. IInv /\ IInv' /\ [Next]_vars => [PushesBehind /\ PopsInOrder]_vars
  BY Zenon, <1>1, <1>2 DEF Next, Action
<1> QED
  BY <1>3, Invariance, PTL DEF Spec, FifoOrder
=============================================================================
