------------------------- MODULE YangCrummeyProofs --------------------------
(***************************************************************************)
(* For any number of threads, items, segments and cells per segment the    *)
(* Yang-Crummey queue is a weak bag, find_cell only walks forward, no      *)
(* client is in a segment that the collector may have freed, each segment  *)
(* is reclaimed once, and Empty is an honest answer.                       *)
(***************************************************************************)
EXTENDS YangCrummeyQueue, TLAPS

\* Where a client has an index, and where it has not yet used it.
Finding == {"find", "link", "clean", "count", "swap"}
Labels == Finding \cup {"idle", "add", "tail", "empty"}

Types ==
    /\ index \in [Sides -> 0 .. MaxIndex]
    /\ seg \in [Sides -> Segments]
    /\ linked - 1 \in Segments
    /\ linked \in Nat
    /\ ctr \in [Segments -> Nat]
    /\ cell \in [Cells -> Items \cup {Zero, SENTINEL}]
    /\ owned \in [Clients -> SUBSET Items]
    /\ drained \in SUBSET Cells
    /\ unlinked \in [Segments -> Nat]
    /\ pinned \in [Segments -> SUBSET Clients]
    /\ dropped \in BOOLEAN
    /\ pc \in [Clients -> Labels]
    /\ side \in [Clients -> Sides]
    /\ it \in [Clients -> Items \cup {Zero}]
    /\ data \in [Clients -> Segments]
    /\ cur \in [Clients -> Segments]
    /\ ix \in [Clients -> Cells]

(* A pointer is never past the segment of the next index, and what a       *)
(* client loaded is not past the pointer.                                  *)
Pointers ==
    \A s \in Sides : seg[s] <= SegOf(index[s]) /\ seg[s] < linked

PlaceOf(c) ==
    /\ pc[c] # "idle" => ~dropped /\ data[c] <= seg[side[c]]
    /\ pc[c] # "idle" /\ side[c] = "push" => it[c] \in owned[c]
    /\ pc[c] \in {"tail", "empty"} => side[c] = "pop"
    /\ pc[c] \in Finding \cup {"tail"} => ix[c] < index[side[c]]
    /\ pc[c] \in Finding => data[c] <= cur[c] /\ cur[c] <= SegOf(ix[c]) /\ cur[c] < linked
    /\ pc[c] = "link" => cur[c] < SegOf(ix[c])
    /\ pc[c] \in {"clean", "count"} => SegOf(ix[c]) = data[c] + 1 /\ cur[c] = data[c] + 1
    /\ pc[c] = "count" => data[c] < seg[side[c]]
    /\ pc[c] \in Finding /\ side[c] = "pop" => ix[c] \notin drained
    /\ pc[c] \in Finding /\ side[c] = "push" => cell[ix[c]] \notin Items

Places == \A c \in Clients : PlaceOf(c)

(* An index is given to one push and to one pop; a pointer leaves a        *)
(* segment once.                                                           *)
Distinct ==
    \A c, d \in Clients : c # d /\ side[c] = side[d] =>
        /\ pc[c] \in Finding /\ pc[d] \in Finding => ix[c] # ix[d]
        /\ pc[c] = "count" /\ pc[d] = "count" => data[c] # data[d]

(* A cell has the sentinel or a late item once a pop has been there, and   *)
(* no item before a push was given it.                                     *)
Filled ==
    \A i \in Cells :
        /\ i \in drained => cell[i] # Zero /\ i < index["pop"]
        /\ i \notin drained => cell[i] # SENTINEL
        /\ i >= index["push"] => cell[i] \notin Items

(* An item is with one client, or in one cell that no pop has come to.     *)
InOnePlace ==
    \A v \in Items :
        /\ \A c, d \in Clients : v \in owned[c] /\ v \in owned[d] => c = d
        /\ \A c \in Clients : v \in owned[c] => \A i \in Cells : cell[i] = v => i \in drained
        /\ \A i, j \in Cells : cell[i] = v /\ cell[j] = v /\ i \notin drained /\ j \notin drained
                                 => i = j

\* The pointer of side s has left segment k, and this has been counted.
HasLeft(s, k) ==
    /\ k < seg[s]
    /\ ~ \E c \in Clients : pc[c] = "count" /\ side[c] = s /\ data[c] = k

Reclaim ==
    \A k \in Segments :
        /\ ctr[k] = (IF HasLeft("push", k) THEN 1 ELSE 0) + (IF HasLeft("pop", k) THEN 1 ELSE 0)
        /\ ~dropped => unlinked[k] = IF ctr[k] = 2 THEN 1 ELSE 0
        /\ dropped => unlinked[k] = IF k < linked THEN 1 ELSE 0
        /\ unlinked[k] > 0 => \A c \in Clients :
            pc[c] # "idle" /\ c \notin pinned[k] => k < data[c]

IInv == Types /\ Pointers /\ Places /\ Distinct /\ Filled /\ InOnePlace /\ Reclaim
-----------------------------------------------------------------------------
(* The segments are numbered in the order of the cells they hold.          *)
LEMMA SegFacts ==
    ASSUME Sound
    PROVE  /\ \A i \in Nat : SegOf(i) \in Nat
           /\ \A i, j \in Nat : i <= j => SegOf(i) <= SegOf(j)
           /\ SegOf(0) = 0
           /\ \A i \in Cells : i \in Nat /\ SegOf(i) \in Segments
           /\ \A k \in Segments : k \in Nat
           /\ \A k, l \in Nat : l \in Segments /\ k <= l => k \in Segments
           /\ 0 \in Cells /\ 0 \in Segments
<1>1. \A i \in Nat : SegOf(i) \in Nat
  BY DEF Sound, SegOf
<1>2. \A i, j \in Nat : i <= j => SegOf(i) <= SegOf(j)
  <2> SUFFICES ASSUME NEW i \in Nat, NEW j \in Nat, i <= j PROVE SegOf(i) <= SegOf(j)
    BY Zenon
  <2> DEFINE a == i \div SegSize
             b == j \div SegSize
  <2>1. /\ a \in Nat /\ b \in Nat /\ SegSize \in Nat /\ SegSize > 0
        /\ SegSize * a <= i /\ j < SegSize * b + SegSize
    BY DEF Sound
  <2>2. SegSize * a < SegSize * (b + 1)
    BY <2>1
  <2> HIDE DEF a, b
  <2>3. a < b + 1
    BY <2>1, <2>2
  <2> QED
    BY <2>1, <2>3 DEF a, b, SegOf
<1>3. SegOf(0) = 0
  BY DEF Sound, SegOf
<1> QED
  BY <1>1, <1>2, <1>3 DEF Sound, Cells, Segments
-----------------------------------------------------------------------------
Action(c) == Push(c) \/ Pop(c) \/ Step(c)

\* What a client does to its locals and its guard, it does to its own only.
Mine(c) ==
    /\ dropped' = dropped /\ ~dropped
    /\ \A d \in Clients : d # c =>
        /\ pc'[d] = pc[d] /\ side'[d] = side[d] /\ it'[d] = it[d]
        /\ data'[d] = data[d] /\ cur'[d] = cur[d] /\ ix'[d] = ix[d]

\* What a step does to what all clients share.
Effect(c) ==
    /\ linked <= linked'
    /\ \A s \in Sides : index[s] <= index'[s] /\ seg[s] <= seg'[s]
    /\ \A d \in Clients : d # c => owned'[d] = owned[d]
    /\ \/ UNCHANGED <<cell, drained, owned>>
       \/ /\ pc[c] = "swap" /\ pc'[c] = "idle" /\ side[c] = "push" /\ UNCHANGED drained
          /\ cell' = [cell EXCEPT ![ix[c]] = it[c]]
          /\ owned' = IF cell[ix[c]] = Zero THEN [owned EXCEPT ![c] = @ \ {it[c]}] ELSE owned
       \/ /\ pc[c] = "swap" /\ pc'[c] \in {"idle", "tail"} /\ side[c] = "pop"
          /\ drained' = drained \cup {ix[c]}
          /\ cell' = [cell EXCEPT ![ix[c]] = SENTINEL]
          /\ owned' = IF cell[ix[c]] = Zero THEN owned
                                            ELSE [owned EXCEPT ![c] = @ \cup {cell[ix[c]]}]

(* A step of try_push or try_pop keeps the types, changes the locals of    *)
(* its own client only, and moves an item only with the swap of its cell.  *)
LEMMA ClientStep ==
    ASSUME Sound, Types, Places, Filled, NEW c \in Clients, Action(c)
    PROVE  Types' /\ Mine(c) /\ Effect(c)
<1>1. Mine(c)
  <2> USE DEF Types, Goto, Mine
  <2>0. pc[c] # "idle" => ~dropped
    BY Zenon DEF Places, PlaceOf
  <2>1. CASE Push(c) \/ Pop(c)
    BY ZenonT(40), <2>1 DEF Push, Pop, Begin
  <2>2. CASE Add(c) \/ FindCell(c) \/ Link(c)
    BY ZenonT(40), <2>2, <2>0 DEF Add, FindCell, Link
  <2>3. CASE CleanupSwing(c) \/ CleanupCount(c)
    BY Zenon, <2>3, <2>0 DEF CleanupSwing, CleanupCount
  <2>4. CASE SwapIn(c) \/ SwapOut(c) \/ LoadTail(c) \/ ReturnEmpty(c)
    BY Zenon, <2>4, <2>0 DEF SwapIn, SwapOut, LoadTail, ReturnEmpty, Return
  <2> QED
    BY Zenon, <2>1, <2>2, <2>3, <2>4 DEF Action, Step
<1>2. Types'
  <2>0. /\ 0 \in Segments /\ 0 \in Cells /\ "push" \in Sides /\ "pop" \in Sides
        /\ side[c] \in Sides /\ data[c] \in Segments /\ ix[c] \in Cells /\ SegOf(ix[c]) \in Segments
        /\ it[c] \in Items \cup {Zero}
    BY Zenon, SegFacts DEF Types, Sides
  <2> USE DEF Types, Goto, Labels, Finding
  <2>1. CASE Push(c)
    BY <2>1, <2>0 DEF Push, Begin, queue, reclaim
  <2>2. CASE Pop(c)
    BY Zenon, <2>2, <2>0 DEF Pop, Begin, queue, reclaim
  <2>3. CASE Add(c)
    <3>1. index[side[c]] \in Cells /\ index[side[c]] + 1 \in 0 .. MaxIndex
      <4>1. index[side[c]] \in 0 .. MaxIndex /\ index[side[c]] < MaxIndex
        BY Zenon, <2>3, <2>0 DEF Add
      <4> QED
        BY <4>1 DEF Cells, Sound
    <3> QED
      BY Zenon, <2>3, <2>0, <3>1 DEF Add, reclaim
  <2>4. CASE FindCell(c)
    <3>1. cur[c] # SegOf(ix[c]) => cur[c] + 1 \in Segments
      BY <2>4, <2>0, SegFacts DEF FindCell, Places, PlaceOf
    <3> QED
      BY Zenon, <2>4, <2>0, <3>1 DEF FindCell, SegId, queue, reclaim
  <2>5. CASE Link(c)
    <3>1. cur[c] + 1 \in Segments /\ cur[c] \in Nat /\ cur[c] < linked
      BY <2>5, <2>0, SegFacts DEF Link, Places, PlaceOf
    <3> QED
      BY <2>5, <2>0, <3>1 DEF Link, reclaim
  <2>6. CASE CleanupSwing(c)
    BY <2>6, <2>0 DEF CleanupSwing, reclaim, Places, PlaceOf
  <2>7. CASE CleanupCount(c)
    BY SMTT(30), <2>7, <2>0 DEF CleanupCount, Unlink, reclaim
  <2>8. CASE SwapIn(c)
    BY Zenon, <2>8, <2>0 DEF SwapIn, Return
  <2>9. CASE SwapOut(c)
    <3>1. cell[ix[c]] \in Items \cup {Zero}
      BY Zenon, <2>9, <2>0 DEF SwapOut, Filled, Places, PlaceOf
    <3>2. CASE cell[ix[c]] = Zero
      BY Zenon, <2>9, <2>0, <3>2 DEF SwapOut
    <3>3. CASE cell[ix[c]] # Zero
      <4>1. /\ Return(c) /\ UNCHANGED <<index, seg, linked, ctr, unlinked, dropped, side>>
            /\ cell' = [cell EXCEPT ![ix[c]] = SENTINEL] /\ drained' = drained \cup {ix[c]}
            /\ owned' = [owned EXCEPT ![c] = @ \cup {cell[ix[c]]}]
        BY Zenon, <2>9, <3>3 DEF SwapOut
      <4> QED
        BY Zenon, <4>1, <2>0, <3>1, <3>3 DEF Return
    <3> QED
      BY Zenon, <3>2, <3>3
  <2>10. CASE LoadTail(c)
    <3>1. CASE ix[c] > index["push"]
      BY Zenon, <2>10, <2>0, <3>1 DEF LoadTail, queue
    <3>2. CASE ~ (ix[c] > index["push"])
      <4>1. Return(c) /\ UNCHANGED <<queue, owned, drained, unlinked, dropped, side>>
        BY Zenon, <2>10, <3>2 DEF LoadTail
      <4> QED
        BY Zenon, <4>1, <2>0 DEF Return, queue
    <3> QED
      BY Zenon, <3>1, <3>2
  <2>11. CASE ReturnEmpty(c)
    BY Zenon, <2>11, <2>0 DEF ReturnEmpty, Return, queue
  <2> QED
    BY Zenon, <2>1, <2>2, <2>3, <2>4, <2>5, <2>6, <2>7, <2>8, <2>9, <2>10, <2>11 DEF Action, Step
<1>3. Effect(c)
  <2>0. /\ linked \in Nat /\ side[c] \in Sides
        /\ \A s \in Sides : index[s] \in Nat /\ seg[s] \in Nat
        /\ owned \in [Clients -> SUBSET Items] /\ pc \in [Clients -> Labels]
    BY SegFacts DEF Types, Sound
  <2>1. CASE Push(c) \/ Pop(c) \/ FindCell(c) \/ CleanupCount(c) \/ LoadTail(c) \/ ReturnEmpty(c)
    <3>1. UNCHANGED <<linked, index, seg, owned, cell, drained>>
      BY Zenon, <2>1 DEF Push, Pop, Begin, FindCell, CleanupCount, LoadTail, ReturnEmpty, queue
    <3> QED
      BY <3>1, <2>0 DEF Effect
  <2>2. CASE Add(c)
    BY <2>2, <2>0 DEF Add, Effect, Types
  <2>3. CASE Link(c)
    BY <2>3, <2>0 DEF Link, Effect
  <2>4. CASE CleanupSwing(c)
    BY <2>4, <2>0 DEF CleanupSwing, Effect, Types
  <2>5. CASE SwapIn(c)
    BY <2>5, <2>0 DEF SwapIn, Return, Goto, Effect
  <2>6. CASE SwapOut(c)
    <3>1. pc'[c] \in {"idle", "tail"}
      BY Zenon, <2>6, <2>0 DEF SwapOut, Return, Goto
    <3>2. owned' = IF cell[ix[c]] = Zero THEN owned
                                         ELSE [owned EXCEPT ![c] = @ \cup {cell[ix[c]]}]
      BY Zenon, <2>6 DEF SwapOut
    <3> QED
      BY <2>6, <2>0, <3>1, <3>2 DEF SwapOut, Effect
  <2> QED
    BY Zenon, <2>1, <2>2, <2>3, <2>4, <2>5, <2>6 DEF Action, Step
<1> QED
  BY Zenon, <1>1, <1>2, <1>3

(* The numbers that the arithmetic of a step is about.                     *)
LEMMA Numbers ==
    ASSUME Sound, Types
    PROVE  /\ linked \in Nat
           /\ \A s \in Sides : /\ index[s] \in Nat /\ seg[s] \in Nat
                               /\ SegOf(index[s]) \in Nat
           /\ \A c \in Clients : /\ data[c] \in Nat /\ cur[c] \in Nat /\ ix[c] \in Nat
                                 /\ ix[c] \in Cells /\ data[c] \in Segments /\ cur[c] \in Segments
                                 /\ SegOf(ix[c]) \in Nat /\ side[c] \in Sides
BY SegFacts DEF Types, Sound

(* A step leaves the pointers behind the counters, and every client at a   *)
(* place that fits what it loaded, the index it took and the segment its   *)
(* walk has come to.                                                       *)
LEMMA PlacesStep ==
    ASSUME Sound, IInv, Types', NEW c \in Clients, Action(c), Mine(c), Effect(c)
    PROVE  Pointers' /\ Places'
<1> USE DEF IInv
<1>n. /\ linked \in Nat /\ linked' \in Nat
      /\ \A s \in Sides : /\ index[s] \in Nat /\ seg[s] \in Nat /\ SegOf(index[s]) \in Nat
                          /\ index'[s] \in Nat /\ seg'[s] \in Nat /\ SegOf(index'[s]) \in Nat
                          /\ SegOf(index[s]) <= SegOf(index'[s])
      /\ \A d \in Clients : /\ data[d] \in Nat /\ cur[d] \in Nat /\ ix[d] \in Nat
                            /\ ix[d] \in Cells /\ SegOf(ix[d]) \in Nat /\ side[d] \in Sides
  <2>1. /\ linked' \in Nat /\ \A s \in Sides : index'[s] \in Nat /\ seg'[s] \in Nat
    BY SegFacts DEF Types, Sound
  <2> QED
    BY Zenon, <2>1, Numbers, SegFacts DEF Effect
<1>1. ASSUME NEW d \in Clients, d # c PROVE PlaceOf(d)'
  <2>1. /\ PlaceOf(d) /\ pc'[d] = pc[d] /\ side'[d] = side[d] /\ it'[d] = it[d]
        /\ data'[d] = data[d] /\ cur'[d] = cur[d] /\ ix'[d] = ix[d] /\ owned'[d] = owned[d]
        /\ dropped' = dropped
    BY Zenon, <1>1 DEF Places, Mine, Effect
  <2>2. pc[d] \in Finding /\ side[d] = "pop" => ix[d] \notin drained'
    BY ZenonT(40), <2>1, <1>1 DEF Effect, Distinct, PlaceOf, Finding
  <2>3. pc[d] \in Finding /\ side[d] = "push" => cell'[ix[d]] \notin Items
    BY ZenonT(60), <2>1, <1>1, <1>n DEF Effect, Distinct, PlaceOf, Finding, Types, Sound
  <2>4. linked <= linked' /\ \A s \in Sides : index[s] <= index'[s] /\ seg[s] <= seg'[s]
    BY Zenon DEF Effect
  <2>5. side[d] \in Sides /\ data[d] \in Nat /\ ix[d] \in Nat /\ cur[d] \in Nat
    BY Zenon, <1>n
  <2> QED
    BY <2>1, <2>2, <2>3, <2>4, <2>5, <1>n DEF PlaceOf
<1>2. Pointers'
  <2>1. CASE UNCHANGED seg
    BY <2>1, <1>n DEF Pointers, Effect
  <2>2. CASE CleanupSwing(c) /\ seg[side[c]] = data[c]
    <3>1. /\ seg' = [seg EXCEPT ![side[c]] = data[c] + 1] /\ UNCHANGED <<index, linked>>
          /\ pc[c] = "clean"
      BY Zenon, <2>2 DEF CleanupSwing
    <3>2. data[c] + 1 <= SegOf(index[side[c]]) /\ data[c] + 1 < linked
      BY <3>1, <1>n, SegFacts DEF Places, PlaceOf, Finding
    <3> QED
      BY Zenon, <3>1, <3>2, <1>n DEF Pointers, Types
  <2> QED
    BY Zenon, <2>1, <2>2 DEF Action, Step, Push, Pop, Begin, Add, FindCell, Link, CleanupSwing,
                      CleanupCount, SwapIn, SwapOut, LoadTail, ReturnEmpty, queue
<1>3. PlaceOf(c)'
  <2>0. /\ PlaceOf(c) /\ Pointers /\ side[c] \in Sides /\ "push" \in Sides /\ "pop" \in Sides
        /\ data[c] \in Nat /\ cur[c] \in Nat /\ ix[c] \in Nat
        /\ pc \in [Clients -> Labels] /\ side \in [Clients -> Sides]
        /\ it \in [Clients -> Items \cup {Zero}] /\ data \in [Clients -> Segments]
        /\ cur \in [Clients -> Segments] /\ ix \in [Clients -> Cells]
        /\ ~dropped /\ ~dropped'
    BY Zenon, <1>n DEF Places, Types, Sides, Mine
  <2>1. CASE Push(c) \/ Pop(c)
    <3>1. \E s \in Sides : /\ pc'[c] = "add" /\ side'[c] = s /\ data'[c] = seg[s]
                           /\ UNCHANGED <<owned, seg>>
                           /\ s = "push" => it'[c] \in owned[c]
      BY Zenon, <2>1, <2>0 DEF Push, Pop, Begin, Goto, queue
    <3> QED
      BY SMTT(30), <3>1, <2>0, <1>n DEF PlaceOf, Finding
  <2>2. CASE Add(c)
    <3>1. /\ pc[c] = "add" /\ pc'[c] = "find" /\ ix'[c] = index[side[c]] /\ cur'[c] = data[c]
          /\ index'[side[c]] = index[side[c]] + 1 /\ index[side[c]] \in Cells
          /\ UNCHANGED <<seg, linked, cell, owned, drained, side, it, data>>
      BY ZenonT(40), <2>2, <2>0, <1>n DEF Add, Goto, Types, Cells, Sound
    <3>2. data[c] <= SegOf(index[side[c]]) /\ data[c] < linked
      BY SMTT(30), <3>1, <2>0, <1>n DEF PlaceOf, Pointers
    <3>3. /\ side[c] = "pop" => index[side[c]] \notin drained
          /\ side[c] = "push" => cell[index[side[c]]] \notin Items
      BY <3>1, <1>n DEF Filled
    <3>4. ix'[c] < index'[side'[c]] /\ SegOf(ix'[c]) = SegOf(index[side[c]])
      BY SMTT(30), <3>1, <2>0, <1>n
    <3>5. /\ data'[c] <= seg'[side'[c]]
          /\ side'[c] = "push" => it'[c] \in owned'[c]
          /\ data'[c] <= cur'[c] /\ cur'[c] <= SegOf(ix'[c]) /\ cur'[c] < linked'
          /\ side'[c] = "pop" => ix'[c] \notin drained'
          /\ side'[c] = "push" => cell'[ix'[c]] \notin Items
      BY SMTT(30), <3>1, <3>2, <3>3, <3>4, <2>0, <1>n DEF PlaceOf
    <3> QED
      BY Zenon, <3>1, <3>4, <3>5, <2>0 DEF PlaceOf, Finding
  <2>3. CASE FindCell(c)
    <3>1. /\ pc[c] = "find"
          /\ UNCHANGED <<index, seg, linked, cell, owned, drained, side, it, data, ix>>
          /\ \/ /\ cur[c] = SegOf(ix[c]) /\ cur'[c] = cur[c]
                /\ pc'[c] = IF cur[c] # data[c] /\ SegOf(ix[c]) = data[c] + 1 THEN "clean" ELSE "swap"
             \/ cur[c] # SegOf(ix[c]) /\ cur[c] + 1 < linked /\ cur'[c] = cur[c] + 1 /\ pc'[c] = "find"
             \/ cur[c] # SegOf(ix[c]) /\ cur'[c] = cur[c] /\ pc'[c] = "link"
      BY Zenon, <2>3, <2>0 DEF FindCell, Goto, queue, SegId
    <3> QED
      BY <3>1, <2>0, <1>n DEF PlaceOf, Finding
  <2>4. CASE Link(c)
    <3>1. /\ pc[c] = "link" /\ pc'[c] = "find"
          /\ UNCHANGED <<index, seg, cell, owned, drained, side, it, data, ix>>
          /\ \/ linked' = linked /\ cur'[c] = cur[c]
             \/ linked' = linked + 1 /\ cur'[c] = cur[c] + 1
      BY SMTT(30), <2>4, <2>0 DEF Link, Goto
    <3> QED
      BY <3>1, <2>0, <1>n DEF PlaceOf, Finding
  <2>5. CASE CleanupSwing(c)
    <3>1. /\ pc[c] = "clean"
          /\ UNCHANGED <<index, linked, cell, owned, drained, side, it, data, cur, ix>>
          /\ \/ seg'[side[c]] = data[c] + 1 /\ pc'[c] = "count"
             \/ seg' = seg /\ pc'[c] = "swap"
      BY ZenonT(40), <2>5, <2>0 DEF CleanupSwing, Goto, Types
    <3> QED
      BY SMTT(30), <3>1, <2>0, <1>n DEF PlaceOf, Finding
  <2>6. CASE CleanupCount(c)
    <3>1. /\ pc[c] = "count" /\ pc'[c] = "swap"
          /\ UNCHANGED <<index, seg, linked, cell, owned, drained, side, it, data, cur, ix>>
      BY SMTT(30), <2>6, <2>0 DEF CleanupCount, Goto
    <3> QED
      BY Zenon, <3>1, <2>0, <1>n DEF PlaceOf, Finding
  <2>7. CASE pc'[c] = "idle"
    BY Zenon, <2>7 DEF PlaceOf, Finding
  <2>8. CASE SwapOut(c) /\ pc'[c] # "idle"
    <3>1. /\ pc[c] = "swap" /\ pc'[c] = "tail" /\ side[c] = "pop"
          /\ UNCHANGED <<index, seg, side, data, ix>>
      BY Zenon, <2>8, <2>0 DEF SwapOut, Goto, Return
    <3> QED
      BY Zenon, <3>1, <2>0 DEF PlaceOf, Finding
  <2>9. CASE LoadTail(c) /\ pc'[c] # "idle"
    <3>1. /\ pc[c] = "tail" /\ pc'[c] = "empty" /\ UNCHANGED <<seg, side, data>>
      BY <2>9, <2>0 DEF LoadTail, Goto, Return, queue
    <3> QED
      BY Zenon, <3>1, <2>0 DEF PlaceOf, Finding
  <2>10. SwapIn(c) \/ ReturnEmpty(c) => pc'[c] = "idle"
    BY Zenon, <2>0 DEF SwapIn, ReturnEmpty, Return, Goto
  <2> QED
    BY Zenon, <2>1, <2>2, <2>3, <2>4, <2>5, <2>6, <2>7, <2>8, <2>9, <2>10 DEF Action, Step
<1> QED
  BY Zenon, <1>1, <1>2, <1>3 DEF Places

(* A step gives no index out twice, and leaves each item with one client   *)
(* or in one cell: the two swaps of a cell, in either order, decide on     *)
(* success or failure of the push.                                         *)
LEMMA ItemsStep ==
    ASSUME Sound, IInv, Types', NEW c \in Clients, Action(c), Mine(c), Effect(c)
    PROVE  Distinct' /\ Filled' /\ InOnePlace'
<1> USE DEF IInv
<1>0. /\ PlaceOf(c) /\ side[c] \in Sides /\ ix[c] \in Cells /\ ix[c] \in Nat
      /\ \A i \in Cells : i \in Nat
      /\ \A s \in Sides : index[s] \in Nat /\ index'[s] \in Nat /\ index[s] <= index'[s]
      /\ \A d \in Clients : /\ ix[d] \in Nat /\ data[d] \in Nat /\ side[d] \in Sides
                            /\ ix[d] \in Cells
      /\ \A s \in Sides : seg[s] \in Nat
      /\ "push" \in Sides /\ "pop" \in Sides
  <2>1. \A s \in Sides : index'[s] \in Nat
    BY SMTT(30) DEF Types, Sound
  <2> QED
    BY Zenon, <2>1, Numbers, SegFacts DEF Places, Sides, Effect
<1>1. /\ pc'[c] \in Finding =>
           /\ side'[c] = side[c]
           /\ (pc[c] \in Finding /\ ix'[c] = ix[c]) \/ ix'[c] = index[side[c]]
      /\ pc'[c] = "count" => data'[c] = data[c] /\ data[c] = seg[side[c]] /\ side'[c] = side[c]
  <2>1. pc \in [Clients -> Labels] /\ ix \in [Clients -> Cells]
    BY Zenon DEF Types
  <2>2. CASE Push(c) \/ Pop(c)
    BY Zenon, <2>1, <2>2 DEF Push, Pop, Begin, Goto, Finding
  <2>3. CASE Add(c) \/ FindCell(c) \/ Link(c)
    BY Zenon, <2>1, <2>3 DEF Add, FindCell, Link, Goto, Finding
  <2>4. CASE CleanupSwing(c) \/ CleanupCount(c)
    BY Zenon, <2>1, <2>4 DEF CleanupSwing, CleanupCount, Goto, Finding
  <2>5. CASE SwapIn(c) \/ SwapOut(c) \/ LoadTail(c) \/ ReturnEmpty(c)
    BY SMTT(30), <2>1, <2>5 DEF SwapIn, SwapOut, LoadTail, ReturnEmpty, Return, Goto, Finding
  <2> QED
    BY ZenonT(30), <2>2, <2>3, <2>4, <2>5 DEF Action, Step
<1>2. Distinct'
  <2>1. ASSUME NEW d \in Clients, d # c, side'[c] = side'[d]
        PROVE  /\ pc'[c] \in Finding /\ pc'[d] \in Finding => ix'[c] # ix'[d]
               /\ pc'[c] = "count" /\ pc'[d] = "count" => data'[c] # data'[d]
    <3>1. /\ pc'[d] = pc[d] /\ side'[d] = side[d] /\ ix'[d] = ix[d] /\ data'[d] = data[d]
          /\ PlaceOf(d)
      BY Zenon, <2>1 DEF Mine, Places
    <3>2. pc[d] \in Finding => ix[d] < index[side[d]]
      BY Zenon, <3>1 DEF PlaceOf
    <3>3. pc[d] = "count" => data[d] < seg[side[d]]
      BY Zenon, <3>1 DEF PlaceOf
    <3>4. pc'[c] \in Finding /\ pc'[d] \in Finding => ix'[c] # ix'[d]
      BY SMTT(30), <3>1, <3>2, <2>1, <1>1, <1>0 DEF Distinct
    <3>5. pc'[c] = "count" /\ pc'[d] = "count" => data'[c] # data'[d]
      BY <3>1, <3>3, <2>1, <1>1, <1>0
    <3> QED
      BY Zenon, <3>4, <3>5
  <2>2. ASSUME NEW d \in Clients, NEW e \in Clients, d # c, e # c, d # e, side'[d] = side'[e]
        PROVE  /\ pc'[e] \in Finding /\ pc'[d] \in Finding => ix'[e] # ix'[d]
               /\ pc'[e] = "count" /\ pc'[d] = "count" => data'[e] # data'[d]
    BY <2>2 DEF Mine, Distinct
  <2> QED
    BY Zenon, <2>1, <2>2 DEF Distinct
<1> USE DEF Sound
<1>s. pc[c] = "swap" => /\ ix[c] < index[side[c]]
                        /\ side[c] = "push" => it[c] \in owned[c] /\ cell[ix[c]] \notin Items
                        /\ side[c] = "push" => it[c] \in Items
                        /\ side[c] = "pop" => ix[c] \notin drained
  BY Zenon, <1>0 DEF PlaceOf, Finding, Types
<1>t. /\ cell \in [Cells -> Items \cup {Zero, SENTINEL}] /\ owned \in [Clients -> SUBSET Items]
      /\ Zero # SENTINEL /\ Zero \notin Items /\ SENTINEL \notin Items
  BY Zenon DEF Types, Zero, SENTINEL
<1>3. CASE UNCHANGED <<cell, drained, owned>>
  <2>1. Filled'
    BY <1>3, <1>0 DEF Filled
  <2>2. InOnePlace'
    BY Zenon, <1>3 DEF InOnePlace
  <2> QED
    BY SMTT(30), <1>2, <2>1, <2>2
<1>4. CASE /\ pc[c] = "swap" /\ side[c] = "push" /\ UNCHANGED drained
           /\ cell' = [cell EXCEPT ![ix[c]] = it[c]]
           /\ owned' = IF cell[ix[c]] = Zero THEN [owned EXCEPT ![c] = @ \ {it[c]}] ELSE owned
  <2>0. it[c] \in Items /\ it[c] \in owned[c] /\ cell[ix[c]] \notin Items /\ ix[c] < index["push"]
    BY SMTT(30), <1>4, <1>s
  <2>1. Filled'
    BY SMTT(30), <1>4, <1>0, <1>t, <2>0 DEF Filled
  <2>2. CASE cell[ix[c]] = Zero
    <3>1. ix[c] \notin drained
      BY Zenon, <2>2, <1>0 DEF Filled
    <3>2. \A d \in Clients : d # c => owned'[d] = owned[d]
      BY Zenon DEF Effect
    <3>3. owned'[c] = owned[c] \ {it[c]}
      BY Zenon, <1>4, <2>2, <1>t
    <3>4. \A i \in Cells : cell'[i] = IF i = ix[c] THEN it[c] ELSE cell[i]
      BY Zenon, <1>4, <1>t
    <3> QED
      BY <1>4, <3>1, <3>2, <3>3, <3>4, <2>0, <2>1, <1>2, <1>0 DEF InOnePlace
  <2>3. CASE cell[ix[c]] # Zero
    <3>1. ix[c] \in drained /\ owned' = owned
      BY ZenonT(30), <2>3, <1>0, <1>t, <2>0, <1>4 DEF Filled
    <3>4. \A i \in Cells : cell'[i] = IF i = ix[c] THEN it[c] ELSE cell[i]
      BY Zenon, <1>4, <1>t
    <3> QED
      BY SMTT(30), <1>4, <3>1, <3>4, <2>0, <2>1, <1>2, <1>0 DEF InOnePlace
  <2> QED
    BY Zenon, <2>2, <2>3
<1>5. CASE /\ pc[c] = "swap" /\ side[c] = "pop" /\ drained' = drained \cup {ix[c]}
           /\ cell' = [cell EXCEPT ![ix[c]] = SENTINEL]
           /\ owned' = IF cell[ix[c]] = Zero THEN owned
                                             ELSE [owned EXCEPT ![c] = @ \cup {cell[ix[c]]}]
  <2>0. ix[c] \notin drained /\ ix[c] < index["pop"] /\ ix[c] < index'["pop"]
    <3>1. ix[c] \notin drained /\ ix[c] < index["pop"]
      BY Zenon, <1>5, <1>s
    <3> QED
      BY <3>1, <1>0
  <2>4. \A i \in Cells : cell'[i] = IF i = ix[c] THEN SENTINEL ELSE cell[i]
    BY SMTT(30), <1>5, <1>t
  <2>1. Filled'
    BY SMTT(30), <1>5, <1>0, <1>t, <2>0, <2>4 DEF Filled
  <2>2. CASE cell[ix[c]] = Zero
    BY ZenonT(40), <2>2, <2>4, <2>1, <1>5, <1>2, <1>t, <1>0 DEF InOnePlace
  <2>3. CASE cell[ix[c]] # Zero
    <3>1. cell[ix[c]] \in Items
      BY Zenon, <2>3, <2>0, <1>0, <1>t DEF Filled
    <3>2. \A d \in Clients : d # c => owned'[d] = owned[d]
      BY ZenonT(30) DEF Effect
    <3>3. owned'[c] = owned[c] \cup {cell[ix[c]]}
      BY Zenon, <1>5, <2>3, <1>t
    <3> QED
      BY SMTT(30), <1>5, <3>1, <3>2, <3>3, <2>0, <2>1, <2>4, <1>2, <1>0, <1>t DEF InOnePlace
  <2> QED
    BY Zenon, <2>2, <2>3
<1> QED
  BY Zenon, <1>3, <1>4, <1>5 DEF Effect

(* try_cleanup counts each pointer that leaves a segment once, and hands   *)
(* the segment to the collector with the second; who pins later loads a    *)
(* later segment.                                                          *)
LEMMA ReclaimStep ==
    ASSUME Sound, IInv, Types', NEW c \in Clients, Action(c), Mine(c)
    PROVE  Reclaim'
<1> USE DEF IInv
<1>0. /\ PlaceOf(c) /\ side[c] \in Sides /\ data[c] \in Segments /\ data[c] \in Nat
      /\ \A k \in Segments : k \in Nat
      /\ \A s \in Sides : seg[s] \in Nat
      /\ \A d \in Clients : data[d] \in Nat
      /\ Sides = {"push", "pop"} /\ ~dropped /\ ~dropped'
      /\ \A k \in Segments : ctr[k] \in Nat /\ unlinked[k] \in Nat
      /\ pc \in [Clients -> Labels] /\ data \in [Clients -> Segments]
  BY SMTT(30), Numbers, SegFacts DEF Places, Sides, Mine, Types
<1>1. ASSUME NEW k \in Segments
      PROVE  /\ ctr[k] = (IF HasLeft("push", k) THEN 1 ELSE 0) + (IF HasLeft("pop", k) THEN 1 ELSE 0)
             /\ unlinked[k] = IF ctr[k] = 2 THEN 1 ELSE 0
             /\ unlinked[k] > 0 => HasLeft("push", k) /\ HasLeft("pop", k)
  <2>1. /\ ctr[k] = (IF HasLeft("push", k) THEN 1 ELSE 0) + (IF HasLeft("pop", k) THEN 1 ELSE 0)
        /\ unlinked[k] = IF ctr[k] = 2 THEN 1 ELSE 0
    BY <1>0, Zenon DEF Reclaim
  <2>2. ctr[k] = 2 => HasLeft("push", k) /\ HasLeft("pop", k)
    BY <2>1
  <2> QED
    BY <2>1, <2>2
<1>2. SUFFICES ASSUME NEW k \in Segments
      PROVE  /\ ctr'[k] = (IF HasLeft("push", k)' THEN 1 ELSE 0) + (IF HasLeft("pop", k)' THEN 1 ELSE 0)
             /\ unlinked'[k] = IF ctr'[k] = 2 THEN 1 ELSE 0
             /\ unlinked'[k] > 0 =>
                  \A d \in Clients : pc'[d] # "idle" /\ d \notin pinned'[k] => k < data'[d]
  BY Zenon, <1>0 DEF Reclaim
<1>3. /\ unlinked[k] > 0 => \A d \in Clients :
            pc[d] # "idle" /\ d \notin pinned[k] => k < data[d]
      /\ \A d \in Clients : d # c => pc'[d] = pc[d] /\ side'[d] = side[d] /\ data'[d] = data[d]
  BY Zenon DEF Reclaim, Mine
<1>4. CASE CleanupCount(c)
  <2>1. /\ pc[c] = "count" /\ pc'[c] = "swap" /\ UNCHANGED <<seg, side, data>>
        /\ ctr' = [ctr EXCEPT ![data[c]] = @ + 1]
        /\ IF ctr[data[c]] = 1 THEN Unlink(data[c]) ELSE UNCHANGED reclaim
    BY Zenon, <1>4, <1>0 DEF CleanupCount, Goto
  <2>2. \A d \in Clients : d # c /\ pc[d] = "count" /\ side[d] = side[c] => data[d] # data[c]
    BY SMTT(30), <2>1 DEF Distinct
  <2>3. \A s \in Sides : s = side[c] /\ k = data[c] => ~HasLeft(s, k) /\ HasLeft(s, k)'
    BY Zenon, <2>1, <2>2, <1>3, <1>0 DEF HasLeft, PlaceOf
  <2>4. \A s \in Sides : s # side[c] \/ k # data[c] => (HasLeft(s, k)' <=> HasLeft(s, k))
    BY Zenon, <2>1, <1>3 DEF HasLeft
  <2>d. k = data[c] =>
          \/ /\ ~HasLeft("push", k) /\ HasLeft("push", k)'
             /\ HasLeft("pop", k)' <=> HasLeft("pop", k)
          \/ /\ ~HasLeft("pop", k) /\ HasLeft("pop", k)'
             /\ HasLeft("push", k)' <=> HasLeft("push", k)
    <3>1. CASE side[c] = "push"
      BY Zenon, <3>1, <2>3, <2>4, <1>0
    <3>2. CASE side[c] = "pop"
      BY Zenon, <3>2, <2>3, <2>4, <1>0
    <3> QED
      BY Zenon, <3>1, <3>2, <1>0
  <2>5. CASE k # data[c]
    <3>1. ctr'[k] = ctr[k] /\ unlinked'[k] = unlinked[k] /\ pinned'[k] = pinned[k]
      BY SMTT(30), <2>1, <2>5, <1>0 DEF Unlink, reclaim, Types
    <3>2. \A d \in Clients : pc'[d] # "idle" => pc[d] # "idle"
      BY Zenon, <2>1, <1>3
    <3> QED
      BY ZenonT(30), <3>1, <3>2, <2>1, <2>4, <2>5, <1>1, <1>3, <1>0
  <2>6. CASE k = data[c] /\ ctr[k] = 1
    <3>1. /\ ctr'[k] = 2 /\ unlinked'[k] = unlinked[k] + 1
          /\ pinned'[k] = {d \in Clients : pc[d] # "idle"}
      BY SMTT(30), <2>1, <2>6, <1>0 DEF Unlink, Types
    <3>2. \A d \in Clients : pc'[d] # "idle" => pc[d] # "idle"
      BY Zenon, <2>1, <1>3
    <3>3. unlinked[k] = 0
      BY <1>1, <2>6
    <3>4. HasLeft("push", k)' /\ HasLeft("pop", k)'
      <4>1. HasLeft("push", k) \/ HasLeft("pop", k)
        BY <2>6, <1>1
      <4> QED
        BY <2>d, <2>6, <4>1, Zenon
    <3> QED
      BY SMTT(30), <3>1, <3>2, <3>3, <3>4
  <2>7. CASE k = data[c] /\ ctr[k] # 1
    <3>1. ctr'[k] = ctr[k] + 1 /\ unlinked'[k] = unlinked[k]
      BY Zenon, <2>1, <2>7, <1>0 DEF reclaim, Types
    <3>2. ctr[k] = 0 /\ unlinked[k] = 0
      BY <2>d, <2>7, <1>1, <1>0
    <3>3. \/ HasLeft("push", k)' /\ ~HasLeft("pop", k)'
          \/ HasLeft("pop", k)' /\ ~HasLeft("push", k)'
      <4>1. ~HasLeft("push", k) /\ ~HasLeft("pop", k)
        BY <3>2, <1>1
      <4> QED
        BY <2>d, <2>7, <4>1, Zenon
    <3> QED
      BY SMTT(30), <3>1, <3>2, <3>3
  <2> QED
    BY Zenon, <2>5, <2>6, <2>7
<1>5. CASE ~CleanupCount(c)
  <2>1. ctr' = ctr /\ unlinked' = unlinked
    BY Zenon, <1>5 DEF Action, Step, Push, Pop, Begin, Add, FindCell, Link, CleanupSwing,
                SwapIn, SwapOut, LoadTail, ReturnEmpty, queue, reclaim
  <2>2. \A s \in Sides : HasLeft(s, k)' <=> HasLeft(s, k)
    <3>1. CASE UNCHANGED seg /\ pc[c] # "count" /\ pc'[c] # "count"
      BY Zenon, <3>1, <1>3 DEF HasLeft
    <3>2. CASE CleanupSwing(c)
      <4>1. CASE seg[side[c]] = data[c]
        <5>1. /\ pc[c] = "clean" /\ pc'[c] = "count" /\ UNCHANGED <<side, data>>
              /\ seg' = [seg EXCEPT ![side[c]] = data[c] + 1]
          BY Zenon, <3>2, <4>1, <1>0 DEF CleanupSwing, Goto
        <5>2. \A s \in Sides : seg'[s] = IF s = side[c] THEN data[c] + 1 ELSE seg[s]
          BY Zenon, <5>1 DEF Types
        <5>3. ASSUME NEW s \in Sides PROVE HasLeft(s, k)' <=> HasLeft(s, k)
          <6>1. CASE s # side[c]
            BY Zenon, <6>1, <5>1, <5>2, <1>3 DEF HasLeft
          <6>2. CASE s = side[c] /\ k # data[c]
            <7>1. k < seg'[s] <=> k < seg[s]
              BY <6>2, <5>2, <4>1, <1>0
            <7> QED
              BY Zenon, <7>1, <6>2, <5>1, <1>3 DEF HasLeft
          <6>3. CASE s = side[c] /\ k = data[c]
            BY <6>3, <5>1, <4>1, <1>0 DEF HasLeft
          <6> QED
            BY Zenon, <6>1, <6>2, <6>3
        <5> QED
          BY Zenon, <5>3
      <4>2. CASE seg[side[c]] # data[c]
        BY Zenon, <3>1, <3>2, <4>2, <1>0 DEF CleanupSwing, Goto
      <4> QED
        BY Zenon, <4>1, <4>2
    <3>3. CASE Push(c) \/ Pop(c) \/ Add(c) \/ FindCell(c) \/ Link(c)
      <4>1. UNCHANGED seg /\ pc[c] # "count" /\ pc'[c] # "count"
        BY SMTT(30), <3>3, <1>0 DEF Push, Pop, Begin, Add, FindCell, Link, Goto, queue
      <4> QED
        BY Zenon, <4>1, <3>1
    <3>4. CASE SwapIn(c) \/ SwapOut(c) \/ LoadTail(c) \/ ReturnEmpty(c)
      <4>1. UNCHANGED seg /\ pc[c] # "count" /\ pc'[c] # "count"
        BY Zenon, <3>4, <1>0 DEF SwapIn, SwapOut, LoadTail, ReturnEmpty, Return, Goto, queue
      <4> QED
        BY Zenon, <4>1, <3>1
    <3> QED
      BY Zenon, <1>5, <3>2, <3>3, <3>4 DEF Action, Step
  <2>3. ASSUME unlinked'[k] > 0, NEW d \in Clients, pc'[d] # "idle", d \notin pinned'[k]
        PROVE  k < data'[d]
    <3>1. k < seg["push"] /\ k < seg["pop"]
      BY ZenonT(30), <2>3, <2>1, <1>1 DEF HasLeft
    <3>2. CASE Push(c) \/ Pop(c)
      <4>1. UNCHANGED pinned /\ data'[c] \in {seg["push"], seg["pop"]}
        BY Zenon, <3>2, <1>0 DEF Push, Pop, Begin, reclaim
      <4> QED
        BY Zenon, <4>1, <3>1, <2>1, <2>3, <1>3
    <3>3. CASE pc'[c] = "idle" /\ pinned' = [l \in Segments |-> pinned[l] \ {c}]
      BY Zenon, <3>3, <2>1, <2>3, <1>3
    <3>4. CASE UNCHANGED <<pinned, data>> /\ pc[c] # "idle"
      BY Zenon, <3>4, <2>1, <2>3, <1>3
    <3>5. CASE Add(c) \/ FindCell(c) \/ Link(c) \/ CleanupSwing(c)
      BY Zenon, <3>4, <3>5 DEF Add, FindCell, Link, CleanupSwing, reclaim
    <3>6. CASE SwapIn(c) \/ ReturnEmpty(c)
      BY Zenon, <3>3, <3>6, <1>0 DEF SwapIn, ReturnEmpty, Return, Goto
    <3>7. CASE SwapOut(c)
      BY Zenon, <3>3, <3>4, <3>7, <1>0 DEF SwapOut, Return, Goto
    <3>8. CASE LoadTail(c)
      BY Zenon, <3>3, <3>4, <3>8, <1>0 DEF LoadTail, Return, Goto
    <3> QED
      BY SMTT(30), <1>5, <3>2, <3>5, <3>6, <3>7, <3>8 DEF Action, Step
  <2> QED
    BY Zenon, <2>1, <2>2, <2>3, <1>1, <1>0
<1> QED
  BY ZenonT(30), <1>4, <1>5
-----------------------------------------------------------------------------
(* The invariant holds of a new queue, and every step of a client and Drop *)
(* keep it.                                                                *)
THEOREM Invariance == ASSUME Sound PROVE Spec => []IInv
<1>1. Init => IInv
  <2> SUFFICES ASSUME Init PROVE IInv
    BY Zenon
  <2> USE DEF Init
  <2>0. 0 \in Segments /\ 0 \in Cells /\ SegOf(0) = 0 /\ 0 \in 0 .. MaxIndex /\ "push" \in Sides
    BY SegFacts DEF Sound, Sides
  <2>1. Types
    <3>1. linked - 1 \in Segments /\ linked \in Nat /\ "idle" \in Labels
      BY <2>0 DEF Labels
    <3> QED
      BY ZenonT(30), <3>1, <2>0 DEF Types
  <2>2. Pointers
    BY <2>0 DEF Pointers
  <2>3. Places /\ Distinct
    BY Zenon DEF Places, PlaceOf, Distinct, Finding
  <2>4. Filled
    BY Zenon DEF Filled, Sound, Zero, SENTINEL
  <2>5. InOnePlace
    BY Zenon DEF InOnePlace, Sound
  <2>6. Reclaim
    <3>1. \A k \in Segments : k \in Nat /\ ctr[k] = 0 /\ unlinked[k] = 0
      BY Zenon, SegFacts
    <3>2. \A s \in Sides, k \in Segments : ~HasLeft(s, k)
      BY <3>1 DEF HasLeft
    <3> QED
      BY <3>1, <3>2 DEF Reclaim, Sides
  <2> QED
    BY Zenon, <2>1, <2>2, <2>3, <2>4, <2>5, <2>6 DEF IInv
<1>2. ASSUME IInv, NEW c \in Clients, Action(c) PROVE IInv'
  <2>1. Types' /\ Mine(c) /\ Effect(c)
    BY Zenon, <1>2, ClientStep DEF IInv
  <2> QED
    BY Zenon, <1>2, <2>1, PlacesStep, ItemsStep, ReclaimStep DEF IInv
<1>3. ASSUME IInv, Drop PROVE IInv'
  <2>1. /\ ~dropped /\ dropped' /\ dropped' \in BOOLEAN /\ \A c \in Clients : pc[c] = "idle"
        /\ UNCHANGED <<index, seg, linked, ctr, cell, owned, drained, pinned, pc, side, it, data,
                       cur, ix>>
    BY Zenon, <1>3 DEF Drop, queue
  <2>2. \E m \in Nat : /\ m <= seg["push"] /\ m <= seg["pop"] /\ (m = seg["push"] \/ m = seg["pop"])
                       /\ unlinked' = [k \in Segments |-> IF k \in m .. linked - 1
                                                          THEN unlinked[k] + 1 ELSE unlinked[k]]
    BY <1>3, Numbers DEF Drop, IInv, Sides
  <2>3. Types'
    BY <2>1, <2>2, <1>3 DEF IInv, Types
  <2>4. Pointers' /\ Distinct' /\ Filled' /\ InOnePlace'
    BY Zenon, <2>1, <1>3 DEF IInv, Pointers, Distinct, Filled, InOnePlace
  <2>5. Places'
    BY Zenon, <2>1 DEF Places, PlaceOf, Finding
  <2>6. Reclaim'
    <3>0. /\ \A k \in Segments : k \in Nat /\ unlinked[k] \in Nat
          /\ linked \in Nat /\ seg["push"] \in Nat /\ seg["pop"] \in Nat
          /\ seg["push"] < linked /\ seg["pop"] < linked
      BY Zenon, <1>3, SegFacts, Numbers DEF IInv, Types, Sides, Pointers
    <3>1. \A s \in Sides, k \in Segments : /\ HasLeft(s, k) <=> k < seg[s]
                                           /\ HasLeft(s, k)' <=> k < seg[s]
      BY Zenon, <2>1 DEF HasLeft
    <3>2. ASSUME NEW k \in Segments
          PROVE  /\ ctr[k] = (IF k < seg["push"] THEN 1 ELSE 0) + (IF k < seg["pop"] THEN 1 ELSE 0)
                 /\ unlinked[k] = IF ctr[k] = 2 THEN 1 ELSE 0
      BY ZenonT(30), <1>3, <2>1, <3>1 DEF IInv, Reclaim, Sides
    <3>3. ASSUME NEW k \in Segments
          PROVE  unlinked'[k] = IF k < linked THEN 1 ELSE 0
      <4>1. PICK m \in Nat :
              /\ m <= seg["push"] /\ m <= seg["pop"] /\ (m = seg["push"] \/ m = seg["pop"])
              /\ unlinked'[k] = IF k \in m .. linked - 1 THEN unlinked[k] + 1 ELSE unlinked[k]
        BY Zenon, <2>2
      <4>2. unlinked[k] = IF k < m THEN 1 ELSE 0
        BY <4>1, <3>0, <3>2
      <4> QED
        BY <4>1, <4>2, <3>0
    <3>4. ASSUME NEW k \in Segments
          PROVE  ctr'[k] = (IF HasLeft("push", k)' THEN 1 ELSE 0) + (IF HasLeft("pop", k)' THEN 1 ELSE 0)
      BY SMTT(30), <3>1, <3>2, <2>1 DEF Sides
    <3> QED
      BY Zenon, <3>3, <3>4, <2>1 DEF Reclaim
  <2> QED
    BY Zenon, <2>3, <2>4, <2>5, <2>6 DEF IInv
<1>4. ASSUME IInv, UNCHANGED vars PROVE IInv'
  BY SMTT(30), <1>4 DEF IInv, vars, queue, reclaim, Types, Pointers, Places, PlaceOf, Distinct, Filled,
              InOnePlace, Reclaim, HasLeft
<1>5. IInv /\ [Next]_vars => IInv'
  BY Zenon, <1>2, <1>3, <1>4 DEF Next, Action
<1> QED
  BY <1>1, <1>5, PTL DEF Spec
-----------------------------------------------------------------------------
(* find_cell only walks forward, however its pointer load is overtaken:    *)
(* its assertion (queue.rs:430) never fails.                               *)
THEOREM FindCellWalksForward == ASSUME Sound PROVE Spec => []WalksForward
<1>1. IInv => WalksForward
  BY ZenonT(30) DEF IInv, Places, PlaceOf, Finding, WalksForward, SegId
<1> QED
  BY <1>1, Invariance, PTL

(* try_cleanup hands a segment to the collector when the second pointer    *)
(* leaves it, once, and whoever is still in it has a guard; Drop hands out *)
(* the rest, and none a second time.                                       *)
THEOREM SegmentsAreSafe == ASSUME Sound PROVE Spec => []NoUseAfterFree
<1>1. IInv => NoUseAfterFree
  <2> SUFFICES ASSUME IInv PROVE NoUseAfterFree
    BY Zenon
  <2>0. linked \in Nat /\ linked - 1 \in Segments /\ \A k \in Segments : k \in Nat
    BY Zenon, SegFacts DEF IInv, Types
  <2>1. ASSUME NEW c \in Clients, pc[c] # "idle"
        PROVE  ~Freed(data[c]) /\ (pc[c] \in Finding => ~Freed(cur[c]))
    <3>1. data[c] \in Segments /\ cur[c] \in Segments /\ data[c] \in Nat /\ cur[c] \in Nat
      BY Zenon, Numbers DEF IInv
    <3>2. pc[c] \in Finding => data[c] <= cur[c]
      BY Zenon DEF IInv, Places, PlaceOf
    <3>3. \A k \in Segments : Freed(k) => k < data[c]
      BY Zenon, <2>1 DEF IInv, Reclaim, Freed
    <3> QED
      BY <3>1, <3>2, <3>3
  <2>2. \A k \in Segments : unlinked[k] <= 1
    BY DEF IInv, Reclaim, Types
  <2>3. ASSUME dropped, NEW k \in 0 .. linked - 1 PROVE unlinked[k] = 1
    <3>1. k \in Segments /\ k < linked
      BY <2>0, SegFacts
    <3> QED
      BY Zenon, <3>1, <2>3 DEF IInv, Reclaim
  <2> QED
    BY ZenonT(30), <2>1, <2>2, <2>3 DEF NoUseAfterFree, Finding
<1> QED
  BY <1>1, Invariance, PTL

(* When try_pop finds its own index past the tail counter, every cell that *)
(* no pop was given yet is without an item: its Empty is honest.           *)
THEOREM EmptyHonest == ASSUME Sound PROVE Spec => EmptyIsHonest
<1>1. ASSUME IInv, NEW a \in Clients, Action(a), NEW c \in Clients, pc[c] = "tail", pc'[c] = "empty"
      PROVE  ~ \E i \in Cells : i >= index["pop"] /\ cell[i] \in Items
  <2>1. a = c
    BY SMTT(30), <1>1, ClientStep DEF IInv, Mine
  <2>2. LoadTail(c) /\ ix[c] > index["push"]
    BY ZenonT(30), <1>1, <2>1 DEF Action, Step, Push, Pop, Begin, Add, FindCell, Link, CleanupSwing,
                      CleanupCount, SwapIn, SwapOut, LoadTail, ReturnEmpty, Return, Goto, IInv, Types
  <2>3. ix[c] < index["pop"]
    BY ZenonT(30), <1>1 DEF IInv, Places, PlaceOf
  <2>4. ix[c] \in Nat /\ index["push"] \in Nat /\ index["pop"] \in Nat /\ \A i \in Cells : i \in Nat
    BY Zenon, <1>1, Numbers, SegFacts DEF IInv, Sides
  <2> QED
    BY <1>1, <2>2, <2>3, <2>4 DEF IInv, Filled
<1>2. ASSUME IInv, Drop, NEW c \in Clients PROVE pc'[c] = pc[c]
  BY Zenon, <1>2 DEF Drop
<1>3. IInv /\ [Next]_vars =>
        [\A c \in Clients : pc[c] = "tail" /\ pc'[c] = "empty" =>
            ~ \E i \in Cells : i >= index["pop"] /\ cell[i] \in Items]_vars
  BY Zenon, <1>1, <1>2 DEF Next, Action
<1> QED
  BY <1>3, Invariance, PTL DEF Spec, EmptyIsHonest

(* try_push and try_pop implement the weak bag of bag.rs: the swap of a    *)
(* push that finds no sentinel puts its item in, one pop gets it out, and  *)
(* no other step of either, nor Drop, moves an item.                       *)
THEOREM ImplementsWeakBag == ASSUME Sound PROVE Spec => IsWeakBag
<1>1. Init => Bag!Init
  BY SMTT(30) DEF Init, Bag!Init, Present, Sound, Zero
<1>2. ASSUME IInv, NEW c \in Clients, Action(c) PROVE [Bag!Next]_<<Present, owned>>
  <2>1. Effect(c)
    BY Zenon, <1>2, ClientStep DEF IInv
  <2>0. /\ cell \in [Cells -> Items \cup {Zero, SENTINEL}] /\ ix[c] \in Cells
        /\ Zero \notin Items /\ SENTINEL \notin Items /\ Zero # SENTINEL
        /\ it[c] \in Items \cup {Zero} /\ owned \in [Clients -> SUBSET Items] /\ PlaceOf(c)
    BY Zenon, <1>2 DEF IInv, Types, Sound, Zero, SENTINEL, Places
  <2>2. CASE UNCHANGED <<cell, drained, owned>>
    BY Zenon, <2>2 DEF Present
  <2>3. CASE /\ pc[c] = "swap" /\ side[c] = "push" /\ UNCHANGED drained
             /\ cell' = [cell EXCEPT ![ix[c]] = it[c]]
             /\ owned' = IF cell[ix[c]] = Zero THEN [owned EXCEPT ![c] = @ \ {it[c]}] ELSE owned
    <3>0. it[c] \in owned[c] /\ it[c] \in Items /\ cell[ix[c]] \notin Items
      BY Zenon, <2>3, <2>0 DEF PlaceOf, Finding
    <3>1. \A i \in Cells : cell'[i] = IF i = ix[c] THEN it[c] ELSE cell[i]
      BY Zenon, <2>3, <2>0
    <3>2. CASE cell[ix[c]] = Zero
      <4>1. ix[c] \notin drained
        BY Zenon, <1>2, <3>2, <2>0 DEF IInv, Filled
      <4>2. Present' = Present \cup {it[c]}
        BY Zenon, <4>1, <3>0, <3>1, <2>0, <2>3 DEF Present
      <4>3. Bag!Push(c, it[c])
        BY Zenon, <4>2, <3>0, <3>2, <2>3 DEF Bag!Push
      <4> QED
        BY Zenon, <4>3, <3>0 DEF Bag!Next
    <3>3. CASE cell[ix[c]] # Zero
      <4>1. ix[c] \in drained /\ owned' = owned
        BY Zenon, <1>2, <3>0, <3>3, <2>0, <2>3 DEF IInv, Filled
      <4>2. Present' = Present
        BY <4>1, <3>1, <2>3 DEF Present
      <4> QED
        BY SMTT(30), <4>1, <4>2
    <3> QED
      BY Zenon, <3>2, <3>3
  <2>4. CASE /\ pc[c] = "swap" /\ side[c] = "pop" /\ drained' = drained \cup {ix[c]}
             /\ cell' = [cell EXCEPT ![ix[c]] = SENTINEL]
             /\ owned' = IF cell[ix[c]] = Zero THEN owned
                                               ELSE [owned EXCEPT ![c] = @ \cup {cell[ix[c]]}]
    <3>0. ix[c] \notin drained /\ cell[ix[c]] # SENTINEL
      BY Zenon, <1>2, <2>4, <2>0 DEF PlaceOf, Finding, IInv, Filled
    <3>1. \A i \in Cells : cell'[i] = IF i = ix[c] THEN SENTINEL ELSE cell[i]
      BY Zenon, <2>4, <2>0
    <3>2. CASE cell[ix[c]] = Zero
      <4>1. Present' = Present
        BY SMTT(30), <3>1, <3>2, <2>0, <2>4 DEF Present
      <4> QED
        BY Zenon, <4>1, <3>2, <2>4
    <3>3. CASE cell[ix[c]] # Zero
      <4>1. cell[ix[c]] \in Items /\ cell[ix[c]] \in Present
        BY SMTT(30), <3>0, <3>3, <2>0 DEF Present
      <4>2. Present' = Present \ {cell[ix[c]]}
        BY Zenon, <1>2, <4>1, <3>0, <3>1, <2>0, <2>4 DEF Present, IInv, InOnePlace
      <4>3. Bag!Get(c, cell[ix[c]])
        BY Zenon, <4>1, <4>2, <3>3, <2>4 DEF Bag!Get
      <4> QED
        BY Zenon, <4>1, <4>3 DEF Bag!Next
    <3> QED
      BY SMTT(30), <3>2, <3>3
  <2> QED
    BY Zenon, <2>1, <2>2, <2>3, <2>4 DEF Effect
<1>4. Drop \/ UNCHANGED vars => UNCHANGED <<cell, drained, owned>>
  BY Zenon DEF Drop, vars, queue
<1>5. IInv /\ [Next]_vars => [Bag!Next]_<<Present, owned>>
  <2>1. ASSUME UNCHANGED <<cell, drained, owned>> PROVE UNCHANGED <<Present, owned>>
    BY Zenon, <2>1 DEF Present
  <2> QED
    BY Zenon, <1>2, <1>4, <2>1 DEF Next, Action
<1> QED
  BY <1>1, <1>5, Invariance, PTL DEF Spec, IsWeakBag, Bag!Spec
=============================================================================
