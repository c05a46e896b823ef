----------------------------- MODULE DepotProofs -----------------------------
(***************************************************************************)
(* For any number of threads, objects and magazines, and any capacity and  *)
(* limits: every magazine and every object is in one place, the pipes of   *)
(* the depot hold what their names say and no more than the limit and the  *)
(* error of its guess, and a thread goes to the depot at most every Cap    *)
(* calls.                                                                  *)
(***************************************************************************)
EXTENDS Depot, FiniteSetTheorems, TLAPS

\* The points of the code a thread can be at.
Labels == {"unborn", "new", "new_empty", "idle", "alloc_full", "free_empty", "push_empty",
           "refill", "free_full", "push_full", "alloc_empty", "spill", "drop", "drop_push",
           "drop_depot", "dropped"}

Shared ==
    /\ objs \in [Mags -> SUBSET Objects]
    /\ \A x \in Mags : IsFiniteSet(objs[x]) /\ Cardinality(objs[x]) <= Cap
    /\ mapped \in SUBSET Mags
    /\ pipe \in [Pipes -> SUBSET Mags]
    /\ user \in SUBSET Objects
    /\ below \in SUBSET Objects
    /\ lost \in SUBSET Objects

Hands ==
    /\ m1 \in [Threads -> Mags \cup {None}]
    /\ m2 \in [Threads -> Mags \cup {None}]
    /\ m \in [Threads -> Mags \cup {None}]
    /\ item \in [Threads -> Objects \cup {None}]
    /\ pc \in [Threads -> Labels]
    /\ since \in [Threads -> Nat]

Gone == {"unborn", "dropped"}
Freeing == {"free_full", "push_full", "alloc_empty", "spill"}
Refilling == {"alloc_full", "refill", "free_empty", "push_empty"}

\* Which magazines a thread has where it is.
HandsOf(t) ==
    /\ pc[t] \in Gone \cup {"new", "drop_depot"} => m1[t] = None
    /\ pc[t] \in Gone \cup {"new", "new_empty", "drop_depot"} => m2[t] = None
    /\ pc[t] \notin Gone \cup {"new", "new_empty", "alloc_empty", "drop_depot"} => m1[t] \in Mags
    /\ pc[t] \in {"idle"} \cup Freeing \cup Refilling => m2[t] \in Mags
    /\ pc[t] \in {"free_empty", "push_empty"} <=> m[t] # None
    /\ pc[t] \in Freeing <=> item[t] # None
    /\ pc[t] = "alloc_empty" => m1[t] = None

\* What is in them.
LoadOf(t) ==
    /\ pc[t] \in Refilling => objs[m2[t]] = {}
    /\ pc[t] \in {"alloc_full", "free_empty", "push_empty", "drop_push"} => objs[m1[t]] = {}
    /\ pc[t] \in {"free_empty", "push_empty"} => Cardinality(objs[m[t]]) = Cap
    /\ pc[t] \in Freeing => Cardinality(objs[m2[t]]) = Cap
    /\ pc[t] \in {"free_full", "push_full"} => Cardinality(objs[m1[t]]) = Cap

\* The objects of an idle thread tell how long it can go on alone.
ReserveOf(t) ==
    LET n == Cardinality(objs[m1[t]]) + Cardinality(objs[m2[t]]) IN
    /\ pc[t] = "idle" => Cap - 1 - since[t] <= n /\ n <= Cap + 1 + since[t]
    /\ pc[t] \in {"alloc_full", "free_full", "unborn", "new", "new_empty"} => since[t] >= Cap

Locals == \A t \in Threads : HandsOf(t) /\ LoadOf(t) /\ ReserveOf(t)

\* The magazines a thread has.
Own(t) == {m1[t], m2[t], m[t]} \ {None}

Magazines ==
    /\ \A t \in Threads : /\ m1[t] = m2[t] => m1[t] = None
                          /\ m1[t] = m[t] => m1[t] = None
                          /\ m2[t] = m[t] => m2[t] = None
    /\ \A s, t \in Threads : s # t => Own(s) \cap Own(t) = {}
    /\ \A t \in Threads, p \in Pipes : Own(t) \cap pipe[p] = {}
    /\ pipe["empty"] \cap pipe["full"] = {}
    /\ \A x \in Mags : x \in mapped <=> \/ \E t \in Threads : x \in Own(t)
                                       \/ \E p \in Pipes : x \in pipe[p]

Contents ==
    /\ \A x \in pipe["full"] : Cardinality(objs[x]) = Cap
    /\ \A x \in pipe["empty"] : objs[x] = {}
    /\ lost # {} => \A t \in Threads : pc[t] \in Gone

\* Object o is in a magazine, is being freed, or is in one of the three sets.
ObjectsOnce ==
    \A o \in Objects :
        /\ \A x, y \in mapped : o \in objs[x] /\ o \in objs[y] => x = y
        /\ \A s, t \in Threads : item[s] = o /\ item[t] = o => s = t
        /\ \A x \in mapped, t \in Threads : o \in objs[x] => item[t] # o
        /\ \A x \in mapped : o \in objs[x] => o \notin user /\ o \notin below /\ o \notin lost
        /\ \A t \in Threads : item[t] = o => o \notin user /\ o \notin below /\ o \notin lost
        /\ o \in user => o \notin below /\ o \notin lost
        /\ o \in below => o \notin lost
        /\ \/ \E x \in mapped : o \in objs[x]
           \/ \E t \in Threads : item[t] = o
           \/ o \in user \/ o \in below \/ o \in lost

IInv == Shared /\ Hands /\ Locals /\ Magazines /\ Contents /\ ObjectsOnce
-----------------------------------------------------------------------------
\* A step of thread t leaves what the other threads have in hand alone.
Mine(t) ==
    \A s \in Threads : s # t =>
        /\ pc'[s] = pc[s] /\ m1'[s] = m1[s] /\ m2'[s] = m2[s] /\ m'[s] = m[s]
        /\ item'[s] = item[s] /\ since'[s] = since[s]

\* The last thread drops its handle on the depot.
LastDrop(t) ==
    /\ Own(t) = {} /\ Own(t)' = {} /\ pc[t] \notin Gone /\ pc'[t] \in Gone
    /\ \A s \in Threads \ {t} : pc[s] \in Gone
    /\ mapped' = mapped \ (pipe["empty"] \cup pipe["full"])
    /\ pipe' = [p \in Pipes |-> {}]
    /\ objs' = [x \in Mags |-> IF x \in pipe["full"] THEN {} ELSE objs[x]]
    /\ lost' = UNION {objs[x] : x \in pipe["full"]}
    /\ UNCHANGED <<user, below, item>>

\* How a magazine can move: to a pipe, from a pipe, out of mmap, to munmap.
MagMove(t) ==
    \/ UNCHANGED <<mapped, pipe>> /\ Own(t)' = Own(t)
    \/ \E x \in Own(t), p \in Pipes :
        /\ p = "full" => Cardinality(objs[x]) = Cap
        /\ p = "empty" => objs[x] = {}
        /\ pipe' = [pipe EXCEPT ![p] = @ \cup {x}]
        /\ UNCHANGED mapped
        /\ Own(t)' = Own(t) \ {x}
        /\ objs'[x] = objs[x]
    \/ \E p \in Pipes : \E x \in pipe[p] :
        /\ pipe' = [pipe EXCEPT ![p] = @ \ {x}]
        /\ UNCHANGED mapped
        /\ Own(t)' = Own(t) \cup {x}
    \/ \E x \in Mags \ mapped :
        /\ mapped' = mapped \cup {x}
        /\ UNCHANGED pipe
        /\ Own(t)' = Own(t) \cup {x}
        /\ objs'[x] = {}
    \/ \E x \in Own(t) :
        /\ objs'[x] = {} /\ objs[x] = {}
        /\ mapped' = mapped \ {x}
        /\ UNCHANGED pipe
        /\ Own(t)' = Own(t) \ {x}
    \/ LastDrop(t)

\* The magazines a thread has are different ones.
Apart(t) ==
    /\ m1[t] = m2[t] => m1[t] = None
    /\ m1[t] = m[t] => m1[t] = None
    /\ m2[t] = m[t] => m2[t] = None

\* How an object can move: between a magazine of the thread and the others.
ObjMove(t) ==
    \/ UNCHANGED <<objs, user, below, item, lost>>
    \/ \E x \in Mags \ mapped : objs' = [objs EXCEPT ![x] = {}] /\ UNCHANGED <<user, below, item, lost>>
    \/ \E x \in Own(t) : \E o \in objs[x] :
        /\ objs' = [objs EXCEPT ![x] = @ \ {o}]
        /\ \/ user' = user \cup {o} /\ UNCHANGED below
           \/ below' = below \cup {o} /\ UNCHANGED user
        /\ UNCHANGED <<item, lost>>
    \/ \E x \in Own(t), o \in Objects :
        /\ Cardinality(objs[x]) < Cap
        /\ objs' = [objs EXCEPT ![x] = @ \cup {o}]
        /\ \/ o \in user /\ user' = user \ {o} /\ UNCHANGED <<below, item>>
           \/ o \in below /\ below' = below \ {o} /\ UNCHANGED <<user, item>>
           \/ o = item[t] /\ item' = [item EXCEPT ![t] = None] /\ UNCHANGED <<user, below>>
        /\ UNCHANGED lost
    \/ \E o \in user : /\ user' = user \ {o} /\ item' = [item EXCEPT ![t] = o] /\ item[t] = None
                       /\ UNCHANGED <<objs, below, lost>>
    \/ LastDrop(t)

\* What a thread's step does for itself.
Kept(t) ==
    /\ Hands' /\ HandsOf(t)' /\ LoadOf(t)' /\ ReserveOf(t)' /\ Apart(t)'
    /\ MagMove(t) /\ ObjMove(t)

\* What the invariant says where thread t is ...
HandFacts(t) ==
    /\ Hands /\ HandsOf(t) /\ LoadOf(t) /\ ReserveOf(t) /\ Apart(t)
    /\ None \notin Mags /\ None \notin Objects /\ Cap \in Nat /\ Cap > 0

\* ... of the sets all threads share ...
SetFacts ==
    /\ objs \in [Mags -> SUBSET Objects] /\ mapped \in SUBSET Mags
    /\ pipe \in [Pipes -> SUBSET Mags] /\ "empty" \in Pipes /\ "full" \in Pipes
    /\ user \in SUBSET Objects /\ below \in SUBSET Objects /\ lost \in SUBSET Objects

\* ... of the number of objects in a magazine ...
SizeFacts ==
    /\ Cardinality({}) = 0 /\ IsFiniteSet({})
    /\ \A o : Cardinality({o}) = 1 /\ IsFiniteSet({o})
    /\ \A x \in Mags : /\ IsFiniteSet(objs[x]) /\ Cardinality(objs[x]) \in Nat
                       /\ Cardinality(objs[x]) <= Cap
                       /\ Cardinality(objs[x]) = 0 <=> objs[x] = {}
    /\ \A x \in Mags : \A o \in objs[x] :
            IsFiniteSet(objs[x] \ {o}) /\ Cardinality(objs[x] \ {o}) = Cardinality(objs[x]) - 1
    /\ \A x \in Mags, o \in Objects : o \notin objs[x] =>
            IsFiniteSet(objs[x] \cup {o}) /\ Cardinality(objs[x] \cup {o}) = Cardinality(objs[x]) + 1

\* ... and of the magazines and objects it has.
OwnFacts(t) ==
    /\ Own(t) \subseteq mapped
    /\ \A x \in mapped, o \in Objects : o \in objs[x] => o \notin user /\ o \notin below /\ item[t] # o

(* What the invariant says to one thread.                                  *)
LEMMA StateFacts ==
    ASSUME IInv, NEW t \in Threads
    PROVE  HandFacts(t) /\ SetFacts /\ SizeFacts /\ OwnFacts(t)
<1>1. HandFacts(t)
  BY DepotAssumption DEF HandFacts, IInv, Locals, Magazines, Apart
<1>2. SetFacts
  BY Zenon DEF SetFacts, IInv, Shared, Pipes
<1>3. SizeFacts
  <2>1. \A x \in Mags : IsFiniteSet(objs[x]) /\ Cardinality(objs[x]) <= Cap
    BY Zenon DEF IInv, Shared
  <2> QED
    BY Zenon, <2>1, FS_EmptySet, FS_Singleton, FS_CardinalityType, FS_AddElement, FS_RemoveElement
      DEF SizeFacts
<1>4. OwnFacts(t)
  BY <1>1 DEF OwnFacts, HandFacts, Hands, IInv, Magazines, ObjectsOnce, Own
<1> QED
  BY Zenon, <1>1, <1>2, <1>3, <1>4
-----------------------------------------------------------------------------
(* new, and alloc with swap_empty, whichever of the depot, the pipes' size *)
(* guess and the front end below decides it, and the last part of          *)
(* swap_full: the thread ends up with the magazines it should have.        *)
LEMMA TakeStep ==
    ASSUME IInv, NEW t \in Threads,
           Alloc(t) \/ NewFull(t) \/ NewEmpty(t) \/ AllocFull(t) \/ FreeEmpty(t) \/ PushEmpty(t)
           \/ Refill(t) \/ TakeEmpty(t)
    PROVE  Kept(t)
<1> USE DEF HandFacts, SetFacts, SizeFacts, OwnFacts, Kept
<1>h. HandFacts(t)
  BY Zenon, StateFacts
<1>s. SetFacts
  BY Zenon, StateFacts
<1>c. SizeFacts
  BY Zenon, StateFacts
<1>o. OwnFacts(t)
  BY Zenon, StateFacts
<1>a. ASSUME NEW x \in Mags, AllocEmpty(t, x), UNCHANGED <<user, below, item, lost>>,
             Own(t)' = Own(t) \cup {x}
      PROVE  /\ MagMove(t) /\ ObjMove(t) /\ x \notin Own(t)
             /\ \A y \in Own(t) : objs'[y] = objs[y]
             /\ objs'[x] = {}
  <2>1. CASE PopMut("empty", t, x) /\ UNCHANGED <<mapped, objs>>
    <3>1. x \in pipe["empty"] /\ pipe' = [pipe EXCEPT !["empty"] = @ \ {x}]
      BY Zenon, <2>1 DEF PopMut
    <3>2. x \notin Own(t) /\ objs[x] = {}
      BY Zenon, <3>1, <1>s DEF IInv, Magazines, Contents
    <3> QED
      BY Zenon, <1>a, <2>1, <3>1, <3>2, <1>s DEF MagMove, ObjMove
  <2>2. CASE Fresh(x) /\ UNCHANGED depot
    <3>1. /\ x \notin mapped /\ mapped' = mapped \cup {x} /\ objs' = [objs EXCEPT ![x] = {}]
          /\ UNCHANGED pipe
      BY Zenon, <2>2, <1>s DEF Fresh, Set, depot
    <3>2. x \notin Own(t) /\ objs'[x] = {} /\ \A y \in Own(t) : objs'[y] = objs[y]
      BY Zenon, <3>1, <1>o, <1>s
    <3> QED
      BY Zenon, <1>a, <3>1, <3>2 DEF MagMove, ObjMove
  <2> QED
    BY Zenon, <1>a, <2>1, <2>2 DEF AllocEmpty
<1>1. ASSUME Alloc(t) PROVE Kept(t)
  <2>0. /\ pc[t] = "idle" /\ m1[t] \in Mags /\ m2[t] \in Mags /\ m1[t] # m2[t]
        /\ m[t] = None /\ item[t] = None /\ m1[t] \in Own(t) /\ m2[t] \in Own(t)
        /\ Called(t) /\ UNCHANGED <<mapped, pipe, m, item, below, lost>>
    BY Zenon, <1>1, <1>h DEF Alloc, HandsOf, Freeing, Refilling, Gone, Apart, Own, depot
  <2>c. /\ since' = [since EXCEPT ![t] = since'[t]] /\ since'[t] \in Nat
        /\ since'[t] >= Cap \/ since'[t] = since[t] + 1
    BY <2>0, <1>h DEF Called, Hands
  <2>n. /\ Cardinality(objs[m1[t]]) \in Nat /\ Cardinality(objs[m2[t]]) \in Nat
        /\ Cardinality(objs[m1[t]]) <= Cap /\ Cardinality(objs[m2[t]]) <= Cap
    BY Zenon, <2>0, <1>c
  <2>1. CASE objs[m1[t]] # {} /\ PopM1(t, m1[t]) /\ UNCHANGED <<m1, m2, pc>>
    <3>1. PICK o \in objs[m1[t]] : /\ objs' = [objs EXCEPT ![m1[t]] = @ \ {o}]
                                   /\ user' = user \cup {o}
      BY Zenon, <2>1 DEF PopM1
    <3>2. Hands'
      BY Zenon, <2>0, <2>c, <2>1, <1>h DEF Hands
    <3>3. HandsOf(t)' /\ LoadOf(t)' /\ Apart(t)'
      BY Zenon, <2>0, <2>1, <1>h DEF HandsOf, LoadOf, Apart, Freeing, Refilling, Gone
    <3>4. /\ Cardinality(objs'[m1[t]]) = Cardinality(objs[m1[t]]) - 1
          /\ Cardinality(objs'[m2[t]]) = Cardinality(objs[m2[t]])
      BY Zenon, <2>0, <3>1, <1>c, <1>s
    <3>5. ReserveOf(t)'
      BY <2>0, <2>1, <2>c, <2>n, <3>4, <1>h DEF ReserveOf, Hands
    <3>6. MagMove(t)
      BY Zenon, <2>0, <2>1 DEF MagMove, Own
    <3>7. ObjMove(t)
      BY Zenon, <2>0, <3>1 DEF ObjMove
    <3> QED
      BY Zenon, <3>2, <3>3, <3>5, <3>6, <3>7
  <2>2. CASE objs[m1[t]] = {} /\ objs[m2[t]] # {} /\ PopM1(t, m2[t]) /\ Exchange(t, "idle")
    <3>0. /\ m1' = [m1 EXCEPT ![t] = m2[t]] /\ m2' = [m2 EXCEPT ![t] = m1[t]]
          /\ pc' = [pc EXCEPT ![t] = "idle"]
          /\ m1'[t] = m2[t] /\ m2'[t] = m1[t] /\ pc'[t] = "idle"
      BY Zenon, <2>2, <1>h DEF Exchange, Set, Go, Hands
    <3>1. PICK o \in objs[m2[t]] : /\ objs' = [objs EXCEPT ![m2[t]] = @ \ {o}]
                                   /\ user' = user \cup {o}
      BY Zenon, <2>2 DEF PopM1
    <3>2. Hands'
      BY Zenon, <2>0, <2>c, <3>0, <1>h DEF Hands, Labels
    <3>3. HandsOf(t)' /\ LoadOf(t)' /\ Apart(t)'
      BY Zenon, <2>0, <3>0, <1>h DEF HandsOf, LoadOf, Apart, Freeing, Refilling, Gone
    <3>4. /\ Cardinality(objs'[m2[t]]) = Cardinality(objs[m2[t]]) - 1
          /\ Cardinality(objs'[m1[t]]) = Cardinality(objs[m1[t]])
      BY Zenon, <2>0, <3>1, <1>c, <1>s
    <3>5. ReserveOf(t)'
      BY <2>0, <3>0, <2>c, <2>n, <3>4, <1>h DEF ReserveOf, Hands
    <3>6. MagMove(t)
      BY Zenon, <2>0, <3>0 DEF MagMove, Own
    <3>7. ObjMove(t)
      BY Zenon, <2>0, <3>1 DEF ObjMove
    <3> QED
      BY Zenon, <3>2, <3>3, <3>5, <3>6, <3>7
  <2>3. CASE /\ objs[m1[t]] = {} /\ objs[m2[t]] = {} /\ Exchange(t, "alloc_full")
             /\ UNCHANGED <<objs, user>>
    <3>0. /\ m1' = [m1 EXCEPT ![t] = m2[t]] /\ m2' = [m2 EXCEPT ![t] = m1[t]]
          /\ pc' = [pc EXCEPT ![t] = "alloc_full"]
          /\ m1'[t] = m2[t] /\ m2'[t] = m1[t] /\ pc'[t] = "alloc_full"
      BY Zenon, <2>3, <1>h DEF Exchange, Set, Go, Hands
    <3>2. Hands'
      BY Zenon, <2>0, <2>c, <3>0, <1>h DEF Hands, Labels
    <3>3. HandsOf(t)' /\ LoadOf(t)' /\ Apart(t)'
      BY Zenon, <2>0, <2>3, <3>0, <1>h DEF HandsOf, LoadOf, Apart, Freeing, Refilling, Gone
    <3>5. ReserveOf(t)'
      BY <2>0, <2>3, <3>0, <2>c, <1>c, <1>h DEF ReserveOf, Hands
    <3>6. MagMove(t) /\ ObjMove(t)
      BY Zenon, <2>0, <2>3, <3>0 DEF MagMove, ObjMove, Own
    <3> QED
      BY Zenon, <3>2, <3>3, <3>5, <3>6
  <2> QED
    BY Zenon, <1>1, <2>1, <2>2, <2>3 DEF Alloc
<1>2. ASSUME NewFull(t) PROVE Kept(t)
  <2>0. /\ pc[t] = "new" /\ m1[t] = None /\ m2[t] = None /\ m[t] = None /\ item[t] = None
        /\ pc' = [pc EXCEPT ![t] = "new_empty"] /\ pc'[t] = "new_empty"
        /\ UNCHANGED <<objs, mapped, m2, m, item, user, below, lost, since>>
    BY Zenon, <1>2, <1>h DEF NewFull, Go, Hands, HandsOf, Freeing, Gone
  <2>1. \/ UNCHANGED <<pipe, m1>>
        \/ \E x \in pipe["full"] : /\ pipe' = [pipe EXCEPT !["full"] = @ \ {x}]
                                  /\ m1' = [m1 EXCEPT ![t] = x] /\ m1'[t] = x
                                  /\ x \in Mags
    BY Zenon, <1>2, <1>h, <1>s DEF NewFull, PopMut, Set, depot, Hands
  <2>2. Hands'
    BY <2>0, <2>1, <1>h DEF Hands, Labels
  <2>3. HandsOf(t)' /\ LoadOf(t)' /\ ReserveOf(t)' /\ Apart(t)'
    BY Zenon, <2>0, <2>1, <1>h DEF HandsOf, LoadOf, ReserveOf, Apart, Freeing, Refilling, Gone
  <2>4. MagMove(t)
    <3>1. CASE UNCHANGED <<pipe, m1>>
      BY Zenon, <2>0, <3>1 DEF MagMove, Own
    <3>2. ASSUME NEW x \in pipe["full"], pipe' = [pipe EXCEPT !["full"] = @ \ {x}], m1'[t] = x
          PROVE  MagMove(t)
      <4>1. Own(t)' = Own(t) \cup {x}
        BY Zenon, <2>0, <3>2, <1>h, <1>s DEF Own
      <4> QED
        BY Zenon, <4>1, <2>0, <3>2, <1>s DEF MagMove
    <3> QED
      BY Zenon, <2>1, <3>1, <3>2
  <2>5. ObjMove(t)
    BY Zenon, <2>0 DEF ObjMove
  <2> QED
    BY Zenon, <2>2, <2>3, <2>4, <2>5
<1>3. ASSUME NewEmpty(t) PROVE Kept(t)
  <2>0. /\ pc[t] = "new_empty" /\ m2[t] = None /\ m[t] = None /\ item[t] = None
        /\ UNCHANGED <<m, item, user, below, lost, since>>
    BY Zenon, <1>3, <1>h DEF NewEmpty, HandsOf, Freeing, Gone
  <2>1. PICK x \in Mags :
        /\ AllocEmpty(t, x)
        /\ IF m1[t] = None THEN m1' = Set(m1, t, x) /\ UNCHANGED <<m2, pc>>
                           ELSE m2' = Set(m2, t, x) /\ UNCHANGED m1 /\ Go(t, "idle")
    BY Zenon, <1>3 DEF NewEmpty
  <2>2. \/ /\ m1[t] = None /\ m1' = [m1 EXCEPT ![t] = x] /\ m1'[t] = x /\ m2' = m2 /\ pc' = pc
        \/ /\ m1[t] \in Mags /\ m2' = [m2 EXCEPT ![t] = x] /\ m2'[t] = x /\ m1' = m1
           /\ pc' = [pc EXCEPT ![t] = "idle"] /\ pc'[t] = "idle"
    BY Zenon, <2>1, <1>h DEF Hands, Set, Go
  <2>3. Own(t)' = Own(t) \cup {x}
    BY Zenon, <2>0, <2>2, <1>h DEF Own
  <2>4. MagMove(t) /\ ObjMove(t) /\ x \notin Own(t)
    BY Zenon, <1>a, <2>0, <2>1, <2>3
  <2>5. Hands'
    BY <2>0, <2>2, <1>h DEF Hands, Labels
  <2>6. HandsOf(t)' /\ LoadOf(t)' /\ Apart(t)'
    BY Zenon, <2>0, <2>2, <2>4, <1>h DEF HandsOf, LoadOf, Apart, Freeing, Refilling, Gone, Own
  <2>7. ReserveOf(t)'
    <3>1. CASE pc' = pc
      BY Zenon, <2>0, <3>1, <1>h DEF ReserveOf
    <3>2. CASE pc' # pc
      <4>1. /\ since'[t] >= Cap /\ since'[t] \in Nat /\ pc'[t] = "idle"
            /\ m1'[t] \in Own(t) /\ m1'[t] \in Mags /\ m2'[t] = x
        BY Zenon, <2>0, <2>2, <3>2, <1>h DEF ReserveOf, Hands, Own
      <4>2. /\ Cardinality(objs'[m1'[t]]) \in Nat /\ Cardinality(objs'[m1'[t]]) <= Cap
            /\ Cardinality(objs'[m2'[t]]) = 0
        BY Zenon, <1>a, <2>0, <2>1, <2>3, <4>1, <1>c
      <4> QED
        BY <4>1, <4>2, <1>h DEF ReserveOf
    <3> QED
      BY Zenon, <3>1, <3>2
  <2> QED
    BY Zenon, <2>4, <2>5, <2>6, <2>7
<1>4. ASSUME AllocFull(t) PROVE Kept(t)
  <2>0. /\ pc[t] = "alloc_full" /\ m1[t] \in Mags /\ m2[t] \in Mags /\ m[t] = None
        /\ item[t] = None /\ m1[t] # m2[t] /\ objs[m1[t]] = {} /\ objs[m2[t]] = {}
        /\ since' = [since EXCEPT ![t] = 0]
        /\ UNCHANGED <<objs, mapped, m1, m2, item, user, below, lost>>
    BY Zenon, <1>4, <1>h DEF AllocFull, Set, HandsOf, LoadOf, Apart, Freeing, Refilling, Gone
  <2>1. \/ /\ UNCHANGED <<pipe, m>> /\ pc' = [pc EXCEPT ![t] = "refill"] /\ pc'[t] = "refill"
        \/ \E x \in pipe["full"] :
            /\ pipe' = [pipe EXCEPT !["full"] = @ \ {x}]
            /\ m' = [m EXCEPT ![t] = x] /\ m'[t] = x /\ x \in Mags
            /\ pc' = [pc EXCEPT ![t] = "free_empty"] /\ pc'[t] = "free_empty"
    BY Zenon, <1>4, <1>h, <1>s DEF AllocFull, PopMut, Set, Go, depot, Hands
  <2>2. Hands'
    BY <2>0, <2>1, <1>h DEF Hands, Labels
  <2>4. MagMove(t) /\ HandsOf(t)' /\ LoadOf(t)' /\ ReserveOf(t)' /\ Apart(t)'
    <3>1. CASE UNCHANGED <<pipe, m>> /\ pc'[t] = "refill"
      BY Zenon, <2>0, <3>1, <1>h DEF MagMove, Own, ReserveOf, HandsOf, LoadOf, Apart, Freeing, Refilling, Gone
    <3>2. ASSUME NEW x \in pipe["full"], pipe' = [pipe EXCEPT !["full"] = @ \ {x}], m'[t] = x,
                 x \in Mags, pc'[t] = "free_empty"
          PROVE  MagMove(t) /\ HandsOf(t)' /\ LoadOf(t)' /\ ReserveOf(t)' /\ Apart(t)'
      <4>1. Own(t)' = Own(t) \cup {x}
        BY Zenon, <2>0, <3>2, <1>h, <1>s DEF Own
      <4>2. x \notin Own(t) /\ Cardinality(objs[x]) = Cap
        BY Zenon, <3>2, <1>s DEF IInv, Magazines, Contents
      <4>3. MagMove(t)
        BY Zenon, <4>1, <2>0, <3>2, <1>s DEF MagMove
      <4>4. x # m1[t] /\ x # m2[t]
        BY Zenon, <4>2, <2>0, <1>h DEF Own
      <4> QED
        BY Zenon, <4>2, <4>3, <4>4, <2>0, <3>2, <1>h DEF HandsOf, LoadOf, ReserveOf, Apart, Freeing, Refilling, Gone
    <3> QED
      BY Zenon, <2>1, <3>1, <3>2
  <2>5. ObjMove(t)
    BY Zenon, <2>0 DEF ObjMove
  <2> QED
    BY Zenon, <2>2, <2>4, <2>5
<1>l. ASSUME pc[t] \in {"free_empty", "push_empty"}, Loaded(t), UNCHANGED <<m2, item, since, below, lost>>
      PROVE  /\ Hands' /\ HandsOf(t)' /\ LoadOf(t)' /\ ReserveOf(t)' /\ Apart(t)' /\ ObjMove(t)
             /\ m1[t] \in Own(t) /\ objs[m1[t]] = {} /\ objs'[m1[t]] = {}
             /\ Own(t)' = Own(t) \ {m1[t]}
  <2>0. /\ m1[t] \in Mags /\ m2[t] \in Mags /\ m[t] \in Mags /\ item[t] = None
        /\ m1[t] # m2[t] /\ m1[t] # m[t] /\ m2[t] # m[t]
        /\ objs[m1[t]] = {} /\ objs[m2[t]] = {} /\ Cardinality(objs[m[t]]) = Cap
        /\ m[t] \in Own(t) /\ m1[t] \in Own(t)
    BY Zenon, <1>l, <1>h DEF Hands, Own, HandsOf, LoadOf, Apart, Freeing, Refilling, Gone
  <2>1. /\ m1' = [m1 EXCEPT ![t] = m[t]] /\ m' = [m EXCEPT ![t] = None]
        /\ pc' = [pc EXCEPT ![t] = "idle"]
        /\ m1'[t] = m[t] /\ m'[t] = None /\ pc'[t] = "idle"
    BY Zenon, <1>l, <1>h DEF Loaded, Set, Go, Hands
  <2>2. PICK o \in objs[m[t]] : /\ objs' = [objs EXCEPT ![m[t]] = @ \ {o}]
                                /\ user' = user \cup {o}
    BY Zenon, <1>l DEF Loaded, PopM1
  <2>3. Hands'
    BY Zenon, <2>0, <2>1, <1>l, <1>h DEF Hands, Labels
  <2>4. HandsOf(t)' /\ LoadOf(t)' /\ Apart(t)'
    BY Zenon, <2>0, <2>1, <1>l, <1>h DEF HandsOf, LoadOf, Apart, Freeing, Refilling, Gone
  <2>5. /\ objs'[m1[t]] = {} /\ Cardinality(objs'[m2[t]]) = 0
        /\ Cardinality(objs'[m[t]]) = Cap - 1
    BY Zenon, <2>0, <2>2, <1>c, <1>s
  <2>6. ReserveOf(t)'
    BY <2>0, <2>1, <2>5, <1>l, <1>h DEF ReserveOf, Hands
  <2>7. ObjMove(t)
    BY Zenon, <2>0, <2>2, <1>l DEF ObjMove
  <2>8. Own(t)' = Own(t) \ {m1[t]}
    BY Zenon, <2>0, <2>1, <1>l, <1>h DEF Own
  <2> QED
    BY Zenon, <2>0, <2>3, <2>4, <2>5, <2>6, <2>7, <2>8
<1>5. ASSUME FreeEmpty(t) PROVE Kept(t)
  <2>0. pc[t] = "free_empty" /\ UNCHANGED <<pipe, m2, item, below, lost, since>>
    BY Zenon, <1>5 DEF FreeEmpty, depot
  <2>1. CASE Destroy(m1[t]) /\ Loaded(t)
    BY Zenon, <2>0, <2>1, <1>l DEF MagMove, Destroy
  <2>2. CASE Go(t, "push_empty") /\ UNCHANGED <<mapped, m1, m, objs, user>>
    <3>1. pc' = [pc EXCEPT ![t] = "push_empty"] /\ pc'[t] = "push_empty"
      BY Zenon, <2>2, <1>h DEF Go, Hands
    <3>2. Hands'
      BY Zenon, <2>0, <2>2, <3>1, <1>h DEF Hands, Labels
    <3>3. HandsOf(t)' /\ LoadOf(t)' /\ ReserveOf(t)' /\ Apart(t)'
      BY Zenon, <2>0, <2>2, <3>1, <1>h DEF HandsOf, LoadOf, ReserveOf, Apart, Freeing, Refilling, Gone
    <3>4. MagMove(t) /\ ObjMove(t)
      BY Zenon, <2>0, <2>2 DEF MagMove, ObjMove, Own
    <3> QED
      BY Zenon, <3>2, <3>3, <3>4
  <2> QED
    BY Zenon, <1>5, <2>1, <2>2 DEF FreeEmpty
<1>6. ASSUME PushEmpty(t) PROVE Kept(t)
  <2>0. /\ pc[t] = "push_empty" /\ Loaded(t) /\ UNCHANGED <<mapped, m2, item, below, lost, since>>
        /\ pipe' = [pipe EXCEPT !["empty"] = @ \cup {m1[t]}]
    BY Zenon, <1>6 DEF PushEmpty, PushMut
  <2>1. MagMove(t)
    BY Zenon, <2>0, <1>l, <1>s DEF MagMove
  <2> QED
    BY Zenon, <2>0, <2>1, <1>l
<1>7. ASSUME Refill(t) PROVE Kept(t)
  <2>0. /\ pc[t] = "refill" /\ m1[t] \in Mags /\ m2[t] \in Mags /\ m[t] = None
        /\ item[t] = None /\ m1[t] # m2[t] /\ objs[m2[t]] = {} /\ m1[t] \in Own(t)
        /\ UNCHANGED <<mapped, pipe, m1, m2, m, item, lost, since>>
    BY Zenon, <1>7, <1>h DEF Refill, Own, depot, mags, HandsOf, LoadOf, Apart, Freeing, Refilling, Gone
  <2>1. CASE Cardinality(objs[m1[t]]) < Cap
    <3>1. PICK o \in below : /\ objs' = [objs EXCEPT ![m1[t]] = @ \cup {o}]
                             /\ below' = below \ {o}
                             /\ UNCHANGED <<user, pc>>
      BY Zenon, <1>7, <2>1 DEF Refill
    <3>2. Hands'
      BY Zenon, <2>0, <3>1, <1>h DEF Hands
    <3>3. objs'[m2[t]] = {}
      BY Zenon, <2>0, <3>1, <1>s
    <3>4. HandsOf(t)' /\ LoadOf(t)' /\ ReserveOf(t)' /\ Apart(t)'
      BY Zenon, <2>0, <3>1, <3>3, <1>h DEF HandsOf, LoadOf, ReserveOf, Apart, Freeing, Refilling, Gone
    <3>5. MagMove(t)
      BY Zenon, <2>0 DEF MagMove, Own
    <3>6. ObjMove(t)
      BY Zenon, <2>0, <2>1, <3>1, <1>s DEF ObjMove
    <3> QED
      BY Zenon, <3>2, <3>4, <3>5, <3>6
  <2>2. CASE ~ (Cardinality(objs[m1[t]]) < Cap)
    <3>0. PopM1(t, m1[t]) /\ UNCHANGED below
          /\ pc' = [pc EXCEPT ![t] = "idle"] /\ pc'[t] = "idle"
      BY Zenon, <1>7, <2>2, <1>h DEF Refill, Go, Hands
    <3>1. PICK o \in objs[m1[t]] : /\ objs' = [objs EXCEPT ![m1[t]] = @ \ {o}]
                                   /\ user' = user \cup {o}
      BY Zenon, <3>0 DEF PopM1
    <3>2. Hands'
      BY Zenon, <2>0, <3>0, <1>h DEF Hands, Labels
    <3>3. Cardinality(objs'[m2[t]]) = 0 /\ Cardinality(objs'[m1[t]]) = Cap - 1
      <4>1. objs'[m2[t]] = {} /\ objs'[m1[t]] = objs[m1[t]] \ {o}
        BY Zenon, <2>0, <3>1, <1>s
      <4>2. Cardinality(objs[m1[t]] \ {o}) = Cardinality(objs[m1[t]]) - 1
        BY Zenon, <2>0, <1>c
      <4>3. Cardinality(objs[m1[t]]) = Cap
        <5>1. Cardinality(objs[m1[t]]) \in Nat /\ Cardinality(objs[m1[t]]) <= Cap
          BY Zenon, <2>0, <1>c
        <5> QED
          BY <5>1, <2>2, DepotAssumption
      <4> QED
        BY Zenon, <4>1, <4>2, <4>3, <1>c
    <3>4. HandsOf(t)' /\ LoadOf(t)' /\ Apart(t)'
      BY Zenon, <2>0, <3>0, <1>h DEF HandsOf, LoadOf, Apart, Freeing, Refilling, Gone
    <3>5. ReserveOf(t)'
      BY <2>0, <3>0, <3>3, <1>h DEF ReserveOf, Hands
    <3>6. MagMove(t)
      BY Zenon, <2>0 DEF MagMove, Own
    <3>7. ObjMove(t)
      BY Zenon, <2>0, <3>0, <3>1 DEF ObjMove
    <3> QED
      BY Zenon, <3>2, <3>4, <3>5, <3>6, <3>7
  <2> QED
    BY Zenon, <2>1, <2>2
<1>8. ASSUME TakeEmpty(t) PROVE Kept(t)
  <2>0. /\ pc[t] = "alloc_empty" /\ m1[t] = None /\ m2[t] \in Mags /\ m[t] = None
        /\ item[t] # None /\ Cardinality(objs[m2[t]]) = Cap /\ m2[t] \in Own(t)
        /\ pc' = [pc EXCEPT ![t] = "spill"] /\ pc'[t] = "spill"
        /\ UNCHANGED <<m2, m, item, user, below, lost, since>>
    BY Zenon, <1>8, <1>h DEF TakeEmpty, Go, Hands, Own, HandsOf, LoadOf, Apart, Freeing, Refilling, Gone
  <2>1. PICK x \in Mags : AllocEmpty(t, x) /\ m1' = [m1 EXCEPT ![t] = x] /\ m1'[t] = x
    BY Zenon, <1>8, <1>h DEF TakeEmpty, Set, Hands
  <2>2. Own(t)' = Own(t) \cup {x}
    BY Zenon, <2>0, <2>1, <1>h DEF Own
  <2>3. MagMove(t) /\ ObjMove(t) /\ x \notin Own(t) /\ objs'[m2[t]] = objs[m2[t]]
    BY Zenon, <1>a, <2>0, <2>1, <2>2
  <2>4. Hands'
    BY Zenon, <2>0, <2>1, <1>h DEF Hands, Labels
  <2>5. HandsOf(t)' /\ LoadOf(t)' /\ ReserveOf(t)' /\ Apart(t)'
    BY Zenon, <2>0, <2>1, <2>3, <1>h DEF HandsOf, LoadOf, ReserveOf, Apart, Freeing, Refilling, Gone
  <2> QED
    BY Zenon, <2>3, <2>4, <2>5
<1> QED
  BY Zenon, <1>1, <1>2, <1>3, <1>4, <1>5, <1>6, <1>7, <1>8

(* The same for clone, free with swap_full, and the drops.                 *)
LEMMA GiveStep ==
    ASSUME IInv, NEW t \in Threads,
           Free(t) \/ Clone(t) \/ Drop(t) \/ FreeFull(t) \/ PushFull(t) \/ Spill(t)
           \/ DropObject(t) \/ DropMagazine(t) \/ DropPush(t) \/ DropDepot(t)
    PROVE  Kept(t)
<1> USE DEF HandFacts, SetFacts, SizeFacts, OwnFacts, Kept
<1>h. HandFacts(t)
  BY Zenon, StateFacts
<1>s. SetFacts
  BY Zenon, StateFacts
<1>c. SizeFacts
  BY Zenon, StateFacts
<1>o. OwnFacts(t)
  BY Zenon, StateFacts
<1>1. ASSUME Free(t) PROVE Kept(t)
  <2>0. /\ pc[t] = "idle" /\ m1[t] \in Mags /\ m2[t] \in Mags /\ m1[t] # m2[t]
        /\ m[t] = None /\ item[t] = None /\ m1[t] \in Own(t) /\ m2[t] \in Own(t)
        /\ Called(t) /\ UNCHANGED <<mapped, pipe, m, below, lost>>
    BY Zenon, <1>1, <1>h DEF Free, HandsOf, Freeing, Refilling, Gone, Apart, Own, depot
  <2>c. /\ since' = [since EXCEPT ![t] = since'[t]] /\ since'[t] \in Nat
        /\ since'[t] >= Cap \/ since'[t] = since[t] + 1
    BY <2>0, <1>h DEF Called, Hands
  <2>n. /\ Cardinality(objs[m1[t]]) \in Nat /\ Cardinality(objs[m2[t]]) \in Nat
        /\ Cardinality(objs[m1[t]]) <= Cap /\ Cardinality(objs[m2[t]]) <= Cap
    BY Zenon, <2>0, <1>c
  <2>p. PICK o \in user :
        /\ user' = user \ {o}
        /\ \/ /\ HasRoom(m1[t])
              /\ objs' = [objs EXCEPT ![m1[t]] = @ \cup {o}]
              /\ UNCHANGED <<m1, m2, pc, item>>
           \/ /\ ~HasRoom(m1[t]) /\ HasRoom(m2[t])
              /\ objs' = [objs EXCEPT ![m2[t]] = @ \cup {o}]
              /\ Exchange(t, "idle")
              /\ UNCHANGED item
           \/ /\ ~HasRoom(m1[t]) /\ ~HasRoom(m2[t])
              /\ item' = Set(item, t, o)
              /\ Exchange(t, "free_full")
              /\ UNCHANGED objs
    BY Zenon, <1>1 DEF Free
  <2>o. o \in Objects /\ o # None /\ o \notin objs[m1[t]] /\ o \notin objs[m2[t]]
    BY Zenon, <2>0, <1>o, <1>s, <1>h
  <2>1. CASE /\ HasRoom(m1[t])
             /\ objs' = [objs EXCEPT ![m1[t]] = @ \cup {o}]
             /\ UNCHANGED <<m1, m2, pc, item>>
    <3>2. Hands'
      BY Zenon, <2>0, <2>c, <2>1, <1>h DEF Hands
    <3>3. HandsOf(t)' /\ LoadOf(t)' /\ Apart(t)'
      BY Zenon, <2>0, <2>1, <1>h DEF HandsOf, LoadOf, Apart, Freeing, Refilling, Gone
    <3>4. /\ Cardinality(objs'[m1[t]]) = Cardinality(objs[m1[t]]) + 1
          /\ Cardinality(objs'[m2[t]]) = Cardinality(objs[m2[t]])
      BY Zenon, <2>0, <2>1, <2>o, <1>c, <1>s
    <3>5. ReserveOf(t)'
      BY <2>0, <2>1, <2>c, <2>n, <3>4, <1>h DEF ReserveOf, Hands, HasRoom
    <3>6. MagMove(t)
      BY Zenon, <2>0, <2>1 DEF MagMove, Own
    <3>7. ObjMove(t)
      BY Zenon, <2>0, <2>1, <2>p, <2>o DEF ObjMove, HasRoom
    <3> QED
      BY Zenon, <3>2, <3>3, <3>5, <3>6, <3>7
  <2>2. CASE /\ HasRoom(m2[t])
             /\ objs' = [objs EXCEPT ![m2[t]] = @ \cup {o}]
             /\ Exchange(t, "idle") /\ UNCHANGED item
    <3>0. /\ m1' = [m1 EXCEPT ![t] = m2[t]] /\ m2' = [m2 EXCEPT ![t] = m1[t]]
          /\ pc' = [pc EXCEPT ![t] = "idle"]
          /\ m1'[t] = m2[t] /\ m2'[t] = m1[t] /\ pc'[t] = "idle"
      BY Zenon, <2>2, <1>h DEF Exchange, Set, Go, Hands
    <3>2. Hands'
      BY Zenon, <2>0, <2>2, <2>c, <3>0, <1>h DEF Hands, Labels
    <3>3. HandsOf(t)' /\ LoadOf(t)' /\ Apart(t)'
      BY Zenon, <2>0, <2>2, <3>0, <1>h DEF HandsOf, LoadOf, Apart, Freeing, Refilling, Gone
    <3>4. /\ Cardinality(objs'[m2[t]]) = Cardinality(objs[m2[t]]) + 1
          /\ Cardinality(objs'[m1[t]]) = Cardinality(objs[m1[t]])
      BY Zenon, <2>0, <2>2, <2>o, <1>c, <1>s
    <3>5. ReserveOf(t)'
      BY <2>0, <3>0, <2>2, <2>c, <2>n, <3>4, <1>h DEF ReserveOf, Hands, HasRoom
    <3>6. MagMove(t)
      BY Zenon, <2>0, <3>0 DEF MagMove, Own
    <3>7. ObjMove(t)
      BY Zenon, <2>0, <2>2, <2>p, <2>o DEF ObjMove, HasRoom
    <3> QED
      BY Zenon, <3>2, <3>3, <3>5, <3>6, <3>7
  <2>3. CASE /\ ~HasRoom(m1[t]) /\ ~HasRoom(m2[t])
             /\ item' = Set(item, t, o)
             /\ Exchange(t, "free_full")
             /\ UNCHANGED objs
    <3>0. /\ m1' = [m1 EXCEPT ![t] = m2[t]] /\ m2' = [m2 EXCEPT ![t] = m1[t]]
          /\ pc' = [pc EXCEPT ![t] = "free_full"] /\ item' = [item EXCEPT ![t] = o]
          /\ m1'[t] = m2[t] /\ m2'[t] = m1[t] /\ pc'[t] = "free_full" /\ item'[t] = o
      BY Zenon, <2>3, <1>h DEF Exchange, Set, Go, Hands
    <3>1. Cardinality(objs[m1[t]]) = Cap /\ Cardinality(objs[m2[t]]) = Cap
      BY <2>3, <2>n, <1>h DEF HasRoom
    <3>2. Hands'
      BY Zenon, <2>0, <2>o, <2>c, <3>0, <1>h DEF Hands, Labels
    <3>3. HandsOf(t)' /\ LoadOf(t)' /\ Apart(t)'
      BY Zenon, <2>0, <2>3, <2>o, <3>0, <3>1, <1>h DEF HandsOf, LoadOf, Apart, Freeing, Refilling, Gone
    <3>5. ReserveOf(t)'
      BY <2>0, <2>3, <3>0, <3>1, <2>c, <1>h DEF ReserveOf, Hands
    <3>6. MagMove(t) /\ ObjMove(t)
      BY Zenon, <2>0, <2>3, <2>p, <3>0 DEF MagMove, ObjMove, Own
    <3> QED
      BY Zenon, <3>2, <3>3, <3>5, <3>6
  <2> QED
    BY Zenon, <2>p, <2>1, <2>2, <2>3
<1>2. ASSUME Clone(t) \/ Drop(t) PROVE Kept(t)
  <2>1. /\ UNCHANGED <<objs, mapped, pipe, m1, m2, m, item, user, below, lost, since>>
        /\ \/ pc[t] = "unborn" /\ pc' = [pc EXCEPT ![t] = "new"] /\ pc'[t] = "new"
           \/ pc[t] = "idle" /\ pc' = [pc EXCEPT ![t] = "drop"] /\ pc'[t] = "drop"
    BY Zenon, <1>2, <1>h DEF Clone, Drop, Go, depot, mags, Hands
  <2>2. Hands'
    BY Zenon, <2>1, <1>h DEF Hands, Labels
  <2>3. HandsOf(t)' /\ LoadOf(t)' /\ ReserveOf(t)' /\ Apart(t)'
    BY Zenon, <2>1, <1>h DEF HandsOf, LoadOf, ReserveOf, Apart, Freeing, Refilling, Gone
  <2>4. MagMove(t) /\ ObjMove(t)
    BY Zenon, <2>1 DEF MagMove, ObjMove, Own
  <2> QED
    BY Zenon, <2>2, <2>3, <2>4
<1>3. ASSUME FreeFull(t) PROVE Kept(t)
  <2>0. /\ pc[t] = "free_full" /\ since' = [since EXCEPT ![t] = 0]
        /\ pc' = [pc EXCEPT ![t] = pc'[t]] /\ pc'[t] \in {"spill", "push_full"}
        /\ UNCHANGED <<objs, mapped, pipe, m1, m2, m, item, user, below, lost>>
    BY Zenon, <1>3, <1>h DEF FreeFull, Go, Set, depot, mags, Hands
  <2>1. Hands'
    BY Zenon, <2>0, <1>h DEF Hands, Labels
  <2>2. HandsOf(t)' /\ LoadOf(t)' /\ ReserveOf(t)' /\ Apart(t)'
    BY Zenon, <2>0, <1>h DEF HandsOf, LoadOf, ReserveOf, Apart, Freeing, Refilling, Gone
  <2>3. MagMove(t) /\ ObjMove(t)
    BY Zenon, <2>0 DEF MagMove, ObjMove, Own
  <2> QED
    BY Zenon, <2>1, <2>2, <2>3
<1>4. ASSUME PushFull(t) PROVE Kept(t)
  <2>0. /\ pc[t] = "push_full" /\ m1[t] \in Mags /\ m1[t] # m2[t] /\ m1[t] # m[t]
        /\ Cardinality(objs[m1[t]]) = Cap /\ m1[t] \in Own(t)
        /\ pipe' = [pipe EXCEPT !["full"] = @ \cup {m1[t]}]
        /\ m1' = [m1 EXCEPT ![t] = None] /\ m1'[t] = None
        /\ pc' = [pc EXCEPT ![t] = "alloc_empty"] /\ pc'[t] = "alloc_empty"
        /\ UNCHANGED <<objs, mapped, m2, m, item, user, below, lost, since>>
    BY Zenon, <1>4, <1>h DEF PushFull, PushMut, Go, Set, Hands, Own, HandsOf, LoadOf, Apart, Freeing, Refilling, Gone
  <2>1. Hands'
    BY Zenon, <2>0, <1>h DEF Hands, Labels
  <2>2. HandsOf(t)' /\ LoadOf(t)' /\ ReserveOf(t)' /\ Apart(t)'
    BY Zenon, <2>0, <1>h DEF HandsOf, LoadOf, ReserveOf, Apart, Freeing, Refilling, Gone
  <2>3. Own(t)' = Own(t) \ {m1[t]}
    BY Zenon, <2>0, <1>h DEF Own
  <2>4. MagMove(t) /\ ObjMove(t)
    BY Zenon, <2>0, <2>3, <1>s DEF MagMove, ObjMove
  <2> QED
    BY Zenon, <2>1, <2>2, <2>4
<1>5. ASSUME Spill(t) PROVE Kept(t)
  <2>0. /\ pc[t] = "spill" /\ m1[t] \in Mags /\ m2[t] \in Mags /\ m1[t] # m2[t] /\ m[t] = None
        /\ item[t] \in Objects /\ Cardinality(objs[m2[t]]) = Cap /\ m1[t] \in Own(t)
        /\ UNCHANGED <<mapped, pipe, m1, m2, m, user, lost, since>>
    BY Zenon, <1>5, <1>h DEF Spill, Own, depot, mags, Hands, HandsOf, LoadOf, Apart, Freeing, Refilling, Gone
  <2>m. MagMove(t)
    BY Zenon, <2>0 DEF MagMove, Own
  <2>1. CASE objs[m1[t]] # {}
    <3>1. PICK o \in objs[m1[t]] : /\ objs' = [objs EXCEPT ![m1[t]] = @ \ {o}]
                                   /\ below' = below \cup {o}
                                   /\ UNCHANGED <<item, pc>>
      BY Zenon, <1>5, <2>1 DEF Spill
    <3>2. Hands'
      BY Zenon, <2>0, <3>1, <1>h DEF Hands
    <3>3. objs'[m2[t]] = objs[m2[t]]
      BY Zenon, <2>0, <3>1, <1>s
    <3>4. HandsOf(t)' /\ LoadOf(t)' /\ ReserveOf(t)' /\ Apart(t)'
      BY Zenon, <2>0, <3>1, <3>3, <1>h DEF HandsOf, LoadOf, ReserveOf, Apart, Freeing, Refilling, Gone
    <3>5. ObjMove(t)
      BY Zenon, <2>0, <3>1 DEF ObjMove
    <3> QED
      BY Zenon, <2>m, <3>2, <3>4, <3>5
  <2>2. CASE objs[m1[t]] = {}
    <3>1. /\ objs' = [objs EXCEPT ![m1[t]] = {item[t]}]
          /\ item' = [item EXCEPT ![t] = None] /\ item'[t] = None
          /\ pc' = [pc EXCEPT ![t] = "idle"] /\ pc'[t] = "idle"
          /\ UNCHANGED below
      BY Zenon, <1>5, <2>2, <1>h DEF Spill, Go, Set, Hands
    <3>2. Hands'
      BY Zenon, <2>0, <3>1, <1>h DEF Hands, Labels
    <3>3. Cardinality(objs'[m2[t]]) = Cap /\ Cardinality(objs'[m1[t]]) = 1
      BY Zenon, <2>0, <3>1, <1>s, <1>c
    <3>4. HandsOf(t)' /\ LoadOf(t)' /\ Apart(t)'
      BY Zenon, <2>0, <3>1, <1>h DEF HandsOf, LoadOf, Apart, Freeing, Refilling, Gone
    <3>5. ReserveOf(t)'
      BY <2>0, <3>1, <3>3, <1>h DEF ReserveOf, Hands
    <3>6. ObjMove(t)
      <4>1. objs' = [objs EXCEPT ![m1[t]] = @ \cup {item[t]}]
        BY Zenon, <3>1, <2>0, <2>2, <1>s
      <4>2. Cardinality(objs[m1[t]]) < Cap
        BY Zenon, <2>2, <1>c, <1>h
      <4> QED
        BY Zenon, <2>0, <3>1, <4>1, <4>2 DEF ObjMove
    <3> QED
      BY Zenon, <2>m, <3>2, <3>4, <3>5, <3>6
  <2> QED
    BY Zenon, <2>1, <2>2
<1>6. ASSUME DropObject(t) PROVE Kept(t)
  <2>0. /\ pc[t] = "drop" /\ m1[t] \in Mags /\ m1[t] \in Own(t)
        /\ UNCHANGED <<mapped, pipe, m1, m2, m, item, pc, user, lost, since>>
    BY Zenon, <1>6, <1>h DEF DropObject, Own, depot, mags, HandsOf, LoadOf, Apart, Freeing, Refilling, Gone
  <2>1. PICK o \in objs[m1[t]] : /\ objs' = [objs EXCEPT ![m1[t]] = @ \ {o}]
                                 /\ below' = below \cup {o}
    BY Zenon, <1>6 DEF DropObject
  <2>2. Hands'
    BY Zenon, <2>0, <1>h DEF Hands
  <2>3. HandsOf(t)' /\ LoadOf(t)' /\ ReserveOf(t)' /\ Apart(t)'
    BY Zenon, <2>0, <1>h DEF HandsOf, LoadOf, ReserveOf, Apart, Freeing, Refilling, Gone
  <2>4. MagMove(t)
    BY Zenon, <2>0 DEF MagMove, Own
  <2>5. ObjMove(t)
    BY Zenon, <2>0, <2>1 DEF ObjMove
  <2> QED
    BY Zenon, <2>2, <2>3, <2>4, <2>5
<1>7. ASSUME DropMagazine(t) \/ DropPush(t) PROVE Kept(t)
  <2>0. /\ pc[t] \in {"drop", "drop_push"} /\ m1[t] \in Mags /\ m1[t] # m2[t] /\ m[t] = None
        /\ item[t] = None /\ objs[m1[t]] = {} /\ m1[t] \in Own(t)
        /\ UNCHANGED <<objs, m, item, user, below, lost, since>>
    BY Zenon, <1>7, <1>h DEF DropMagazine, DropPush, Own, HandsOf, LoadOf, Apart, Freeing, Refilling, Gone
  <2>1. CASE Go(t, "drop_push") /\ UNCHANGED <<mapped, pipe, m1, m2>>
    <3>1. pc' = [pc EXCEPT ![t] = "drop_push"] /\ pc'[t] = "drop_push"
      BY Zenon, <2>1, <1>h DEF Go, Hands
    <3>2. Hands'
      BY Zenon, <2>0, <2>1, <3>1, <1>h DEF Hands, Labels
    <3>3. HandsOf(t)' /\ LoadOf(t)' /\ ReserveOf(t)' /\ Apart(t)'
      BY Zenon, <2>0, <2>1, <3>1, <1>h DEF HandsOf, LoadOf, ReserveOf, Apart, Freeing, Refilling, Gone
    <3>4. MagMove(t) /\ ObjMove(t)
      BY Zenon, <2>0, <2>1 DEF MagMove, ObjMove, Own
    <3> QED
      BY Zenon, <3>2, <3>3, <3>4
  <2>2. CASE /\ m1' = Set(m1, t, m2[t]) /\ m2' = Set(m2, t, None)
             /\ Go(t, IF m2[t] = None THEN "drop_depot" ELSE "drop")
             /\ \/ Destroy(m1[t]) /\ UNCHANGED pipe
                \/ pipe' = [pipe EXCEPT !["empty"] = @ \cup {m1[t]}] /\ UNCHANGED mapped
    <3>1. /\ m1' = [m1 EXCEPT ![t] = m2[t]] /\ m1'[t] = m2[t]
          /\ m2' = [m2 EXCEPT ![t] = None] /\ m2'[t] = None
          /\ pc' = [pc EXCEPT ![t] = pc'[t]]
          /\ pc'[t] = IF m2[t] = None THEN "drop_depot" ELSE "drop"
          /\ m2[t] \in Mags \cup {None}
      BY Zenon, <2>2, <1>h DEF Go, Set, Hands
    <3>2. Hands'
      BY <2>0, <3>1, <1>h DEF Hands, Labels
    <3>3. HandsOf(t)' /\ LoadOf(t)' /\ ReserveOf(t)' /\ Apart(t)'
      BY Zenon, <2>0, <3>1, <1>h DEF HandsOf, LoadOf, ReserveOf, Apart, Freeing, Refilling, Gone
    <3>4. Own(t)' = Own(t) \ {m1[t]}
      BY Zenon, <2>0, <3>1, <1>h DEF Own
    <3>5. MagMove(t)
      BY Zenon, <2>0, <2>2, <3>4, <1>s DEF MagMove, Destroy
    <3>6. ObjMove(t)
      BY Zenon, <2>0 DEF ObjMove
    <3> QED
      BY Zenon, <3>2, <3>3, <3>5, <3>6
  <2> QED
    BY Zenon, <1>7, <2>1, <2>2 DEF DropMagazine, DropPush, PushMut, depot
<1>8. ASSUME DropDepot(t) PROVE Kept(t)
  <2>0. /\ pc[t] = "drop_depot" /\ m1[t] = None /\ m2[t] = None /\ m[t] = None /\ item[t] = None
        /\ pc' = [pc EXCEPT ![t] = "dropped"] /\ pc'[t] = "dropped"
        /\ UNCHANGED <<m1, m2, m, item, user, below, since>>
    BY Zenon, <1>8, <1>h DEF DropDepot, Go, Hands, mags, HandsOf, LoadOf, Apart, Freeing, Refilling, Gone
  <2>1. Hands'
    BY Zenon, <2>0, <1>h DEF Hands, Labels
  <2>2. HandsOf(t)' /\ LoadOf(t)' /\ ReserveOf(t)' /\ Apart(t)'
    BY Zenon, <2>0, <1>h DEF HandsOf, LoadOf, ReserveOf, Apart, Freeing, Refilling, Gone
  <2>3. Own(t) = {} /\ Own(t)' = {}
    BY Zenon, <2>0 DEF Own
  <2>4. MagMove(t) /\ ObjMove(t)
    <3>1. CASE \A s \in Threads \ {t} : pc[s] \in {"unborn", "dropped"}
      BY Zenon, <1>8, <2>0, <2>3, <3>1 DEF DropDepot, MagMove, ObjMove, LastDrop, Gone
    <3>2. CASE UNCHANGED <<mapped, lost, objs, pipe>>
      BY Zenon, <2>0, <2>3, <3>2 DEF MagMove, ObjMove
    <3> QED
      BY Zenon, <1>8, <3>1, <3>2 DEF DropDepot
  <2> QED
    BY Zenon, <2>1, <2>2, <2>4
<1> QED
  BY Zenon, <1>1, <1>2, <1>3, <1>4, <1>5, <1>6, <1>7, <1>8
-----------------------------------------------------------------------------
Action(t) == Clone(t) \/ Alloc(t) \/ Free(t) \/ Drop(t) \/ Step(t)

(* A step of a thread leaves the others alone, and there is none when the  *)
(* last thread has dropped its handle on the depot.                        *)
LEMMA ThreadStep ==
    ASSUME IInv, NEW t \in Threads, Action(t)
    PROVE  Mine(t) /\ Kept(t) /\ lost = {}
<1>1. Mine(t)
  <2> USE DEF Mine, Go, Set, Exchange, Loaded, Called, IInv, Hands
  <2>1. CASE Clone(t) \/ Alloc(t) \/ Free(t) \/ Drop(t)
    BY <2>1 DEF Clone, Alloc, Free, Drop, mags
  <2>2. CASE NewFull(t) \/ NewEmpty(t) \/ AllocFull(t)
    BY Zenon, <2>2 DEF NewFull, NewEmpty, AllocFull
  <2>3. CASE FreeEmpty(t) \/ PushEmpty(t) \/ Refill(t)
    BY Zenon, <2>3 DEF FreeEmpty, PushEmpty, Refill, mags
  <2>4. CASE FreeFull(t) \/ PushFull(t) \/ TakeEmpty(t) \/ Spill(t)
    BY <2>4 DEF FreeFull, PushFull, TakeEmpty, Spill, mags
  <2>5. CASE DropObject(t) \/ DropMagazine(t) \/ DropPush(t) \/ DropDepot(t)
    BY Zenon, <2>5 DEF DropObject, DropMagazine, DropPush, DropDepot, mags
  <2> QED
    BY Zenon, <2>1, <2>2, <2>3, <2>4, <2>5 DEF Action, Step
<1>2. Kept(t)
  BY Zenon, TakeStep, GiveStep DEF Action, Step
<1>3. \E s \in Threads : pc[s] \notin Gone
  BY Zenon DEF Action, Step, Clone, Alloc, Free, Drop, NewFull, NewEmpty, AllocFull, FreeEmpty,
     PushEmpty, Refill, FreeFull, PushFull, TakeEmpty, Spill, DropObject, DropMagazine, DropPush,
     DropDepot, Gone
<1>4. lost = {}
  BY Zenon, <1>3 DEF IInv, Contents
<1> QED
  BY Zenon, <1>1, <1>2, <1>4

(* A magazine moves from one place to another, and is mapped as long as it *)
(* is in one: push, pop, mmap and munmap take it from one hand.            *)
LEMMA MagazinesStep ==
    ASSUME IInv, NEW t \in Threads, Mine(t), Kept(t)
    PROVE  Magazines' /\ mapped' \in SUBSET Mags /\ pipe' \in [Pipes -> SUBSET Mags]
<1> DEFINE O == [s \in Threads |-> Own(s)]
           P == [s \in Threads |-> Own(s)']
<1>1. /\ \A s \in Threads : O[s] \subseteq Mags
      /\ \A s, u \in Threads : s # u => O[s] \cap O[u] = {}
      /\ \A s \in Threads, p \in Pipes : O[s] \cap pipe[p] = {}
      /\ pipe["empty"] \cap pipe["full"] = {}
      /\ \A x \in Mags : x \in mapped <=> \/ \E s \in Threads : x \in O[s]
                                         \/ \E p \in Pipes : x \in pipe[p]
      /\ mapped \in SUBSET Mags /\ pipe \in [Pipes -> SUBSET Mags]
  <2>1. \A s \in Threads : Own(s) \subseteq Mags
    BY Zenon DEF IInv, Hands, Own
  <2> QED
    BY Zenon, <2>1 DEF IInv, Magazines, Shared
<1>2. \A s \in Threads : s # t => P[s] = O[s]
  BY Zenon DEF Mine, Own
<1>3. \/ UNCHANGED <<mapped, pipe>> /\ P[t] = O[t]
      \/ \E x \in O[t], p \in Pipes :
            pipe' = [pipe EXCEPT ![p] = @ \cup {x}] /\ mapped' = mapped /\ P[t] = O[t] \ {x}
      \/ \E p \in Pipes : \E x \in pipe[p] :
            pipe' = [pipe EXCEPT ![p] = @ \ {x}] /\ mapped' = mapped /\ P[t] = O[t] \cup {x}
      \/ \E x \in Mags \ mapped :
            mapped' = mapped \cup {x} /\ pipe' = pipe /\ P[t] = O[t] \cup {x}
      \/ \E x \in O[t] : mapped' = mapped \ {x} /\ pipe' = pipe /\ P[t] = O[t] \ {x}
      \/ /\ \A s \in Threads : O[s] = {} /\ P[s] = {}
         /\ mapped' = mapped \ (pipe["empty"] \cup pipe["full"])
         /\ pipe' = [p \in Pipes |-> {}]
  <2>1. CASE LastDrop(t)
    <3>1. \A s \in Threads : s # t => O[s] = {}
      BY Zenon, <2>1 DEF LastDrop, IInv, Locals, HandsOf, Own, Gone
    <3> QED
      BY Zenon, <2>1, <3>1, <1>2 DEF LastDrop
  <2>2. CASE ~ LastDrop(t)
    BY Zenon, <2>2 DEF Kept, MagMove
  <2> QED
    BY Zenon, <2>1, <2>2
<1>4. Pipes = {"empty", "full"}
  BY Zenon DEF Pipes
<1> DEFINE Goal == /\ mapped' \in SUBSET Mags /\ pipe' \in [Pipes -> SUBSET Mags]
                   /\ \A s, u \in Threads : s # u => P[s] \cap P[u] = {}
                   /\ \A s \in Threads, p \in Pipes : P[s] \cap pipe'[p] = {}
                   /\ pipe'["empty"] \cap pipe'["full"] = {}
                   /\ \A x \in Mags : x \in mapped' <=> \/ \E s \in Threads : x \in P[s]
                                                       \/ \E p \in Pipes : x \in pipe'[p]
<1> HIDE DEF O, P
<1>5. Goal
  <2>1. CASE UNCHANGED <<mapped, pipe>> /\ P[t] = O[t]
    BY Zenon, <2>1, <1>1, <1>2
  <2>2. ASSUME NEW x \in O[t], NEW p \in Pipes,
               pipe' = [pipe EXCEPT ![p] = @ \cup {x}], mapped' = mapped, P[t] = O[t] \ {x}
        PROVE  Goal
    BY <2>2, <1>1, <1>2, <1>4
  <2>3. ASSUME NEW p \in Pipes, NEW x \in pipe[p],
               pipe' = [pipe EXCEPT ![p] = @ \ {x}], mapped' = mapped, P[t] = O[t] \cup {x}
        PROVE  Goal
    BY <2>3, <1>1, <1>2, <1>4
  <2>4. ASSUME NEW x \in Mags \ mapped,
               mapped' = mapped \cup {x}, pipe' = pipe, P[t] = O[t] \cup {x}
        PROVE  Goal
    BY <2>4, <1>1, <1>2, <1>4
  <2>5. ASSUME NEW x \in O[t], mapped' = mapped \ {x}, pipe' = pipe, P[t] = O[t] \ {x}
        PROVE  Goal
    BY <2>5, <1>1, <1>2, <1>4
  <2>6. ASSUME \A s \in Threads : O[s] = {} /\ P[s] = {},
               mapped' = mapped \ (pipe["empty"] \cup pipe["full"]), pipe' = [p \in Pipes |-> {}]
        PROVE  Goal
    BY Zenon, <2>6, <1>1, <1>4
  <2> QED
    BY Zenon, <1>3, <2>1, <2>2, <2>3, <2>4, <2>5, <2>6
<1>6. \A s \in Threads : Apart(s)'
  BY DEF Kept, Mine, Apart, IInv, Magazines
<1> QED
  BY Zenon, <1>5, <1>6 DEF P, Magazines, Apart

(* An object moves between a magazine of the thread and the program, the   *)
(* front end below or the thread's hand; what other threads and the pipes  *)
(* have stays as it is.                                                    *)
LEMMA ObjectsStep ==
    ASSUME IInv, NEW t \in Threads, Mine(t), Kept(t), lost = {},
           Magazines', mapped' \in SUBSET Mags, pipe' \in [Pipes -> SUBSET Mags]
    PROVE  Shared' /\ Locals' /\ Contents' /\ ObjectsOnce'
<1>s. SetFacts
  BY Zenon, StateFacts
<1>c. SizeFacts
  BY Zenon, StateFacts
<1>o. /\ \A s \in Threads : OwnFacts(s)
      /\ \A s \in Threads : s # t => Own(s) \cap Own(t) = {}
      /\ \A p \in Pipes : pipe[p] \subseteq mapped /\ pipe[p] \cap Own(t) = {}
  <2>1. \A s \in Threads : OwnFacts(s)
    BY Zenon, StateFacts
  <2> QED
    BY Zenon, <2>1, <1>s DEF SetFacts, IInv, Magazines
<1>n. None \notin Mags /\ None \notin Objects /\ Cap \in Nat
  BY Zenon, DepotAssumption
<1>1. CASE LastDrop(t)
  <2>0. /\ objs' = [x \in Mags |-> IF x \in pipe["full"] THEN {} ELSE objs[x]]
        /\ lost' = UNION {objs[x] : x \in pipe["full"]}
        /\ mapped' = mapped \ (pipe["empty"] \cup pipe["full"])
        /\ user' = user /\ below' = below /\ item' = item
        /\ pipe' = [p \in Pipes |-> {}]
    BY Zenon, <1>1 DEF LastDrop
  <2>1. \A s \in Threads : pc'[s] \in Gone /\ item[s] = None /\ Own(s) = {}
    <3>1. \A s \in Threads : pc'[s] \in Gone
      BY Zenon, <1>1 DEF LastDrop, Mine
    <3>2. \A s \in Threads : s # t => pc[s] \in Gone
      BY Zenon, <1>1 DEF LastDrop
    <3>3. \A s \in Threads : s # t => item[s] = None /\ Own(s) = {}
      BY Zenon, <3>2 DEF Gone, IInv, Locals, HandsOf, Freeing, Own
    <3>4. item[t] = None /\ Own(t) = {}
      BY Zenon, <3>1, <2>0, <1>1 DEF LastDrop, Kept, HandsOf, Freeing, Gone
    <3> QED
      BY Zenon, <3>1, <3>3, <3>4
  <2>2. Locals'
    <3>1. ASSUME NEW s \in Threads, s # t PROVE HandsOf(s)'
      BY Zenon, <3>1 DEF IInv, Locals, HandsOf, Mine
    <3>2. ASSUME NEW s \in Threads, s # t PROVE LoadOf(s)' /\ ReserveOf(s)'
      <4>1. pc'[s] \in {"unborn", "dropped"} /\ pc'[s] = pc[s] /\ since'[s] = since[s]
        BY Zenon, <2>1, <3>2 DEF Gone, Mine
      <4> QED
        BY Zenon, <4>1 DEF LoadOf, ReserveOf, Refilling, Freeing, IInv, Locals
    <3> QED
      BY Zenon, <3>1, <3>2 DEF Locals, Kept
  <2>3. Contents'
    BY Zenon, <2>0, <2>1 DEF Contents, Pipes
  <2>4. Shared'
    <3>1. /\ objs' \in [Mags -> SUBSET Objects] /\ lost' \in SUBSET Objects
          /\ \A x \in Mags : objs'[x] = {} \/ objs'[x] = objs[x]
      BY Zenon, <2>0, <1>s DEF SetFacts
    <3>2. \A x \in Mags : IsFiniteSet(objs'[x]) /\ Cardinality(objs'[x]) <= Cap
      BY <3>1, <1>c, <1>n DEF SizeFacts
    <3> QED
      BY Zenon, <3>1, <3>2, <2>0, <1>s DEF Shared, SetFacts
  <2>5. ObjectsOnce'
    <3>1. \A x \in Mags : x \in mapped <=> x \in pipe["empty"] \/ x \in pipe["full"]
      BY Zenon, <2>1 DEF IInv, Magazines, Pipes
    <3>2. mapped' = {}
      BY Zenon, <3>1, <2>0, <1>s DEF SetFacts
    <3>3. \A o \in Objects : o \in lost' <=> \E x \in mapped : o \in objs[x]
      BY Zenon, <3>1, <2>0, <1>s DEF IInv, Contents, SetFacts
    <3> QED
      BY Zenon, <3>2, <3>3, <2>0, <2>1, <1>n DEF IInv, ObjectsOnce
  <2> QED
    BY Zenon, <2>2, <2>3, <2>4, <2>5
<1>2. CASE ~ LastDrop(t)
  <2>0. \A x \in Mags : objs'[x] = objs[x] \/ x \in Own(t) \/ x \notin mapped
    BY Zenon, <1>2, <1>s DEF Kept, ObjMove, SetFacts
  <2>1. Locals'
    <3>1. ASSUME NEW s \in Threads, s # t PROVE HandsOf(s)' /\ LoadOf(s)' /\ ReserveOf(s)'
      <4>0. /\ pc'[s] = pc[s] /\ m1'[s] = m1[s] /\ m2'[s] = m2[s] /\ m'[s] = m[s]
            /\ item'[s] = item[s] /\ since'[s] = since[s]
            /\ HandsOf(s) /\ LoadOf(s) /\ ReserveOf(s)
            /\ m[s] \in Mags \cup {None}
        BY Zenon, <3>1 DEF Mine, IInv, Locals, Hands
      <4>1. \A x \in Own(s) : objs'[x] = objs[x]
        BY Zenon, <3>1, <2>0, <1>o, <1>s DEF OwnFacts, SetFacts
      <4>2. \A x \in {m1[s], m2[s], m[s]} : x \in Mags => objs'[x] = objs[x]
        BY Zenon, <4>1, <1>n DEF Own
      <4>3. HandsOf(s)'
        BY Zenon, <4>0 DEF HandsOf
      <4>4. LoadOf(s)'
        BY Zenon, <4>0, <4>2 DEF LoadOf, HandsOf, Refilling, Freeing, Gone
      <4>5. ReserveOf(s)'
        BY Zenon, <4>0, <4>2 DEF ReserveOf, HandsOf, Refilling, Freeing, Gone
      <4> QED
        BY Zenon, <4>3, <4>4, <4>5
    <3> QED
      BY Zenon, <3>1 DEF Locals, Kept
  <2>2. Contents'
    <3>1. lost' = {}
      BY Zenon, <1>2 DEF Kept, ObjMove
    <3>2. ASSUME NEW p \in Pipes, NEW x \in pipe'[p], x \notin pipe[p]
          PROVE  /\ objs'[x] = objs[x] /\ (p = "full" => Cardinality(objs[x]) = Cap)
                 /\ (p = "empty" => objs[x] = {})
      BY <3>2, <1>2, <1>s DEF Kept, MagMove, SetFacts
    <3>3. \A p \in Pipes : \A x \in pipe[p] : objs'[x] = objs[x]
      BY Zenon, <2>0, <1>o, <1>s DEF SetFacts
    <3> QED
      BY Zenon, <3>1, <3>2, <3>3, <1>s DEF Contents, IInv, SetFacts
  <2>3. Shared'
    <3>1. \/ objs' = objs
          \/ \E x \in Mags : objs' = [objs EXCEPT ![x] = {}]
          \/ \E x \in Mags : \E o \in objs[x] : objs' = [objs EXCEPT ![x] = @ \ {o}]
          \/ \E x \in Mags, o \in Objects :
                Cardinality(objs[x]) < Cap /\ objs' = [objs EXCEPT ![x] = @ \cup {o}]
      BY Zenon, <1>2, <1>o, <1>s DEF Kept, ObjMove, OwnFacts, SetFacts
    <3>2. /\ user' \in SUBSET Objects /\ below' \in SUBSET Objects /\ lost' \in SUBSET Objects
      BY <1>2, <1>o, <1>s DEF Kept, ObjMove, OwnFacts, SetFacts
    <3>3. objs' \in [Mags -> SUBSET Objects]
      BY <3>1, <1>s DEF SetFacts
    <3>4. ASSUME NEW x \in Mags PROVE IsFiniteSet(objs'[x]) /\ Cardinality(objs'[x]) <= Cap
      <4>1. \/ objs'[x] = objs[x]
            \/ objs'[x] = {}
            \/ \E o \in objs[x] : objs'[x] = objs[x] \ {o}
            \/ \E o \in Objects : Cardinality(objs[x]) < Cap /\ objs'[x] = objs[x] \cup {o}
        BY Zenon, <3>1, <1>s DEF SetFacts
      <4>2. ASSUME NEW o \in Objects, o \in objs[x] PROVE objs[x] \cup {o} = objs[x]
        BY Zenon, <4>2
      <4>3. /\ IsFiniteSet(objs[x]) /\ Cardinality(objs[x]) \in Nat /\ Cardinality(objs[x]) <= Cap
            /\ IsFiniteSet({}) /\ Cardinality({}) = 0
        BY Zenon, <1>c DEF SizeFacts
      <4>4. ASSUME NEW o \in objs[x]
            PROVE  IsFiniteSet(objs[x] \ {o}) /\ Cardinality(objs[x] \ {o}) <= Cap
        <5>1. IsFiniteSet(objs[x] \ {o}) /\ Cardinality(objs[x] \ {o}) = Cardinality(objs[x]) - 1
          BY Zenon, <1>c DEF SizeFacts
        <5> QED
          BY <5>1, <4>3, <1>n
      <4>5. ASSUME NEW o \in Objects, Cardinality(objs[x]) < Cap, o \notin objs[x]
            PROVE  IsFiniteSet(objs[x] \cup {o}) /\ Cardinality(objs[x] \cup {o}) <= Cap
        <5>1. /\ IsFiniteSet(objs[x] \cup {o})
              /\ Cardinality(objs[x] \cup {o}) = Cardinality(objs[x]) + 1
          BY Zenon, <4>5, <1>c DEF SizeFacts
        <5> QED
          BY <5>1, <4>3, <4>5, <1>n
      <4>6. 0 <= Cap
        BY <1>n
      <4> QED
        BY Zenon, <4>1, <4>2, <4>3, <4>4, <4>5, <4>6
    <3> QED
      BY Zenon, <3>2, <3>3, <3>4 DEF Shared
  <2>4. ObjectsOnce'
    <3> DEFINE J == [x \in Mags |-> IF x \in mapped THEN objs[x] ELSE {}]
               K == [x \in Mags |-> IF x \in mapped' THEN objs'[x] ELSE {}]
    <3>1. \A x \in Mags : K[x] = IF x \in mapped THEN objs'[x] ELSE {}
      BY Zenon, <1>2, <1>s, <1>o DEF Kept, MagMove, SetFacts, OwnFacts
    <3>2. \/ K = J /\ UNCHANGED <<user, below, item, lost>>
          \/ \E x \in Mags : \E o \in J[x] :
                /\ K = [J EXCEPT ![x] = @ \ {o}]
                /\ \/ user' = user \cup {o} /\ UNCHANGED below
                   \/ below' = below \cup {o} /\ UNCHANGED user
                /\ UNCHANGED <<item, lost>>
          \/ \E x \in Mags, o \in Objects :
                /\ K = [J EXCEPT ![x] = @ \cup {o}]
                /\ \/ o \in user /\ user' = user \ {o} /\ UNCHANGED <<below, item>>
                   \/ o \in below /\ below' = below \ {o} /\ UNCHANGED <<user, item>>
                   \/ o = item[t] /\ item' = [item EXCEPT ![t] = None] /\ UNCHANGED <<user, below>>
                /\ UNCHANGED lost
          \/ \E o \in user : /\ user' = user \ {o} /\ item' = [item EXCEPT ![t] = o] /\ item[t] = None
                             /\ K = J /\ UNCHANGED <<below, lost>>
      <4>1. CASE UNCHANGED <<objs, user, below, item, lost>>
        BY Zenon, <4>1, <3>1
      <4>2. ASSUME NEW y \in Mags \ mapped, objs' = [objs EXCEPT ![y] = {}],
                   UNCHANGED <<user, below, item, lost>>
            PROVE  K = J
        BY Zenon, <4>2, <3>1, <1>s DEF SetFacts
      <4>3. ASSUME NEW x \in Own(t), NEW o \in objs[x], objs' = [objs EXCEPT ![x] = @ \ {o}]
            PROVE  x \in Mags /\ o \in J[x] /\ K = [J EXCEPT ![x] = @ \ {o}]
        <5>1. x \in mapped /\ x \in Mags /\ o \in J[x] /\ J[x] = objs[x]
          BY Zenon, <4>3, <1>s, <1>o DEF SetFacts, OwnFacts
        <5>2. \A y \in Mags : K[y] = IF y = x THEN J[x] \ {o} ELSE J[y]
          BY Zenon, <4>3, <5>1, <3>1, <1>s DEF SetFacts
        <5> QED
          BY Zenon, <5>1, <5>2
      <4>4. ASSUME NEW x \in Own(t), NEW o \in Objects, objs' = [objs EXCEPT ![x] = @ \cup {o}]
            PROVE  x \in Mags /\ K = [J EXCEPT ![x] = @ \cup {o}]
        BY Zenon, <4>4, <3>1, <1>s, <1>o DEF SetFacts, OwnFacts
      <4>5. UNCHANGED objs => K = J
        BY Zenon, <3>1
      <4> HIDE DEF J, K
      <4> QED
        BY Zenon, <1>2, <4>1, <4>2, <4>3, <4>4, <4>5 DEF Kept, ObjMove
    <3> DEFINE Once(L, it, us, be, lo) ==
          \A o \in Objects :
            /\ \A x, y \in Mags : o \in L[x] /\ o \in L[y] => x = y
            /\ \A s, u \in Threads : it[s] = o /\ it[u] = o => s = u
            /\ \A x \in Mags, s \in Threads : o \in L[x] => it[s] # o
            /\ \A x \in Mags : o \in L[x] => o \notin us /\ o \notin be /\ o \notin lo
            /\ \A s \in Threads : it[s] = o => o \notin us /\ o \notin be /\ o \notin lo
            /\ o \in us => o \notin be /\ o \notin lo
            /\ o \in be => o \notin lo
            /\ \/ \E x \in Mags : o \in L[x]
               \/ \E s \in Threads : it[s] = o
               \/ o \in us \/ o \in be \/ o \in lo
    <3>3. Once(J, item, user, below, lost)
      BY Zenon, <1>s DEF IInv, ObjectsOnce, SetFacts
    <3>4. Once(K, item', user', below', lost') => ObjectsOnce'
      BY Zenon DEF ObjectsOnce
    <3>5. J \in [Mags -> SUBSET Objects] /\ item \in [Threads -> Objects \cup {None}]
      BY Zenon, <1>s DEF SetFacts, IInv, Hands
    <3> HIDE DEF J, K
    <3>6. Once(K, item', user', below', lost')
      BY <3>2, <3>3, <3>5, <1>n
    <3> QED
      BY Zenon, <3>4, <3>6
  <2> QED
    BY Zenon, <2>1, <2>2, <2>3, <2>4
<1> QED
  BY Zenon, <1>1, <1>2
-----------------------------------------------------------------------------
(* The invariant holds of a new depot, and every step of a thread keeps    *)
(* it.                                                                     *)
THEOREM Invariance == Spec => []IInv
<1>1. Init => IInv
  <2> SUFFICES ASSUME Init PROVE IInv
    BY Zenon
  <2> USE DEF Init
  <2>0. None \notin Mags /\ None \notin Objects /\ Cap \in Nat /\ Cap > 0
    BY DepotAssumption
  <2>1. Shared
    BY <2>0, FS_EmptySet DEF Shared
  <2>2. Hands
    BY Zenon, <2>0 DEF Hands, Labels
  <2>3. Locals
    BY <2>0 DEF Locals, HandsOf, LoadOf, ReserveOf, Gone, Freeing, Refilling
  <2>4. Magazines
    <3>1. \A t \in Threads : Own(t) = {}
      BY Zenon DEF Own
    <3> QED
      BY Zenon, <3>1 DEF Magazines, Pipes
  <2>5. Contents
    BY Zenon DEF Contents, Pipes
  <2>6. ObjectsOnce
    BY Zenon, <2>0 DEF ObjectsOnce
  <2> QED
    BY Zenon, <2>1, <2>2, <2>3, <2>4, <2>5, <2>6 DEF IInv
<1>2. ASSUME IInv, NEW t \in Threads, Action(t) PROVE IInv'
  <2>1. Mine(t) /\ Kept(t) /\ lost = {}
    BY Zenon, <1>2, ThreadStep
  <2>2. Magazines' /\ mapped' \in SUBSET Mags /\ pipe' \in [Pipes -> SUBSET Mags]
    BY Zenon, <1>2, <2>1, MagazinesStep
  <2>3. Shared' /\ Locals' /\ Contents' /\ ObjectsOnce'
    BY Zenon, <1>2, <2>1, <2>2, ObjectsStep
  <2> QED
    BY Zenon, <2>1, <2>2, <2>3 DEF IInv, Kept
<1>3. ASSUME IInv, UNCHANGED vars PROVE IInv'
  <2>1. /\ objs' = objs /\ mapped' = mapped /\ pipe' = pipe /\ m1' = m1 /\ m2' = m2 /\ m' = m
        /\ item' = item /\ pc' = pc /\ user' = user /\ below' = below /\ lost' = lost
        /\ since' = since
    BY Zenon, <1>3 DEF vars, depot, mags
  <2>2. Shared' /\ Hands' /\ Contents' /\ ObjectsOnce'
    BY Zenon, <1>3, <2>1 DEF IInv, Shared, Hands, Contents, ObjectsOnce
  <2>3. Locals' /\ Magazines'
    BY Zenon, <1>3, <2>1 DEF IInv, Locals, HandsOf, LoadOf, ReserveOf, Magazines, Own
  <2> QED
    BY Zenon, <2>2, <2>3 DEF IInv
<1>4. IInv /\ [Next]_vars => IInv'
  BY Zenon, <1>2, <1>3 DEF Next, Action
<1> QED
  BY <1>1, <1>4, PTL DEF Spec

(* Every magazine is with one thread or in one pipe as long as it is       *)
(* mapped, the pipes hold full and empty ones as their names say, and      *)
(* every object is in one place.                                           *)
THEOREM DepotKeepsAll == Spec => []MagazinesInPlace
<1>1. IInv => MagazinesInPlace
  <2> SUFFICES ASSUME IInv PROVE MagazinesInPlace
    BY Zenon
  <2>0. /\ None \notin Mags /\ None \notin Objects
        /\ Cardinality({}) = 0 /\ \A q : Cardinality({q}) = 1
    BY Zenon, DepotAssumption, FS_EmptySet, FS_Singleton
  <2>1. ASSUME NEW x \in Mags PROVE Cardinality(Places(x)) = IF x \in mapped THEN 1 ELSE 0
    <3>1. \A t \in Threads : x \in Own(t) <=> m1[t] = x \/ m2[t] = x \/ m[t] = x
      BY Zenon, <2>0 DEF Own
    <3>2. CASE x \notin mapped
      <4>1. Places(x) = {}
        BY <3>1, <3>2 DEF Places, IInv, Magazines
      <4> QED
        BY Zenon, <4>1, <3>2, <2>0
    <3>3. ASSUME NEW t \in Threads, x \in Own(t) PROVE \E q : Places(x) = {q}
      <4>1. \A s \in Threads : x \in Own(s) => s = t
        BY Zenon, <3>3 DEF IInv, Magazines
      <4>2. \A p \in Pipes : x \notin pipe[p]
        BY Zenon, <3>3 DEF IInv, Magazines
      <4>3. /\ m1[t] = x => m2[t] # x /\ m[t] # x
            /\ m2[t] = x => m[t] # x
        BY Zenon, <2>0 DEF IInv, Magazines
      <4>4. CASE m1[t] = x
        <5>1. Places(x) = {<<"m1", t>>}
          BY Zenon, <4>1, <4>2, <4>3, <4>4, <3>1 DEF Places
        <5> QED
          BY Zenon, <5>1
      <4>5. CASE m2[t] = x
        <5>1. Places(x) = {<<"m2", t>>}
          BY Zenon, <4>1, <4>2, <4>3, <4>5, <3>1 DEF Places
        <5> QED
          BY Zenon, <5>1
      <4>6. CASE m[t] = x
        <5>1. Places(x) = {<<"m", t>>}
          BY Zenon, <4>1, <4>2, <4>3, <4>6, <3>1 DEF Places
        <5> QED
          BY Zenon, <5>1
      <4> QED
        BY Zenon, <3>1, <3>3, <4>4, <4>5, <4>6
    <3>4. ASSUME NEW p \in Pipes, x \in pipe[p] PROVE \E q : Places(x) = {q}
      <4>1. \A t \in Threads : x \notin Own(t)
        BY Zenon, <3>4 DEF IInv, Magazines
      <4>2. \A q \in Pipes : x \in pipe[q] => q = p
        BY <3>4 DEF IInv, Magazines, Pipes
      <4>3. Places(x) = {<<"pipe", p>>}
        BY Zenon, <4>1, <4>2, <3>1, <3>4 DEF Places
      <4> QED
        BY Zenon, <4>3
    <3>5. CASE x \in mapped
      <4>1. \E q : Places(x) = {q}
        BY Zenon, <3>3, <3>4, <3>5 DEF IInv, Magazines
      <4> QED
        BY Zenon, <4>1, <3>5, <2>0
    <3> QED
      BY Zenon, <3>2, <3>5
  <2>2. ASSUME NEW o \in Objects
        PROVE  Cardinality({x \in mapped : o \in objs[x]} \cup {t \in Threads : item[t] = o}
                    \cup {s \in {"user", "below", "lost"} :
                           o \in (CASE s = "user" -> user [] s = "below" -> below [] OTHER -> lost)})
               = 1
    <3> DEFINE X == {x \in mapped : o \in objs[x]}
               T == {t \in Threads : item[t] = o}
               U == {s \in {"user", "below", "lost"} :
                           o \in (CASE s = "user" -> user [] s = "below" -> below [] OTHER -> lost)}
    <3>1. \A s : s \in U <=> \/ s = "user" /\ o \in user
                             \/ s = "below" /\ o \in below
                             \/ s = "lost" /\ o \in lost
      BY Zenon
    <3> HIDE DEF U
    <3>2. \E q : X \cup T \cup U = {q}
      <4>1. CASE \E x \in mapped : o \in objs[x]
        BY <4>1, <3>1 DEF IInv, ObjectsOnce
      <4>2. CASE \E t \in Threads : item[t] = o
        BY <4>2, <3>1 DEF IInv, ObjectsOnce
      <4>3. CASE o \in user \/ o \in below \/ o \in lost
        BY <4>3, <3>1 DEF IInv, ObjectsOnce
      <4> QED
        BY Zenon, <4>1, <4>2, <4>3 DEF IInv, ObjectsOnce
    <3> QED
      BY Zenon, <3>2, <2>0 DEF U
  <2> QED
    BY Zenon, <2>1, <2>2 DEF MagazinesInPlace, IInv, Contents, Gone
<1> QED
  BY <1>1, Invariance, PTL

(* With two magazines a thread makes at least Cap calls between two visits *)
(* to the depot, whatever their order.                                     *)
THEOREM DepotIsRare == Spec => []DepotEveryCap
<1>1. IInv => DepotEveryCap
  BY Zenon DEF IInv, Locals, ReserveOf, DepotEveryCap
<1> QED
  BY <1>1, Invariance, PTL
-----------------------------------------------------------------------------
\* A number for each thread, as a set of as many elements as their sum.
Units(f) == {u \in Threads \X (1 .. Threshold) : u[2] <= f[u[1]]}

Above(n) == IF n > 0 THEN n ELSE 0

\* A thread that has seen the guess below max_size and has not pushed yet.
Pushing(p, t) == pc[t] \in (IF p = "full" THEN {"push_full"} ELSE {"push_empty", "drop_push"})

\* What a thread has not added to the counter of p, or not taken from it; and
\* the first with the push it goes on to.
Ahead(p) == [t \in Threads |-> Above(diff[p][t])]
Behind(p) == [t \in Threads |-> Above(-diff[p][t])]
Promised(p) == [t \in Threads |-> Above(diff[p][t]) + (IF Pushing(p, t) THEN 1 ELSE 0)]

Most == Cardinality(Threads) * Threshold

\* A pipe has no more magazines than were counted and are to be counted; and
\* these, with the pushes that will not look at the guess again, are below the
\* limit by which the threads together can be wrong.
CountersOf(p) ==
    /\ IsFiniteSet(pipe[p])
    /\ counted[p] \in Int
    /\ diff[p] \in [Threads -> -(Threshold - 1) .. Threshold - 1]
    /\ Cardinality(pipe[p]) + Cardinality(Units(Behind(p))) <= counted[p] + Cardinality(Units(Ahead(p)))
    /\ max_size = 0 => pipe[p] = {} /\ \A t \in Threads : ~ Pushing(p, t)
    /\ max_size > 0 => counted[p] + Cardinality(Units(Promised(p))) <= max_size - 1 + Most

Counted ==
    /\ max_size \in Nat
    /\ counted \in [Pipes -> Int]
    /\ diff \in [Pipes -> [Threads -> Int]]

Counters == Counted /\ \A p \in Pipes : CountersOf(p)

(* The units are finitely many, and at most Threshold for each thread.     *)
LEMMA UnitsBound ==
    ASSUME NEW f \in [Threads -> 0 .. Threshold]
    PROVE  /\ IsFiniteSet(Units(f))
           /\ Cardinality(Units(f)) \in Nat
           /\ Cardinality(Units(f)) <= Most
<1>1. IsFiniteSet(1 .. Threshold) /\ Cardinality(1 .. Threshold) = Threshold
  BY FS_Interval, DepotAssumption
<1>2. /\ IsFiniteSet(Threads \X (1 .. Threshold))
      /\ Cardinality(Threads \X (1 .. Threshold)) = Cardinality(Threads) * Threshold
  BY FS_Product, <1>1, DepotAssumption, Zenon
<1>3. Units(f) \in SUBSET (Threads \X (1 .. Threshold))
  BY Zenon DEF Units
<1>4. /\ IsFiniteSet(Units(f))
      /\ Cardinality(Units(f)) <= Cardinality(Threads \X (1 .. Threshold))
  BY FS_Subset, <1>2, <1>3, Zenon
<1>5. Cardinality(Units(f)) \in Nat
  BY Zenon, <1>4, FS_CardinalityType
<1> QED
  BY Zenon, <1>2, <1>4, <1>5 DEF Most

(* When the number of one thread changes, so does the sum, by as much.     *)
LEMMA UnitsChange ==
    ASSUME NEW f \in [Threads -> 0 .. Threshold], NEW g \in [Threads -> 0 .. Threshold],
           NEW t \in Threads, \A s \in Threads : s # t => g[s] = f[s]
    PROVE  Cardinality(Units(g)) - g[t] = Cardinality(Units(f)) - f[t]
<1> DEFINE Rest == {u \in Units(f) : u[1] # t}
           Of(h) == {t} \X (1 .. h[t])
<1>1. ASSUME NEW h \in [Threads -> 0 .. Threshold], \A s \in Threads : s # t => h[s] = f[s]
      PROVE  Cardinality(Units(h)) = Cardinality(Rest) + h[t] /\ Cardinality(Rest) \in Nat
  <2>0. h[t] \in 0 .. Threshold /\ Threshold \in Nat
    BY <1>1, DepotAssumption
  <2>1. Units(h) = Rest \cup Of(h)
    <3>1. ASSUME NEW u \in Units(h) PROVE u \in Rest \cup Of(h)
      <4>1. PICK s \in Threads, i \in 1 .. Threshold : u = <<s, i>>
        BY DEF Units
      <4>2. i <= h[s]
        BY <4>1 DEF Units
      <4>3. CASE s = t
        BY <4>1, <4>2, <4>3, <2>0
      <4>4. CASE s # t
        BY <4>1, <4>2, <4>4, <1>1 DEF Units
      <4> QED
        BY <4>3, <4>4
    <3>2. ASSUME NEW u \in Rest PROVE u \in Units(h)
      BY Zenon, <1>1 DEF Units
    <3>3. ASSUME NEW u \in Of(h) PROVE u \in Units(h)
      <4>1. PICK i \in 1 .. h[t] : u = <<t, i>>
        OBVIOUS
      <4>2. i \in 1 .. Threshold /\ i <= h[t]
        BY <2>0
      <4> QED
        BY <4>1, <4>2 DEF Units
    <3> QED
      BY Zenon, <3>1, <3>2, <3>3
  <2>2. Rest \cap Of(h) = {}
    OBVIOUS
  <2>3. IsFiniteSet(Of(h)) /\ Cardinality(Of(h)) = h[t]
    <3>1. IsFiniteSet(1 .. h[t]) /\ Cardinality(1 .. h[t]) = h[t]
      BY <2>0, FS_Interval
    <3>2. IsFiniteSet({t}) /\ Cardinality({t}) = 1
      BY Zenon, FS_Singleton
    <3>3. IsFiniteSet(Of(h)) /\ Cardinality(Of(h)) = Cardinality({t}) * Cardinality(1 .. h[t])
      BY Zenon, <3>1, <3>2, FS_Product
    <3> QED
      BY <3>1, <3>2, <3>3, <2>0
  <2>4. IsFiniteSet(Rest) /\ Cardinality(Rest) \in Nat
    <3>1. IsFiniteSet(Units(f)) /\ Rest \in SUBSET Units(f)
      BY Zenon, UnitsBound
    <3> QED
      BY Zenon, <3>1, FS_Subset, FS_CardinalityType
  <2>5. Cardinality(Units(h)) = Cardinality(Rest) + Cardinality(Of(h)) - Cardinality({})
    <3> HIDE DEF Rest, Of
    <3>1. Cardinality(Rest \cup Of(h))
            = Cardinality(Rest) + Cardinality(Of(h)) - Cardinality(Rest \cap Of(h))
      BY <2>3, <2>4, FS_Union, Zenon
    <3> QED
      BY Zenon, <3>1, <2>1, <2>2
  <2> QED
    BY <2>0, <2>3, <2>4, <2>5, FS_EmptySet
<1>2. Cardinality(Units(f)) = Cardinality(Rest) + f[t] /\ Cardinality(Rest) \in Nat
  BY Zenon, <1>1
<1>3. Cardinality(Units(g)) = Cardinality(Rest) + g[t]
  BY Zenon, <1>1
<1> QED
  BY <1>2, <1>3, DepotAssumption

\* What a step of thread t can do to pipe p and its counters.
Counts(p, t, d) ==
    IF Abs(diff[p][t] + d) >= Threshold
    THEN counted'[p] = counted[p] + diff[p][t] + d /\ diff'[p] = [diff[p] EXCEPT ![t] = 0]
    ELSE diff'[p] = [diff[p] EXCEPT ![t] = @ + d] /\ counted'[p] = counted[p]

Stays(p, t) ==
    /\ pipe'[p] = pipe[p] /\ counted'[p] = counted[p] /\ diff'[p] = diff[p]
    /\ Pushing(p, t)' => Pushing(p, t) \/ size_guess(p) < max_size
Puts(p, t) ==
    /\ Pushing(p, t) /\ ~ Pushing(p, t)'
    /\ \E x : pipe'[p] = pipe[p] \cup {x}
    /\ Counts(p, t, 1)
Takes(p, t) ==
    /\ ~ Pushing(p, t)'
    /\ \E x \in pipe[p] : pipe'[p] = pipe[p] \ {x}
    /\ Counts(p, t, -1)
Closes(p, t) ==
    /\ ~ Pushing(p, t)'
    /\ pipe'[p] = pipe[p] \/ pipe'[p] = {}
    /\ counted'[p] = counted[p] + diff[p][t] /\ diff'[p] = [diff[p] EXCEPT ![t] = 0]

CountMove(t) == \A p \in Pipes : Stays(p, t) \/ Puts(p, t) \/ Takes(p, t) \/ Closes(p, t)

(* push_mut, pop_mut and the drop of a handle move as much between the     *)
(* pipe, the counter and the thread's difference as they should; and a     *)
(* thread that has seen the guess below max_size adds no more than one.    *)
LEMMA CountStep ==
    ASSUME max_size \in Nat, max_size' = max_size, NEW p \in Pipes, CountersOf(p),
           NEW t \in Threads, \A s \in Threads : s # t => pc'[s] = pc[s],
           Stays(p, t) \/ Puts(p, t) \/ Takes(p, t) \/ Closes(p, t)
    PROVE  CountersOf(p)'
<1> DEFINE D == -(Threshold - 1) .. Threshold - 1
           one == IF Pushing(p, t) THEN 1 ELSE 0
           next == IF Pushing(p, t)' THEN 1 ELSE 0
<1>0. /\ Threshold \in Nat /\ Threshold > 0 /\ counted[p] \in Int /\ diff[p] \in [Threads -> D]
      /\ IsFiniteSet(pipe[p]) /\ Cardinality(pipe[p]) \in Nat
  BY DepotAssumption, FS_CardinalityType DEF CountersOf
<1>1. /\ counted'[p] \in Int /\ diff'[p] \in [Threads -> D]
      /\ \A s \in Threads : s # t => diff'[p][s] = diff[p][s]
  <2>1. ASSUME NEW d \in {1, -1}, Counts(p, t, d)
        PROVE  /\ counted'[p] \in Int /\ diff'[p] \in [Threads -> D]
               /\ \A s \in Threads : s # t => diff'[p][s] = diff[p][s]
    BY <2>1, <1>0 DEF Counts, Abs
  <2>2. CASE Stays(p, t)
    BY Zenon, <2>2, <1>0 DEF Stays
  <2>3. CASE Closes(p, t)
    BY <2>3, <1>0 DEF Closes
  <2> QED
    BY Zenon, <2>1, <2>2, <2>3 DEF Puts, Takes
<1>2. ASSUME NEW q \in [Threads -> D]
      PROVE  /\ [s \in Threads |-> Above(q[s])] \in [Threads -> 0 .. Threshold]
             /\ [s \in Threads |-> Above(-q[s])] \in [Threads -> 0 .. Threshold]
             /\ [s \in Threads |-> Above(q[s]) + 1] \in [Threads -> 0 .. Threshold]
             /\ \A s \in Threads : Above(q[s]) \in 0 .. Threshold /\ Above(q[s]) + 1 \in 0 .. Threshold
  BY <1>0 DEF Above
<1>3. /\ Ahead(p) \in [Threads -> 0 .. Threshold] /\ Ahead(p)' \in [Threads -> 0 .. Threshold]
      /\ Behind(p) \in [Threads -> 0 .. Threshold] /\ Behind(p)' \in [Threads -> 0 .. Threshold]
      /\ Promised(p) \in [Threads -> 0 .. Threshold] /\ Promised(p)' \in [Threads -> 0 .. Threshold]
  BY <1>0, <1>1, <1>2 DEF Ahead, Behind, Promised
<1>4. \A s \in Threads : s # t => /\ Ahead(p)'[s] = Ahead(p)[s] /\ Behind(p)'[s] = Behind(p)[s]
                                  /\ Promised(p)'[s] = Promised(p)[s]
  BY Zenon, <1>1 DEF Ahead, Behind, Promised, Pushing
<1>5. /\ Ahead(p)[t] = Above(diff[p][t]) /\ Ahead(p)'[t] = Above(diff'[p][t])
      /\ Behind(p)[t] = Above(-diff[p][t]) /\ Behind(p)'[t] = Above(-diff'[p][t])
      /\ Promised(p)[t] = Above(diff[p][t]) + one /\ Promised(p)'[t] = Above(diff'[p][t]) + next
  BY Zenon DEF Ahead, Behind, Promised
<1> DEFINE A == Cardinality(Units(Ahead(p)))
           B == Cardinality(Units(Behind(p)))
           R == Cardinality(Units(Promised(p)))
<1>6. /\ A \in Nat /\ A' \in Nat /\ B \in Nat /\ B' \in Nat /\ R \in Nat /\ R' \in Nat /\ R' <= Most
  BY Zenon, <1>3, UnitsBound
<1>7. A' - Ahead(p)'[t] = A - Ahead(p)[t]
  BY Zenon, <1>3, <1>4, UnitsChange
<1>8. B' - Behind(p)'[t] = B - Behind(p)[t]
  BY Zenon, <1>3, <1>4, UnitsChange
<1>9. R' - Promised(p)'[t] = R - Promised(p)[t]
  BY Zenon, <1>3, <1>4, UnitsChange
<1>10. Most \in Nat
  BY DepotAssumption, FS_CardinalityType DEF Most
<1>11. /\ Cardinality(pipe[p]) + B <= counted[p] + A
       /\ max_size = 0 => pipe[p] = {} /\ \A s \in Threads : ~ Pushing(p, s)
       /\ max_size > 0 => counted[p] + R <= max_size - 1 + Most
  BY Zenon DEF CountersOf
<1> HIDE DEF A, B, R
<1>12. diff[p][t] \in D /\ diff'[p][t] \in D /\ diff[p][t] \in Int /\ diff'[p][t] \in Int
  BY <1>0, <1>1
<1> DEFINE N == Cardinality(pipe[p])
           n1 == Cardinality(pipe'[p])
           d == diff[p][t]
           d1 == diff'[p][t]
           c == counted[p]
           c1 == counted'[p]
           up == Above(d)
           up1 == Above(d1)
<1>n. /\ N \in Nat /\ c \in Int /\ c1 \in Int /\ d \in Int /\ d1 \in Int
      /\ max_size \in Nat /\ Most \in Nat
  BY Zenon, <1>0, <1>1, <1>10, <1>12
<1>m. one \in {0, 1} /\ next \in {0, 1}
  BY Zenon
<1>u. up \in Nat /\ up1 \in Nat /\ up - Above(-d) = d /\ up1 - Above(-d1) = d1
      /\ Above(-d) \in Nat /\ Above(-d1) \in Nat
  <2>1. \A x \in Int : Above(x) \in Nat /\ Above(-x) \in Nat /\ Above(x) - Above(-x) = x
    BY DEF Above
  <2> QED
    BY Zenon, <2>1, <1>n
<1>k. /\ N + B <= c + A
      /\ max_size > 0 => c + R <= max_size - 1 + Most
  BY Zenon, <1>11
<1>13. /\ A' - up1 = A - up
       /\ B' - Above(-d1) = B - Above(-d)
       /\ R' - (up1 + next) = R - (up + one)
  BY Zenon, <1>5, <1>7, <1>8, <1>9
<1>15. \A s \in Threads : s # t => (Pushing(p, s)' <=> Pushing(p, s))
  BY DEF Pushing
<1> DEFINE Holds == /\ IsFiniteSet(pipe'[p])
                    /\ Cardinality(pipe'[p]) + B' <= counted'[p] + A'
                    /\ max_size = 0 => pipe'[p] = {} /\ \A s \in Threads : ~ Pushing(p, s)'
                    /\ max_size > 0 => counted'[p] + R' <= max_size - 1 + Most
<1> DEFINE a1 == A'
           b1 == B'
           r1 == R'
           dn == Above(-d)
           dn1 == Above(-d1)
<1>v. /\ A \in Int /\ a1 \in Int /\ B \in Int /\ b1 \in Int /\ R \in Int /\ r1 \in Int
      /\ up \in Int /\ up1 \in Int /\ dn \in Int /\ dn1 \in Int
  BY <1>6, <1>u
\* The pipe, the counter and the differences change by as much.
<1>x. ASSUME n1 \in Int, n1 + c <= N + c1 + d1 - d PROVE n1 + B' <= c1 + A'
  <2>1. /\ a1 - up1 = A - up /\ b1 - dn1 = B - dn
        /\ up - dn = d /\ up1 - dn1 = d1 /\ N + B <= c + A
    BY Zenon, <1>13, <1>u, <1>k
  <2>2. n1 + b1 <= c1 + a1
    <3> HIDE DEF N, n1, c, c1, d, d1, up, up1, dn, dn1, a1, b1
    <3> QED
      BY <1>x, <2>1, <1>n, <1>v
  <2> QED
    BY Zenon, <2>2
<1>y. ASSUME c1 + (up1 + next) <= c + (up + one)
      PROVE  max_size > 0 => counted'[p] + R' <= max_size - 1 + Most
  <2>1. /\ r1 - (up1 + next) = R - (up + one)
        /\ max_size > 0 => c + R <= max_size - 1 + Most
    BY Zenon, <1>13, <1>k
  <2>2. max_size > 0 => c1 + r1 <= max_size - 1 + Most
    <3> HIDE DEF c, c1, up, up1, one, next, r1
    <3> QED
      BY <1>y, <2>1, <1>n, <1>m, <1>v
  <2> QED
    BY Zenon, <2>2
<1>16. ASSUME Stays(p, t) PROVE Holds
  <2>1. /\ pipe'[p] = pipe[p] /\ counted'[p] = counted[p] /\ diff'[p] = diff[p]
        /\ Pushing(p, t)' => Pushing(p, t) \/ size_guess(p) < max_size
    BY Zenon, <1>16 DEF Stays
  <2>2. n1 = N /\ c1 = c /\ d1 = d /\ up1 = up
    BY Zenon, <2>1, <1>n
  <2>3. Cardinality(pipe'[p]) + B' <= counted'[p] + A'
    <3>1. n1 \in Int /\ n1 + c <= N + c1 + d1 - d
      <4> HIDE DEF N, n1, c, c1, d, d1, up, up1
      <4> QED
        BY <2>2, <1>n
    <3> QED
      BY Zenon, <3>1, <2>2, <1>x
  <2>4. max_size = 0 => ~ (size_guess(p) < max_size)
    BY <1>n DEF size_guess
  <2>5. size_guess(p) < max_size => counted[p] <= max_size - 1
    BY <1>n DEF size_guess
  <2>6. CASE size_guess(p) < max_size
    <3>1. max_size # 0 /\ c <= max_size - 1
      BY Zenon, <2>4, <2>5, <2>6
    <3>2. r1 <= Most
      BY Zenon, <1>6
    <3>3. c + r1 <= max_size - 1 + Most
      <4> HIDE DEF c, r1
      <4> QED
        BY <3>1, <3>2, <1>n, <1>v
    <3> QED
      BY Zenon, <3>1, <3>3, <2>1, <2>3, <1>0
  <2>7. CASE ~ (size_guess(p) < max_size)
    <3>1. \A s \in Threads : Pushing(p, s)' => Pushing(p, s)
      BY Zenon, <2>1, <2>7, <1>15
    <3>2. next <= one
      BY <3>1
    <3>3. c1 + (up1 + next) <= c + (up + one)
      <4> HIDE DEF N, n1, c, c1, d, d1, up, up1, one, next
      <4> QED
        BY <3>2, <2>2, <1>n, <1>m, <1>u
    <3>4. max_size > 0 => counted'[p] + R' <= max_size - 1 + Most
      BY Zenon, <3>3, <1>y
    <3> QED
      BY Zenon, <3>1, <3>4, <2>1, <2>3, <1>0, <1>11
  <2> QED
    BY Zenon, <2>6, <2>7
\* push_mut and pop_mut count themselves.
<1>z. ASSUME NEW k \in {1, -1}, Counts(p, t, k)
      PROVE  c1 + d1 - d = c + k /\ c1 + up1 <= c + up + (IF k = 1 THEN 1 ELSE 0)
  <2>1. (d1 = 0 /\ c1 = c + d + k) \/ (d1 = d + k /\ c1 = c)
    BY Zenon, <1>z, <1>0 DEF Counts
  <2> HIDE DEF N, n1, c, c1, d, d1
  <2> QED
    BY <2>1, <1>n DEF Above
<1>17. ASSUME Puts(p, t) PROVE Holds
  <2>1. PICK x : pipe'[p] = pipe[p] \cup {x}
    BY Zenon, <1>17 DEF Puts
  <2>2. /\ IsFiniteSet(pipe[p] \cup {x})
        /\ Cardinality(pipe[p] \cup {x}) = IF x \in pipe[p] THEN N ELSE N + 1
    BY Zenon, <1>0, FS_AddElement
  <2>3. IsFiniteSet(pipe'[p]) /\ (n1 = N \/ n1 = N + 1)
    BY Zenon, <2>1, <2>2
  <2>4. one = 1 /\ next = 0 /\ max_size # 0
    BY Zenon, <1>17, <1>11 DEF Puts
  <2>5. c1 + d1 - d = c + 1 /\ c1 + up1 <= c + up + 1
    BY Zenon, <1>17, <1>z DEF Puts
  <2>6. n1 \in Int /\ n1 + c <= N + c1 + d1 - d /\ c1 + (up1 + next) <= c + (up + one)
    <3> HIDE DEF N, n1, c, c1, d, d1, up, up1, one, next
    <3> QED
      BY <2>3, <2>4, <2>5, <1>n, <1>u
  <2>7. n1 + B' <= c1 + A' /\ (max_size > 0 => counted'[p] + R' <= max_size - 1 + Most)
    BY Zenon, <2>6, <1>x, <1>y
  <2> QED
    BY Zenon, <2>3, <2>4, <2>7
<1>18. ASSUME Takes(p, t) PROVE Holds
  <2>1. PICK x \in pipe[p] : pipe'[p] = pipe[p] \ {x}
    BY Zenon, <1>18 DEF Takes
  <2>r. /\ IsFiniteSet(pipe[p] \ {x})
        /\ Cardinality(pipe[p] \ {x}) = IF x \in pipe[p] THEN N - 1 ELSE N
    BY Zenon, <1>0, FS_RemoveElement
  <2>2. IsFiniteSet(pipe'[p]) /\ n1 = N - 1
    BY Zenon, <2>1, <2>r
  <2>3. next = 0 /\ max_size # 0
    BY Zenon, <1>18, <1>11, <2>1 DEF Takes
  <2>4. c1 + d1 - d = c + -1 /\ c1 + up1 <= c + up + (IF -1 = 1 THEN 1 ELSE 0)
    BY Zenon, <1>18, <1>z DEF Takes
  <2>5. n1 \in Int /\ n1 + c <= N + c1 + d1 - d /\ c1 + (up1 + next) <= c + (up + one)
    <3> HIDE DEF N, n1, c, c1, d, d1, up, up1, one, next
    <3> QED
      BY <2>2, <2>3, <2>4, <1>n, <1>m, <1>u
  <2>6. n1 + B' <= c1 + A' /\ (max_size > 0 => counted'[p] + R' <= max_size - 1 + Most)
    BY Zenon, <2>5, <1>x, <1>y
  <2> QED
    BY Zenon, <2>2, <2>3, <2>6
<1>19. ASSUME Closes(p, t) PROVE Holds
  <2>1. IsFiniteSet(pipe'[p]) /\ (n1 = N \/ n1 = 0)
    BY Zenon, <1>19, <1>0, FS_EmptySet DEF Closes
  <2>2. /\ next = 0
        /\ max_size = 0 => pipe'[p] = {} /\ \A s \in Threads : ~ Pushing(p, s)'
    BY Zenon, <1>19, <1>11, <1>15 DEF Closes
  <2>3. d1 = 0 /\ c1 = c + d
    BY Zenon, <1>19, <1>0 DEF Closes
  <2>4. n1 \in Int /\ n1 + c <= N + c1 + d1 - d /\ c1 + (up1 + next) <= c + (up + one)
    <3> HIDE DEF N, n1, c, c1, d, d1, one, next
    <3> QED
      BY <2>1, <2>2, <2>3, <1>n, <1>m DEF Above
  <2>5. n1 + B' <= c1 + A' /\ (max_size > 0 => counted'[p] + R' <= max_size - 1 + Most)
    BY Zenon, <2>4, <1>x, <1>y
  <2> QED
    BY Zenon, <2>1, <2>2, <2>5
<1>20. Holds
  BY Zenon, <1>16, <1>17, <1>18, <1>19
<1> QED
  BY Zenon, <1>20, <1>1 DEF CountersOf, A, B, R

(* Whatever thread acts: it is about to push only after it has found the   *)
(* guess below max_size, and its pushes and pops count themselves.         *)
LEMMA CountMoves ==
    ASSUME pipe \in [Pipes -> SUBSET Mags], pc \in [Threads -> Labels], Counted,
           NEW t \in Threads, Action(t)
    PROVE  /\ CountMove(t)
           /\ \A s \in Threads : s # t => pc'[s] = pc[s]
           /\ counted' \in [Pipes -> Int] /\ diff' \in [Pipes -> [Threads -> Int]]
<1> DEFINE Others == \A s \in Threads : s # t => pc'[s] = pc[s]
           Typed == counted' \in [Pipes -> Int] /\ diff' \in [Pipes -> [Threads -> Int]]
           Same(p) == pipe'[p] = pipe[p] /\ counted'[p] = counted[p] /\ diff'[p] = diff[p]
           Alone(p) == \A q \in Pipes : q # p => Same(q)
<1>a. "empty" \in Pipes /\ "full" \in Pipes /\ \A p \in Pipes : p = "empty" \/ p = "full"
  BY DEF Pipes
<1>b. /\ counted \in [Pipes -> Int] /\ diff \in [Pipes -> [Threads -> Int]]
      /\ \A p \in Pipes : counted[p] \in Int /\ diff[p] \in [Threads -> Int] /\ diff[p][t] \in Int
  BY DEF Counted
<1>1. ASSUME UNCHANGED depot PROVE Typed /\ \A p \in Pipes : Same(p)
  BY Zenon, <1>1, <1>b DEF depot
<1>2. ASSUME NEW p \in Pipes, NEW d \in {1, -1}, Count(p, t, d)
      PROVE  /\ Counts(p, t, d) /\ Typed
             /\ \A q \in Pipes : q # p => counted'[q] = counted[q] /\ diff'[q] = diff[q]
  <2> DEFINE n == diff[p][t] + d
  <2>1. n \in Int
    BY <1>b
  <2>2. CASE Abs(n) >= Threshold
    <3>1. counted' = [counted EXCEPT ![p] = @ + n] /\ diff' = [diff EXCEPT ![p][t] = 0]
      BY Zenon, <1>2, <2>2 DEF Count
    <3> QED
      BY <3>1, <2>1, <2>2, <1>b DEF Counts
  <2>3. CASE ~ (Abs(n) >= Threshold)
    <3>1. diff' = [diff EXCEPT ![p][t] = n] /\ counted' = counted
      BY Zenon, <1>2, <2>3 DEF Count
    <3> QED
      BY <3>1, <2>1, <2>3, <1>b DEF Counts
  <2> QED
    BY Zenon, <2>2, <2>3
<1>3. ASSUME NEW p \in Pipes, NEW x, PushMut(p, t, x)
      PROVE  /\ pipe'[p] = pipe[p] \cup {x} /\ Counts(p, t, 1) /\ Typed /\ Alone(p)
  <2>1. pipe' = [pipe EXCEPT ![p] = @ \cup {x}] /\ Count(p, t, 1)
    BY Zenon, <1>3 DEF PushMut
  <2> QED
    BY Zenon, <2>1, <1>2
<1>4. ASSUME NEW p \in Pipes, NEW x, PopMut(p, t, x)
      PROVE  /\ x \in pipe[p] /\ pipe'[p] = pipe[p] \ {x} /\ Counts(p, t, -1) /\ Typed /\ Alone(p)
  <2>1. x \in pipe[p] /\ pipe' = [pipe EXCEPT ![p] = @ \ {x}] /\ Count(p, t, -1)
    BY Zenon, <1>4 DEF PopMut
  <2> QED
    BY Zenon, <2>1, <1>2
<1>c. ASSUME NEW x, Go(t, x) PROVE pc'[t] = x /\ Others
  BY Zenon, <1>c DEF Go
<1> DEFINE Done == CountMove(t) /\ Others /\ Typed
\* A pop, or nothing, at a place where the thread does not push.
<1>5. ASSUME Others, \A p \in Pipes : ~ Pushing(p, t) /\ ~ Pushing(p, t)',
             \/ UNCHANGED depot \/ \E p \in Pipes, x \in Mags : PopMut(p, t, x)
      PROVE  Done
  <2>1. CASE UNCHANGED depot
    BY Zenon, <2>1, <1>5, <1>1 DEF CountMove, Stays
  <2>2. ASSUME NEW p \in Pipes, NEW x \in Mags, PopMut(p, t, x) PROVE Done
    <3>1. Takes(p, t) /\ Typed /\ Alone(p)
      BY Zenon, <2>2, <1>4, <1>5 DEF Takes
    <3> QED
      BY Zenon, <3>1, <1>5 DEF CountMove, Stays
  <2> QED
    BY Zenon, <2>1, <2>2, <1>5
\* A push.
<1>6. ASSUME Others, NEW p \in Pipes, NEW x, PushMut(p, t, x), Pushing(p, t),
             \A q \in Pipes : ~ Pushing(q, t)'
      PROVE  Done
  <2>1. Puts(p, t) /\ Typed /\ Alone(p)
    BY Zenon, <1>6, <1>3 DEF Puts
  <2> QED
    BY Zenon, <2>1, <1>6 DEF CountMove, Stays
<1>p. \A x : pc'[t] = x /\ x \notin {"push_full", "push_empty", "drop_push"}
               => \A p \in Pipes : ~ Pushing(p, t)'
  BY Zenon DEF Pushing
<1>q. \A x : pc[t] = x /\ x \notin {"push_full", "push_empty", "drop_push"}
               => \A p \in Pipes : ~ Pushing(p, t)
  BY Zenon DEF Pushing
<1> USE <1>a
<1>7. CASE Clone(t) \/ Drop(t)
  <2>1. \E x \in {"new", "drop"} : Go(t, x) /\ UNCHANGED depot /\ pc[t] \in {"unborn", "idle"}
    BY Zenon, <1>7 DEF Clone, Drop
  <2> QED
    BY Zenon, <2>1, <1>c, <1>5, <1>p, <1>q
<1>8. CASE Alloc(t) \/ Free(t)
  <2>1. pc' = pc \/ \E x \in {"idle", "alloc_full", "free_full"} : Go(t, x)
    BY Zenon, <1>8 DEF Alloc, Free, Exchange
  <2>2. UNCHANGED depot /\ pc[t] = "idle"
    BY Zenon, <1>8 DEF Alloc, Free
  <2> QED
    BY Zenon, <2>1, <2>2, <1>c, <1>5, <1>p, <1>q
<1>9. CASE NewFull(t) \/ AllocFull(t)
  <2>1. /\ pc[t] \in {"new", "alloc_full"}
        /\ \E x \in {"new_empty", "free_empty", "refill"} : Go(t, x)
        /\ UNCHANGED depot \/ \E x \in pipe["full"] : PopMut("full", t, x)
    BY Zenon, <1>9 DEF NewFull, AllocFull, depot
  <2> QED
    BY Zenon, <2>1, <1>c, <1>5, <1>p, <1>q
<1>10. CASE NewEmpty(t) \/ TakeEmpty(t)
  <2>1. /\ pc[t] \in {"new_empty", "alloc_empty"}
        /\ pc' = pc \/ \E x \in {"idle", "spill"} : Go(t, x)
        /\ UNCHANGED depot \/ \E x \in Mags : PopMut("empty", t, x)
    BY Zenon, <1>10 DEF NewEmpty, TakeEmpty, AllocEmpty
  <2> QED
    BY Zenon, <2>1, <1>c, <1>5, <1>p, <1>q
<1>11. CASE FreeEmpty(t) \/ FreeFull(t) \/ DropMagazine(t)
  <2>1. UNCHANGED depot
    BY Zenon, <1>11 DEF FreeEmpty, FreeFull, DropMagazine
  <2>2. \E x \in {"idle", "push_empty", "spill", "push_full", "drop", "drop_depot", "drop_push"} :
           /\ Go(t, x)
           /\ x \in {"push_empty", "drop_push"} => ~ (size_guess("empty") >= max_size)
           /\ x = "push_full" => ~ (size_guess("full") >= max_size)
    BY Zenon, <1>11 DEF FreeEmpty, FreeFull, DropMagazine, Loaded
  <2>3. \A p \in Pipes : ~ (size_guess(p) >= max_size) => size_guess(p) < max_size
    BY <1>b DEF size_guess, Counted
  <2>4. \A p \in Pipes : Pushing(p, t)' => size_guess(p) < max_size
    BY Zenon, <2>2, <2>3, <1>c, <1>a DEF Pushing
  <2> QED
    BY Zenon, <2>1, <2>2, <2>4, <1>c, <1>1 DEF CountMove, Stays
<1>12. CASE PushEmpty(t) \/ PushFull(t) \/ DropPush(t)
  <2>1. \E x \in {"idle", "alloc_empty", "drop", "drop_depot"} : Go(t, x)
    BY Zenon, <1>12 DEF PushEmpty, PushFull, DropPush, Loaded
  <2>2. \E p \in Pipes : Pushing(p, t) /\ \E x : PushMut(p, t, x)
    BY Zenon, <1>12 DEF PushEmpty, PushFull, DropPush, Pushing
  <2>3. \A q \in Pipes : ~ Pushing(q, t)'
    BY Zenon, <2>1, <1>c, <1>p
  <2> QED
    BY Zenon, <2>1, <2>2, <2>3, <1>c, <1>6
<1>13. CASE Refill(t) \/ Spill(t) \/ DropObject(t)
  <2>1. /\ pc[t] \in {"refill", "spill", "drop"} /\ UNCHANGED depot
        /\ pc' = pc \/ Go(t, "idle")
    BY Zenon, <1>13 DEF Refill, Spill, DropObject
  <2>2. Others /\ pc'[t] \in {"refill", "spill", "drop", "idle"}
    BY Zenon, <2>1, <1>c
  <2>3. \A p \in Pipes : ~ Pushing(p, t) /\ ~ Pushing(p, t)'
    BY Zenon, <2>1, <2>2, <1>p, <1>q
  <2> QED
    BY Zenon, <2>1, <2>2, <2>3, <1>5
<1>14. CASE DropDepot(t)
  <2>1. /\ Go(t, "dropped")
        /\ counted' = [p \in Pipes |-> counted[p] + diff[p][t]]
        /\ diff' = [p \in Pipes |-> [diff[p] EXCEPT ![t] = 0]]
        /\ pipe' = pipe \/ pipe' = [p \in Pipes |-> {}]
    BY Zenon, <1>14 DEF DropDepot
  <2>2. Typed
    BY <2>1, <1>b
  <2>3. \A p \in Pipes : /\ counted'[p] = counted[p] + diff[p][t]
                         /\ diff'[p] = [diff[p] EXCEPT ![t] = 0]
                         /\ pipe'[p] = pipe[p] \/ pipe'[p] = {}
    BY Zenon, <2>1
  <2>4. Others /\ pc'[t] = "dropped"
    BY Zenon, <2>1, <1>c
  <2>5. \A p \in Pipes : ~ Pushing(p, t)'
    BY <2>4 DEF Pushing
  <2> QED
    BY Zenon, <2>2, <2>3, <2>4, <2>5 DEF CountMove, Closes
<1> QED
  BY Zenon, <1>7, <1>8, <1>9, <1>10, <1>11, <1>12, <1>13, <1>14 DEF Action, Step

(* The counters of a pipe differ from what is in it by what the threads    *)
(* have not handed on, and less than Threshold each.                       *)
THEOREM Counting == Spec => []Counters
<1>1. Init => Counters
  <2> SUFFICES ASSUME Init PROVE Counters
    BY Zenon
  <2>1. Counted /\ Threshold \in Nat /\ Threshold > 0 /\ Cardinality(Threads) \in Nat
    BY DepotAssumption, FS_CardinalityType DEF Init, Counted
  <2>2. ASSUME NEW p \in Pipes PROVE CountersOf(p)
    <3>1. /\ pipe[p] = {} /\ counted[p] = 0 /\ diff[p] = [t \in Threads |-> 0]
          /\ \A t \in Threads : ~ Pushing(p, t)
      BY Zenon DEF Init, Pushing
    <3>2. /\ Ahead(p) = [t \in Threads |-> 0] /\ Behind(p) = [t \in Threads |-> 0]
          /\ Promised(p) = [t \in Threads |-> 0]
      BY <3>1 DEF Ahead, Behind, Promised, Above
    <3>3. Units([t \in Threads |-> 0]) = {}
      BY DEF Units
    <3>4. Most \in Nat
      BY <2>1 DEF Most
    <3>5. diff[p] \in [Threads -> -(Threshold - 1) .. Threshold - 1]
      BY <2>1, <3>1
    <3>6. /\ IsFiniteSet(pipe[p]) /\ Cardinality(pipe[p]) = 0
          /\ Cardinality(Units(Ahead(p))) = 0 /\ Cardinality(Units(Behind(p))) = 0
          /\ Cardinality(Units(Promised(p))) = 0
      BY Zenon, <3>1, <3>2, <3>3, FS_EmptySet
    <3>7. max_size \in Nat
      BY Zenon, <2>1 DEF Counted
    <3>8. /\ counted[p] \in Int
          /\ Cardinality(pipe[p]) + Cardinality(Units(Behind(p)))
                 <= counted[p] + Cardinality(Units(Ahead(p)))
          /\ max_size > 0 => counted[p] + Cardinality(Units(Promised(p))) <= max_size - 1 + Most
      BY <3>1, <3>4, <3>6, <3>7
    <3> QED
      BY Zenon, <3>1, <3>5, <3>6, <3>8 DEF CountersOf
  <2> QED
    BY Zenon, <2>1, <2>2 DEF Counters
<1>2. ASSUME IInv, Counters, NEW t \in Threads, Action(t), UNCHANGED max_size PROVE Counters'
  <2>1. /\ pipe \in [Pipes -> SUBSET Mags] /\ pc \in [Threads -> Labels] /\ Counted
        /\ \A p \in Pipes : CountersOf(p)
    BY Zenon, <1>2 DEF IInv, Shared, Hands, Counters
  <2>2. /\ CountMove(t)
        /\ \A s \in Threads : s # t => pc'[s] = pc[s]
        /\ counted' \in [Pipes -> Int] /\ diff' \in [Pipes -> [Threads -> Int]]
    BY Zenon, <1>2, <2>1, CountMoves
  <2>3. max_size \in Nat /\ max_size' = max_size
    BY Zenon, <1>2, <2>1 DEF Counted
  <2>4. \A p \in Pipes : CountersOf(p)'
    BY Zenon, <2>1, <2>2, <2>3, CountStep DEF CountMove
  <2> QED
    BY Zenon, <2>2, <2>3, <2>4 DEF Counters, Counted
<1>3. ASSUME Counters, UNCHANGED vars PROVE Counters'
  BY Zenon, <1>3 DEF Counters, Counted, CountersOf, vars, depot, Ahead, Behind, Promised, Pushing
<1>4. IInv /\ Counters /\ [Next]_vars => Counters'
  BY Zenon, <1>2, <1>3 DEF Next, Action
<1> QED
  BY <1>1, <1>4, Invariance, PTL DEF Spec

(* A pipe of the depot never has more than max_size - 1 magazines and      *)
(* Threshold for each thread, although size_guess lags behind and a thread *)
(* pushes some time after it has looked; with max_size 0 it has none.      *)
THEOREM DepotIsBounded == Spec => []DepotBounded
<1>1. Counters => DepotBounded
  <2> SUFFICES ASSUME Counters, NEW p \in Pipes
               PROVE  Cardinality(pipe[p]) <= IF max_size = 0 THEN 0
                                              ELSE max_size - 1 + Cardinality(Threads) * Threshold
    BY Zenon DEF DepotBounded
  <2> DEFINE D == -(Threshold - 1) .. Threshold - 1
  <2>0. /\ Threshold \in Nat /\ Threshold > 0 /\ max_size \in Nat /\ counted[p] \in Int
        /\ diff[p] \in [Threads -> D] /\ IsFiniteSet(pipe[p]) /\ Cardinality(pipe[p]) \in Nat
    BY DepotAssumption, FS_CardinalityType DEF Counters, Counted, CountersOf
  <2>1. CASE max_size = 0
    <3>1. pipe[p] = {}
      BY Zenon, <2>1 DEF Counters, CountersOf
    <3> QED
      BY <2>1, <3>1, FS_EmptySet
  <2>2. CASE max_size # 0
    <3>1. /\ Ahead(p) \in [Threads -> 0 .. Threshold] /\ Behind(p) \in [Threads -> 0 .. Threshold]
          /\ Promised(p) \in [Threads -> 0 .. Threshold]
          /\ \A t \in Threads : Ahead(p)[t] <= Promised(p)[t]
      BY <2>0 DEF Ahead, Behind, Promised, Above
    <3>2. Units(Ahead(p)) \in SUBSET Units(Promised(p))
      BY <3>1, <2>0 DEF Units
    <3>3. Cardinality(Units(Ahead(p))) <= Cardinality(Units(Promised(p)))
      BY <3>1, <3>2, UnitsBound, FS_Subset, Zenon
    <3>4. /\ Cardinality(Units(Ahead(p))) \in Nat /\ Cardinality(Units(Behind(p))) \in Nat
          /\ Cardinality(Units(Promised(p))) \in Nat
      BY Zenon, <3>1, UnitsBound
    <3>5. /\ Cardinality(pipe[p]) + Cardinality(Units(Behind(p)))
                 <= counted[p] + Cardinality(Units(Ahead(p)))
          /\ max_size > 0 => counted[p] + Cardinality(Units(Promised(p))) <= max_size - 1 + Most
      BY Zenon DEF Counters, CountersOf
    <3>6. Most \in Nat
      BY DepotAssumption, FS_CardinalityType DEF Most
    <3>7. Cardinality(pipe[p]) <= max_size - 1 + Most
      BY <2>0, <2>2, <3>3, <3>4, <3>5, <3>6
    <3> QED
      BY Zenon, <2>2, <3>7 DEF Most
  <2> QED
    BY Zenon, <2>1, <2>2
<1> QED
  BY <1>1, Counting, PTL
=============================================================================
