--------------------------- MODULE BsAllocProofs ----------------------------
(***************************************************************************)
(* bsalloc keeps every block in one place, for every value of the          *)
(* constants. The invariant names the block that each thread has in hand;  *)
(* an action moves the blocks of a small set between slot, hand and        *)
(* program, and BFrame carries the rest over.                              *)
(***************************************************************************)
EXTENDS BsAllocPart, FiniteSetTheorems, TLAPS

\* How much is mapped for an object of that size.
Footprint(size) == IF Bs!ClassOf(size) = "direct" THEN size ELSE Bs!object_size(Bs!ClassOf(size))

Owned == Blocks \X Nat

\* What a thread is doing is well formed, and the block it has in hand.
DoingOk(r) ==
    /\ r.name \in {"idle", "alloc", "map", "free", "unmap"}
    /\ r.name \in {"alloc", "free"} =>
        r.class \in Bs!Caches /\ r.slot \in Bs!Slots(r.class) /\ r.stride \in Nat /\ r.left \in Nat
    /\ r.name \in {"alloc", "map"} => r.size \in Nat /\ (r.then # <<>> => r.then \in Owned)
    /\ r.name = "alloc" => r.class = Bs!ClassOf(r.size)
    /\ r.name = "map" => r.bytes = Footprint(r.size)
    /\ r.name \in {"free", "unmap"} => r.block \in Blocks

InHand(r) ==
    IF r.name \in {"free", "unmap"} THEN r.block
    ELSE IF r.name \in {"alloc", "map"} /\ r.then # <<>> THEN r.then[1] ELSE Bs!None
Hand(t) == InHand(th[t])

\* How much is mapped of the block in hand.
HandSized(r) ==
    /\ InHand(r) # Bs!None => mapped[InHand(r)] > 0
    /\ r.name = "free" => mapped[r.block] = Bs!object_size(r.class)
    /\ r.name \in {"alloc", "map"} /\ r.then # <<>> => mapped[r.then[1]] = Footprint(r.then[2])

BTypes ==
    /\ mapped \in [Blocks -> Nat]
    /\ DOMAIN cache = Bs!Caches
    /\ cache = [c \in Bs!Caches |-> cache[c]]
    /\ \A c \in Bs!Caches : cache[c] \in [Bs!Slots(c) -> Blocks \cup {Bs!None}]
    /\ user \subseteq Owned
    /\ DOMAIN th = Threads /\ th = [t \in Threads |-> th[t]]
    /\ \A t \in Threads : DoingOk(th[t])

BUnique ==
    /\ \A c, d \in Bs!Caches : \A s \in Bs!Slots(c), r \in Bs!Slots(d) :
        cache[c][s] # Bs!None /\ cache[c][s] = cache[d][r] => c = d /\ s = r
    /\ \A t, k \in Threads : Hand(t) # Bs!None /\ Hand(t) = Hand(k) => t = k
    /\ \A u, v \in user : u[1] = v[1] => u = v
BApart ==
    /\ \A c \in Bs!Caches : \A s \in Bs!Slots(c), t \in Threads : cache[c][s] = Hand(t) => Hand(t) = Bs!None
    /\ \A c \in Bs!Caches : \A s \in Bs!Slots(c), u \in user : u[1] # cache[c][s]
    /\ \A u \in user, t \in Threads : u[1] # Hand(t)

BSized ==
    /\ \A c \in Bs!Caches : \A s \in Bs!Slots(c) : cache[c][s] # Bs!None => mapped[cache[c][s]] = Bs!object_size(c)
    /\ \A u \in user : mapped[u[1]] = Footprint(u[2]) /\ mapped[u[1]] > 0
    /\ \A t \in Threads : HandSized(th[t])

BHeld ==
    \A b \in Blocks : mapped[b] > 0 =>
        \/ \E c \in Bs!Caches : \E s \in Bs!Slots(c) : cache[c][s] = b
        \/ \E t \in Threads : Hand(t) = b
        \/ \E u \in user : u[1] = b

BInv == BTypes /\ BUnique /\ BApart /\ BSized /\ BHeld

(* The size class of a Layout, and that its blocks are large enough.       *)
LEMMA BClasses ==
    ASSUME NEW size \in Nat
    PROVE  /\ Bs!ClassOf(size) \in Bs!Caches \cup {"direct"}
           /\ Footprint(size) \in Nat /\ Footprint(size) > 0 /\ Footprint(size) >= size
           /\ Bs!ClassOf(size) # "direct" => Bs!ClassOf(size) \in Bs!Caches
           /\ \A c \in Bs!Caches : Bs!object_size(c) \in Nat /\ Bs!object_size(c) > 0
<1>1. \A c \in Bs!Caches : Bs!object_size(c) \in Nat /\ Bs!object_size(c) > 0
  BY DEF Bs!object_size, Bs!Caches
<1> QED BY <1>1 DEF Bs!ClassOf, Bs!object_size, Footprint, Bs!Caches

(* A set with one element has cardinality 1.                               *)
LEMMA One ==
    ASSUME NEW A, NEW a \in A, \A x \in A : x = a
    PROVE  Cardinality(A) = 1
<1>1. A = {a}
  OBVIOUS
<1> QED BY Zenon, <1>1, FS_Singleton

(* BsAlloc counts as FiniteSets does.                                      *)
LEMMA SameCount == ASSUME NEW A PROVE Bs!Cardinality(A) = Cardinality(A)
  BY Zenon DEF Bs!Cardinality, Cardinality

(* The inductive invariant gives what the runs check: every mapped block is*)
(* in one place, and large enough there.                                   *)
LEMMA BImplies == ASSUME BInv PROVE Bs!BlocksInPlace
<1> SUFFICES ASSUME NEW b \in Blocks
    PROVE LET slots == {cs \in UNION {{c} \X Bs!Slots(c) : c \in Bs!Caches} : cache[cs[1]][cs[2]] = b}
            hands == {h \in Threads \X {1, 2} : b \in IF h[2] = 1 THEN Bs!Freed(h[1]) ELSE Bs!Replaced(h[1])}
            progs == {u \in user : u[1] = b}
          IN  /\ Cardinality(slots) + Cardinality(hands) + Cardinality(progs)
                 = IF mapped[b] > 0 THEN 1 ELSE 0
              /\ \A cs \in slots : mapped[b] = Bs!object_size(cs[1])
              /\ \A u \in progs : mapped[b] >= u[2]
  BY Zenon, SameCount DEF Bs!BlocksInPlace
<1> DEFINE slots == {cs \in UNION {{c} \X Bs!Slots(c) : c \in Bs!Caches} : cache[cs[1]][cs[2]] = b}
           hands == {h \in Threads \X {1, 2} : b \in IF h[2] = 1 THEN Bs!Freed(h[1]) ELSE Bs!Replaced(h[1])}
           progs == {u \in user : u[1] = b}
<1>0. b # Bs!None
  BY BsAllocAssumption
<1>1. ASSUME NEW x \in slots
      PROVE x[1] \in Bs!Caches /\ x[2] \in Bs!Slots(x[1]) /\ x = <<x[1], x[2]>> /\ cache[x[1]][x[2]] = b
  OBVIOUS
<1>2. ASSUME NEW c \in Bs!Caches, NEW s \in Bs!Slots(c), cache[c][s] = b
      PROVE  <<c, s>> \in slots
  BY <1>2
<1>3. ASSUME NEW h \in hands
      PROVE  h[1] \in Threads /\ h[2] \in {1, 2} /\ h = <<h[1], h[2]>> /\ Hand(h[1]) = b
             /\ (h[2] = 1 <=> th[h[1]].name \in {"free", "unmap"})
  BY <1>3 DEF Bs!Freed, Bs!Replaced, Hand, InHand
<1>4. ASSUME NEW t \in Threads, Hand(t) = b
      PROVE  \E h \in hands : h[1] = t
  <2>1. CASE th[t].name \in {"free", "unmap"}
    <3>1. <<t, 1>> \in hands
      BY <2>1, <1>4 DEF Hand, InHand, Bs!Freed
    <3> QED BY <3>1
  <2>2. CASE th[t].name \notin {"free", "unmap"}
    <3>1. <<t, 2>> \in hands
      BY <2>2, <1>4, <1>0 DEF Hand, InHand, Bs!Replaced
    <3> QED BY <3>1
  <2> QED BY <2>1, <2>2
<1>5. ASSUME NEW x \in slots, NEW y \in slots PROVE x = y
  BY <1>1, <1>0 DEF BInv, BUnique
<1>6. ASSUME NEW x \in hands, NEW y \in hands PROVE x = y
  BY <1>3, <1>0 DEF BInv, BUnique
<1>7. ASSUME NEW x \in progs, NEW y \in progs PROVE x = y
  BY DEF BInv, BUnique
<1>8. /\ \A x \in slots, h \in hands : FALSE
      /\ \A x \in slots, u \in progs : FALSE
      /\ \A h \in hands, u \in progs : FALSE
  BY <1>0, <1>1, <1>3 DEF BInv, BApart
<1>9. mapped[b] > 0 => slots # {} \/ hands # {} \/ progs # {}
  BY Zenon, <1>2, <1>4 DEF BInv, BHeld
<1>10. /\ \A cs \in slots : mapped[b] = Bs!object_size(cs[1])
       /\ \A u \in progs : mapped[b] >= u[2] /\ mapped[b] > 0
       /\ \A h \in hands : mapped[b] > 0
       /\ \A c \in Bs!Caches : Bs!object_size(c) > 0
  <2>1. \A cs \in slots : mapped[b] = Bs!object_size(cs[1])
    BY <1>0, <1>1 DEF BInv, BSized
  <2>2. ASSUME NEW u \in progs PROVE mapped[b] >= u[2] /\ mapped[b] > 0
    <3>1. u[2] \in Nat /\ u \in user /\ u[1] = b
      BY DEF BInv, BTypes, Owned
    <3> QED BY <3>1, BClasses DEF BInv, BSized
  <2>3. \A h \in hands : mapped[b] > 0
    BY <1>0, <1>3 DEF BInv, BSized, HandSized, Hand
  <2> QED BY <2>1, <2>2, <2>3, BClasses
<1>11. Cardinality(slots) + Cardinality(hands) + Cardinality(progs) = IF mapped[b] > 0 THEN 1 ELSE 0
  <2> HIDE DEF slots, hands, progs
  <2>0. Cardinality({}) = 0
    BY FS_EmptySet
  <2>1. CASE slots # {}
    <3>1. PICK x \in slots : TRUE
      BY <2>1
    <3>2. Cardinality(slots) = 1 /\ hands = {} /\ progs = {}
      BY <3>1, <1>5, <1>8, One
    <3> QED BY <3>1, <3>2, <2>0, <1>10, <1>1
  <2>2. CASE hands # {}
    <3>1. PICK x \in hands : TRUE
      BY <2>2
    <3>2. Cardinality(hands) = 1 /\ slots = {} /\ progs = {}
      BY <3>1, <1>6, <1>8, One
    <3> QED BY <3>1, <3>2, <2>0, <1>10
  <2>3. CASE progs # {}
    <3>1. PICK x \in progs : TRUE
      BY <2>3
    <3>2. Cardinality(progs) = 1 /\ slots = {} /\ hands = {}
      BY <3>1, <1>7, <1>8, One
    <3> QED BY <3>1, <3>2, <2>0, <1>10
  <2> QED BY <2>0, <2>1, <2>2, <2>3, <1>9
<1> QED BY <1>10, <1>11

(* The invariant holds before the first call.                              *)
LEMMA BStart == ASSUME Bs!Init PROVE BInv
  BY BsAllocAssumption DEF Bs!Init, BInv, BTypes, BUnique, BApart, BSized, BHeld, DoingOk, Hand, InHand, HandSized, Bs!Idle, Owned

(* The walk over a cache begins in order.                                  *)
LEMMA BWalk ==
    ASSUME NEW size \in Nat, Bs!ClassOf(size) # "direct", NEW b, NEW slot \in Starts, NEW then
    PROVE  /\ Bs!Walk("alloc", size, b, slot, then).name = "alloc"
           /\ Bs!Walk("alloc", size, b, slot, then).then = then
           /\ then = <<>> \/ then \in Owned => DoingOk(Bs!Walk("alloc", size, b, slot, then))
           /\ Bs!Walk("free", size, b, slot, then).name = "free"
           /\ Bs!Walk("free", size, b, slot, then).block = b
           /\ Bs!Walk("free", size, b, slot, then).class = Bs!ClassOf(size)
           /\ b \in Blocks => DoingOk(Bs!Walk("free", size, b, slot, then))
<1>1. Bs!ClassOf(size) \in Bs!Caches
  BY BClasses
<1>2. slot \in Bs!Slots(Bs!ClassOf(size)) /\ slot \in Nat /\ slot * 2 + 1 \in Nat
  BY BsAllocAssumption, <1>1 DEF Bs!Slots
<1>3. Bs!PATIENCE(Bs!ClassOf(size)) \in Nat
  BY BsAllocAssumption, <1>1 DEF Bs!PATIENCE
<1> QED BY <1>1, <1>2, <1>3 DEF Bs!Walk, DoingOk

(* Where an allocation begins: in a cache or with a mapping.               *)
LEMMA BBeginAlloc ==
    ASSUME BTypes, NEW t \in Threads, NEW size \in Layouts, NEW old,
           old = <<>> \/ old \in Owned, Bs!BeginAlloc(t, size, old)
    PROVE  \E r : /\ th' = [th EXCEPT ![t] = r] /\ DoingOk(r)
                 /\ r.name \in {"alloc", "map"} /\ r.then = old
<1>0. size \in Nat
  BY BsAllocAssumption
<1>1. CASE Bs!ClassOf(size) = "direct"
  <2>1. PICK r : r = [name |-> "map", size |-> size, bytes |-> size, then |-> old]
    BY Zenon
  <2>2. DoingOk(r) /\ r.name = "map" /\ r.then = old
    BY Zenon, <2>1, <1>0, <1>1 DEF DoingOk, Footprint
  <2>3. th' = [th EXCEPT ![t] = r]
    BY Zenon, <1>1, <2>1 DEF Bs!BeginAlloc, Bs!Go
  <2> QED BY Zenon, <2>2, <2>3
<1>2. CASE Bs!ClassOf(size) # "direct"
  <2>1. PICK slot \in Starts : th' = [th EXCEPT ![t] = Bs!Walk("alloc", size, Bs!None, slot, old)]
    BY Zenon, <1>2 DEF Bs!BeginAlloc, Bs!Go
  <2>2. PICK r : r = Bs!Walk("alloc", size, Bs!None, slot, old)
    OBVIOUS
  <2>3. DoingOk(r) /\ r.name = "alloc" /\ r.then = old
    <3>1. slot \in Starts /\ (old = <<>> \/ old \in Owned)
      OBVIOUS
    <3>2. DoingOk(Bs!Walk("alloc", size, Bs!None, slot, old))
      BY Zenon, <3>1, <1>0, <1>2, BWalk
    <3>3. /\ Bs!Walk("alloc", size, Bs!None, slot, old).name = "alloc"
          /\ Bs!Walk("alloc", size, Bs!None, slot, old).then = old
      BY DEF Bs!Walk
    <3> QED BY Zenon, <2>2, <3>2, <3>3
  <2> QED BY Zenon, <2>1, <2>2, <2>3
<1> QED BY <1>1, <1>2

\* r is the freeing of the object u.
FreeOf(r, u) ==
    /\ r.name \in {"free", "unmap"} /\ r.block = u[1]
    /\ r.name = "free" => Bs!ClassOf(u[2]) \in Bs!Caches /\ r.class = Bs!ClassOf(u[2])

(* Where a free begins: in a cache or with an unmapping.                   *)
LEMMA BBeginFree ==
    ASSUME BTypes, NEW t \in Threads, NEW u \in Owned, Bs!BeginFree(t, u)
    PROVE  \E r : th' = [th EXCEPT ![t] = r] /\ DoingOk(r) /\ FreeOf(r, u)
<1> USE DEF FreeOf
<1>0. u[1] \in Blocks /\ u[2] \in Nat
  BY DEF Owned
<1>1. CASE Bs!ClassOf(u[2]) = "direct"
  <2>1. PICK r : r = [name |-> "unmap", block |-> u[1]]
    BY Zenon
  <2>2. DoingOk(r) /\ r.name = "unmap" /\ r.block = u[1]
    BY Zenon, <2>1, <1>0 DEF DoingOk
  <2>3. th' = [th EXCEPT ![t] = r]
    BY Zenon, <1>1, <2>1 DEF Bs!BeginFree, Bs!Go
  <2> QED BY Zenon, <2>2, <2>3
<1>2. CASE Bs!ClassOf(u[2]) # "direct"
  <2>1. PICK slot \in Starts : th' = [th EXCEPT ![t] = Bs!Walk("free", u[2], u[1], slot, <<>>)]
    BY Zenon, <1>2 DEF Bs!BeginFree, Bs!Go
  <2>2. PICK r : r = Bs!Walk("free", u[2], u[1], slot, <<>>)
    OBVIOUS
  <2>3. DoingOk(r) /\ r.name = "free" /\ r.block = u[1] /\ r.class = Bs!ClassOf(u[2])
    BY <2>2, <1>0, <1>2, BWalk
  <2> QED BY Zenon, <1>0, <1>2, <2>1, <2>2, <2>3, BClasses
<1> QED BY <1>1, <1>2

\* Blocks of S, and no others, change hands, and t, now doing r, is the only
\* thread that takes part.
BMoves(t, r, S) ==
    /\ th' = [th EXCEPT ![t] = r]
    /\ \A k \in Threads \ {t} : Hand(k) \notin S
    /\ Hand(t) \in S \cup {Bs!None} /\ InHand(r) \in S \cup {Bs!None}
    /\ \A c \in Bs!Caches : \A s \in Bs!Slots(c) :
        \/ cache'[c][s] = cache[c][s] /\ cache[c][s] \notin S
        \/ cache'[c][s] \in S \cup {Bs!None} /\ cache[c][s] \in S \cup {Bs!None}
    /\ \A u \in user : u[1] \notin S => u \in user'
    /\ \A u \in user' : u[1] \notin S => u \in user
    /\ \A b \in Blocks \ S : mapped'[b] = mapped[b]

\* Afterwards each of them is in one place, of the right size.
BPlaced(r, S) ==
    /\ \A c, d \in Bs!Caches : \A s \in Bs!Slots(c), q \in Bs!Slots(d) :
        cache'[c][s] \in S /\ cache'[c][s] = cache'[d][q] => c = d /\ s = q
    /\ \A c \in Bs!Caches : \A s \in Bs!Slots(c) : cache'[c][s] \in S =>
        /\ cache'[c][s] # InHand(r) /\ mapped'[cache'[c][s]] = Bs!object_size(c)
        /\ \A u \in user' : u[1] # cache'[c][s]
    /\ \A u, v \in user' : u[1] \in S /\ u[1] = v[1] => u = v
    /\ \A u \in user' : u[1] \in S => u[1] # InHand(r) /\ mapped'[u[1]] = Footprint(u[2])
    /\ HandSized(r)'
    /\ \A b \in S : mapped'[b] > 0 =>
        \/ \E c \in Bs!Caches : \E s \in Bs!Slots(c) : cache'[c][s] = b
        \/ b = InHand(r)
        \/ \E u \in user' : u[1] = b

(* A step that moves only the blocks S, none of them in another thread's   *)
(* hand, keeps the invariant if it leaves each of them in one place and of *)
(* the right size.                                                         *)
LEMMA BFrame ==
    ASSUME BInv, BTypes', NEW t \in Threads, NEW r, NEW S \in SUBSET Blocks,
           BMoves(t, r, S), BPlaced(r, S)
    PROVE  BInv'
<1> USE DEF BMoves, BPlaced
<1>1. /\ th'[t] = r /\ \A k \in Threads \ {t} : th'[k] = th[k]
      /\ Hand(t)' = InHand(r) /\ \A k \in Threads \ {t} : Hand(k)' = Hand(k)
  <2>1. th'[t] = r /\ \A k \in Threads \ {t} : th'[k] = th[k]
    BY DEF BInv, BTypes
  <2> QED BY <2>1 DEF Hand, InHand
<1>2. Bs!None \notin S
  BY BsAllocAssumption
<1>3. \A u \in user' : u \in Owned /\ u[1] \in Blocks /\ u[2] \in Nat
  BY DEF BTypes, Owned
<1>4. \A c \in Bs!Caches : \A s \in Bs!Slots(c) : cache'[c][s] \in Blocks \cup {Bs!None}
  BY DEF BTypes
<1>5. BUnique'
  <2>1. (\A c, d \in Bs!Caches : \A s \in Bs!Slots(c), q \in Bs!Slots(d) :
           cache[c][s] # Bs!None /\ cache[c][s] = cache[d][q] => c = d /\ s = q)'
    BY <1>2, <1>4 DEF BInv, BUnique
  <2>2. (\A k, l \in Threads : Hand(k) # Bs!None /\ Hand(k) = Hand(l) => k = l)'
    BY <1>1, <1>2 DEF BInv, BUnique
  <2>3. (\A u, v \in user : u[1] = v[1] => u = v)'
    BY <1>3 DEF BInv, BUnique
  <2> QED BY <2>1, <2>2, <2>3 DEF BUnique
<1>6. BApart'
  <2>1. (\A c \in Bs!Caches : \A s \in Bs!Slots(c), k \in Threads : cache[c][s] = Hand(k) => Hand(k) = Bs!None)'
    BY <1>1, <1>2, <1>4 DEF BInv, BApart
  <2>2. (\A c \in Bs!Caches : \A s \in Bs!Slots(c), u \in user : u[1] # cache[c][s])'
    BY BsAllocAssumption, <1>2, <1>3, <1>4 DEF BInv, BApart
  <2>3. (\A u \in user, k \in Threads : u[1] # Hand(k))'
    BY BsAllocAssumption, <1>1, <1>2, <1>3 DEF BInv, BApart
  <2> QED BY Zenon, <2>1, <2>2, <2>3 DEF BApart
<1>7. BSized'
  <2>1. (\A c \in Bs!Caches : \A s \in Bs!Slots(c) : cache[c][s] # Bs!None => mapped[cache[c][s]] = Bs!object_size(c))'
    BY <1>4 DEF BInv, BSized
  <2>2. (\A u \in user : mapped[u[1]] = Footprint(u[2]) /\ mapped[u[1]] > 0)'
    BY <1>3, BClasses DEF BInv, BSized
  <2>3. ASSUME NEW k \in Threads PROVE HandSized(th[k])'
    <3>1. CASE k = t
      BY ZenonT(30), <3>1, <1>1 DEF HandSized, InHand
    <3>2. CASE k # t
      <4>1. HandSized(th[k]) /\ th'[k] = th[k] /\ Hand(k) \notin S /\ DoingOk(th[k])
        BY <3>2, <1>1 DEF BInv, BSized, BTypes
      <4>2. Hand(k) # Bs!None => Hand(k) \in Blocks
        BY Zenon, <4>1 DEF Hand, InHand, DoingOk, Owned
      <4>3. Hand(k) # Bs!None => mapped'[Hand(k)] = mapped[Hand(k)]
        BY Zenon, <4>1, <4>2
      <4>4. Hand(k) = InHand(th[k]) /\ InHand(th[k])' = InHand(th[k])
        BY <4>1 DEF Hand, InHand
      <4>5. /\ th[k].name = "free" => th[k].block = Hand(k) /\ Hand(k) # Bs!None
            /\ th[k].name \in {"alloc", "map"} /\ th[k].then # <<>> => th[k].then[1] = Hand(k) /\ Hand(k) # Bs!None
        BY Zenon, BsAllocAssumption, <4>1 DEF Hand, InHand, DoingOk, Owned
      <4> QED BY <4>1, <4>3, <4>4, <4>5 DEF HandSized
    <3> QED BY Zenon, <3>1, <3>2
  <2> QED BY Zenon, <2>1, <2>2, <2>3 DEF BSized
<1>8. BHeld'
  <2> SUFFICES ASSUME NEW b \in Blocks, mapped'[b] > 0
               PROVE  \/ \E c \in Bs!Caches : \E s \in Bs!Slots(c) : cache'[c][s] = b
                      \/ \E k \in Threads : Hand(k)' = b
                      \/ \E u \in user' : u[1] = b
    BY Zenon DEF BHeld
  <2>1. CASE b \in S
    BY <2>1, <1>1
  <2>2. CASE b \notin S
    <3>1. mapped[b] > 0 /\ b # Bs!None
      BY Zenon, BsAllocAssumption, <2>2
    <3>2. CASE \E c \in Bs!Caches : \E s \in Bs!Slots(c) : cache[c][s] = b
      BY <3>1, <3>2, <2>2
    <3>3. CASE \E k \in Threads : Hand(k) = b
      BY <3>1, <3>3, <2>2, <1>1
    <3>4. CASE \E u \in user : u[1] = b
      BY ZenonT(30), <3>4, <2>2
    <3> QED BY Zenon, <3>1, <3>2, <3>3, <3>4 DEF BInv, BHeld
  <2> QED BY Zenon, <2>1, <2>2
<1> QED BY <1>5, <1>6, <1>7, <1>8 DEF BInv

(* A step of one thread keeps the types.                                   *)
LEMMA BThread ==
    ASSUME BInv, NEW t \in Threads, NEW r, th' = [th EXCEPT ![t] = r], DoingOk(r),
           mapped' \in [Blocks -> Nat], user' \subseteq Owned, cache' = [c \in Bs!Caches |-> cache'[c]],
           \A c \in Bs!Caches : cache'[c] \in [Bs!Slots(c) -> Blocks \cup {Bs!None}]
    PROVE  BTypes'
<1>1. \A k \in Threads : th'[k] = IF k = t THEN r ELSE th[k]
  BY DEF BInv, BTypes
<1>2. DOMAIN th' = Threads /\ th' = [k \in Threads |-> th'[k]]
  BY DEF BInv, BTypes
<1>3. DOMAIN cache' = Bs!Caches
  OBVIOUS
<1>4. \A k \in Threads : DoingOk(th'[k])
  BY <1>1 DEF BInv, BTypes
<1> QED BY <1>2, <1>3, <1>4 DEF BTypes, DoingOk

(* What thread t has in hand is in no other place.                         *)
LEMMA BIdle ==
    ASSUME BInv, NEW t \in Threads
    PROVE  /\ Hand(t) \in Blocks \cup {Bs!None}
           /\ th[t] = Bs!Idle => Hand(t) = Bs!None
           /\ \A k \in Threads \ {t} : Hand(t) # Bs!None => Hand(k) # Hand(t)
           /\ \A c \in Bs!Caches : \A s \in Bs!Slots(c) : Hand(t) # Bs!None => cache[c][s] # Hand(t)
           /\ \A u \in user : u[1] # Hand(t)
<1>1. DoingOk(th[t])
  BY DEF BInv, BTypes
<1>2. Hand(t) \in Blocks \cup {Bs!None}
  BY <1>1 DEF Hand, InHand, DoingOk, Owned
<1>3. th[t] = Bs!Idle => Hand(t) = Bs!None
  BY DEF Bs!Idle, Hand, InHand
<1>4. \A k \in Threads \ {t} : Hand(t) # Bs!None => Hand(k) # Hand(t)
  BY DEF BInv, BUnique
<1>5. /\ \A c \in Bs!Caches : \A s \in Bs!Slots(c) : Hand(t) # Bs!None => cache[c][s] # Hand(t)
      /\ \A u \in user : u[1] # Hand(t)
  BY DEF BInv, BApart
<1> QED BY <1>2, <1>3, <1>4, <1>5

(* The beginning of alloc keeps the invariant.                             *)
LEMMA BAlloc ==
    ASSUME BInv, NEW t \in Threads, Bs!Alloc(t)
    PROVE  BInv'
<1>1. PICK size \in Layouts : Bs!BeginAlloc(t, size, <<>>)
  BY DEF Bs!Alloc
<1>2. PICK r : /\ th' = [th EXCEPT ![t] = r] /\ DoingOk(r)
               /\ r.name \in {"alloc", "map"} /\ r.then = <<>>
  BY <1>1, BBeginAlloc DEF BInv
<1>3. InHand(r) = Bs!None /\ Hand(t) = Bs!None
  BY <1>2, BIdle DEF InHand, Bs!Alloc
<1>4. UNCHANGED <<mapped, cache, user>>
  BY DEF Bs!Alloc
<1>5. BTypes'
  BY <1>2, <1>4, BThread DEF BInv, BTypes
<1>6. HandSized(r)'
  BY <1>2, <1>3 DEF HandSized, InHand
<1>7. PICK S \in SUBSET Blocks : S = {}
  BY Zenon
<1>8. BMoves(t, r, S) /\ BPlaced(r, S)
  BY Zenon, <1>2, <1>3, <1>4, <1>6, <1>7 DEF BMoves, BPlaced
<1> QED BY <1>5, <1>8, BFrame

(* The block of an object the program has is in no other place.            *)
LEMMA BUser ==
    ASSUME BInv, NEW u \in user
    PROVE  /\ u \in Owned /\ u[1] \in Blocks /\ u[2] \in Nat /\ u # <<>> /\ u[1] # Bs!None
           /\ mapped[u[1]] = Footprint(u[2]) /\ mapped[u[1]] > 0
           /\ \A v \in user : v[1] = u[1] => v = u
           /\ \A k \in Threads : Hand(k) # u[1]
           /\ \A c \in Bs!Caches : \A s \in Bs!Slots(c) : cache[c][s] # u[1]
<1>1. u \in Owned /\ u[1] \in Blocks /\ u[2] \in Nat /\ u # <<>> /\ u[1] # Bs!None
  BY BsAllocAssumption DEF BInv, BTypes, Owned
<1> QED BY <1>1 DEF BInv, BSized, BUnique, BApart

(* The beginning of realloc keeps the invariant: the old block stays in the*)
(* thread's hand.                                                          *)
LEMMA BRealloc ==
    ASSUME BInv, NEW t \in Threads, Bs!Realloc(t)
    PROVE  BInv'
<1>1. PICK u \in user : user' = user \ {u} /\ \E size \in Layouts : Bs!BeginAlloc(t, size, u)
  BY DEF Bs!Realloc
<1>2. /\ u \in Owned /\ u[1] \in Blocks /\ u[2] \in Nat /\ u # <<>> /\ u[1] # Bs!None
      /\ mapped[u[1]] = Footprint(u[2]) /\ mapped[u[1]] > 0
      /\ \A v \in user : v[1] = u[1] => v = u
      /\ \A k \in Threads : Hand(k) # u[1]
      /\ \A c \in Bs!Caches : \A s \in Bs!Slots(c) : cache[c][s] # u[1]
  BY BUser
<1>3. PICK r : /\ th' = [th EXCEPT ![t] = r] /\ DoingOk(r)
               /\ r.name \in {"alloc", "map"} /\ r.then = u
  BY <1>1, <1>2, BBeginAlloc DEF BInv
<1>4. InHand(r) = u[1] /\ Hand(t) = Bs!None
  BY <1>2, <1>3, BIdle DEF InHand, Bs!Realloc
<1>5. UNCHANGED <<mapped, cache>>
  BY DEF Bs!Realloc
<1>6. BTypes'
  BY <1>1, <1>3, <1>5, BThread DEF BInv, BTypes
<1>7. HandSized(r)'
  BY <1>2, <1>3, <1>4, <1>5 DEF HandSized, InHand
<1>8. PICK S \in SUBSET Blocks : S = {u[1]}
  BY Zenon, <1>2
<1>9. /\ \A b \in S : b = u[1]
      /\ u[1] \in S /\ Bs!None \notin S
      /\ \A c \in Bs!Caches : \A s \in Bs!Slots(c) : cache'[c][s] = cache[c][s] /\ cache[c][s] \notin S
      /\ \A k \in Threads : Hand(k) \notin S
      /\ \A v \in user : v[1] \notin S => v \in user'
      /\ \A v \in user' : v \in user /\ v[1] \notin S
  BY <1>1, <1>2, <1>5, <1>8
<1>10. BMoves(t, r, S)
  BY <1>3, <1>4, <1>5, <1>9 DEF BMoves
<1>11. BPlaced(r, S)
  BY Zenon, <1>3, <1>4, <1>5, <1>7, <1>9 DEF BPlaced
<1> QED BY <1>6, <1>10, <1>11, BFrame

(* The beginning of dealloc keeps the invariant.                           *)
LEMMA BFree ==
    ASSUME BInv, NEW t \in Threads, Bs!Free(t)
    PROVE  BInv'
<1>1. PICK u \in user : user' = user \ {u} /\ Bs!BeginFree(t, u)
  BY DEF Bs!Free
<1>2. /\ u \in Owned /\ u[1] \in Blocks /\ u[2] \in Nat /\ u[1] # Bs!None
      /\ mapped[u[1]] = Footprint(u[2]) /\ mapped[u[1]] > 0
      /\ \A v \in user : v[1] = u[1] => v = u
      /\ \A k \in Threads : Hand(k) # u[1]
      /\ \A c \in Bs!Caches : \A s \in Bs!Slots(c) : cache[c][s] # u[1]
  BY BUser
<1>3. PICK r : th' = [th EXCEPT ![t] = r] /\ DoingOk(r) /\ FreeOf(r, u)
  <2>1. BTypes
    BY DEF BInv
  <2>2. u \in Owned /\ Bs!BeginFree(t, u)
    BY Zenon, <1>1, <1>2
  <2> QED BY <2>1, <2>2, BBeginFree
<1>4. InHand(r) = u[1] /\ Hand(t) = Bs!None
  BY Zenon, <1>3, BIdle DEF InHand, Bs!Free, FreeOf
<1>5. UNCHANGED <<mapped, cache>>
  BY DEF Bs!Free
<1>6. BTypes'
  BY <1>1, <1>3, <1>5, BThread DEF BInv, BTypes
<1>7. HandSized(r)'
  BY Zenon, <1>2, <1>3, <1>4, <1>5 DEF HandSized, InHand, Footprint, Bs!Caches, FreeOf
<1>8. PICK S \in SUBSET Blocks : S = {u[1]}
  BY Zenon, <1>2
<1>9. /\ \A b \in S : b = u[1]
      /\ u[1] \in S /\ Bs!None \notin S
      /\ \A c \in Bs!Caches : \A s \in Bs!Slots(c) : cache'[c][s] = cache[c][s] /\ cache[c][s] \notin S
      /\ \A k \in Threads : Hand(k) \notin S
      /\ \A v \in user : v[1] \notin S => v \in user'
      /\ \A v \in user' : v \in user /\ v[1] \notin S
  BY <1>1, <1>2, <1>5, <1>8
<1>10. BMoves(t, r, S)
  BY <1>3, <1>4, <1>5, <1>9 DEF BMoves
<1>11. BPlaced(r, S)
  BY Zenon, <1>3, <1>4, <1>5, <1>7, <1>9 DEF BPlaced
<1> QED BY <1>6, <1>10, <1>11, BFrame

(* The end of an allocation: the program gets the block, and a realloc goes*)
(* on to free the one it replaces.                                         *)
LEMMA BGot ==
    ASSUME BInv, NEW t \in Threads, th[t].name \in {"alloc", "map"}, NEW b \in Blocks,
           Hand(t) # Bs!None => mapped'[Hand(t)] = mapped[Hand(t)],
           Bs!Got(t, b, th[t].size, th[t].then)
    PROVE  /\ user' = user \cup {<<b, th[t].size>>}
           /\ \E r : /\ th' = [th EXCEPT ![t] = r] /\ DoingOk(r)
                    /\ InHand(r) = Hand(t) /\ HandSized(r)'
<1>1. user' = user \cup {<<b, th[t].size>>}
  BY Zenon DEF Bs!Got
<1>2. CASE th[t].then = <<>>
  <2>1. PICK r : r = Bs!Idle
    BY Zenon
  <2>2. th' = [th EXCEPT ![t] = r]
    BY Zenon, <1>2, <2>1 DEF Bs!Got, Bs!Go
  <2>3. r.name = "idle"
    BY <2>1 DEF Bs!Idle
  <2>4. DoingOk(r) /\ InHand(r) = Hand(t) /\ HandSized(r)'
    BY Zenon, <2>3, <1>2 DEF DoingOk, InHand, Hand, HandSized
  <2> QED BY Zenon, <1>1, <2>2, <2>4
<1>3. CASE th[t].then # <<>>
  <2>1. PICK u : u = th[t].then
    OBVIOUS
  <2>2. u \in Owned /\ BTypes
    BY Zenon, <1>3, <2>1 DEF BInv, BTypes, DoingOk
  <2>3. Bs!BeginFree(t, u)
    BY Zenon, <1>3, <2>1 DEF Bs!Got
  <2>4. PICK r : th' = [th EXCEPT ![t] = r] /\ DoingOk(r) /\ FreeOf(r, u)
    BY Zenon, <2>2, <2>3, BBeginFree
  <2>5. Hand(t) = u[1] /\ Hand(t) # Bs!None
    BY Zenon, BsAllocAssumption, <1>3, <2>1, <2>2 DEF Hand, InHand, Owned
  <2>6. InHand(r) = u[1]
    BY Zenon, <2>4 DEF InHand, FreeOf
  <2>7. mapped[u[1]] > 0 /\ mapped[u[1]] = Footprint(u[2])
    BY Zenon, <1>3, <2>1, <2>5 DEF BInv, BSized, HandSized, Hand
  <2>8. mapped'[u[1]] > 0 /\ mapped'[u[1]] = Footprint(u[2])
    BY Zenon, <2>5, <2>7
  <2>9. HandSized(r)'
    BY Zenon, <2>4, <2>6, <2>8 DEF HandSized, InHand, FreeOf, Footprint, Bs!Caches
  <2> QED BY Zenon, <1>1, <2>4, <2>5, <2>6, <2>9
<1> QED BY Zenon, <1>2, <1>3

(* The swap of Cache::alloc keeps the invariant: a block leaves its slot   *)
(* for the program, or nothing moves.                                      *)
LEMMA BSwapOut ==
    ASSUME BInv, NEW t \in Threads, Bs!SwapOut(t)
    PROVE  BInv'
<1>1. PICK o, p : o = th[t] /\ p = cache[o.class][o.slot]
  OBVIOUS
<1>2. /\ o.name = "alloc" /\ o.left > 0 /\ UNCHANGED mapped
      /\ cache' = [cache EXCEPT ![o.class][o.slot] = Bs!None]
  BY <1>1 DEF Bs!SwapOut
<1>3. /\ DoingOk(o) /\ o.class \in Bs!Caches /\ o.slot \in Bs!Slots(o.class) /\ o.stride \in Nat
      /\ o.left \in Nat /\ o.size \in Nat /\ o.class = Bs!ClassOf(o.size)
      /\ p \in Blocks \cup {Bs!None}
  <2>1. DoingOk(o)
    BY <1>1 DEF BInv, BTypes
  <2> QED BY Zenon, <1>1, <1>2, <2>1 DEF DoingOk, BInv, BTypes
<1>4. /\ \A c \in Bs!Caches : \A s \in Bs!Slots(c) :
           cache'[c][s] = IF c = o.class /\ s = o.slot THEN Bs!None ELSE cache[c][s]
      /\ \A c \in Bs!Caches : cache'[c] \in [Bs!Slots(c) -> Blocks \cup {Bs!None}]
      /\ cache' = [c \in Bs!Caches |-> cache'[c]]
  BY <1>2, <1>3 DEF BInv, BTypes
<1>5. /\ Hand(t) \in Blocks \cup {Bs!None}
      /\ \A k \in Threads \ {t} : Hand(t) # Bs!None => Hand(k) # Hand(t)
      /\ \A c \in Bs!Caches : \A s \in Bs!Slots(c) : Hand(t) # Bs!None => cache[c][s] # Hand(t)
      /\ \A u \in user : u[1] # Hand(t)
  BY BIdle
<1>6. CASE p = Bs!None
  <2>1. PICK r : r = [o EXCEPT !.slot = Bs!NextSlot(o), !.left = @ - 1]
    OBVIOUS
  <2>2. th' = [th EXCEPT ![t] = r] /\ UNCHANGED user
    BY Zenon, <1>1, <1>6, <2>1 DEF Bs!SwapOut, Bs!Go
  <2>3. Bs!NextSlot(o) \in Bs!Slots(o.class)
    BY BsAllocAssumption, <1>3 DEF Bs!NextSlot, Bs!Slots
  <2>4. DoingOk(r) /\ InHand(r) = Hand(t) /\ HandSized(r)
    <3>1. o.left - 1 \in Nat /\ HandSized(o)
      BY <1>1, <1>2, <1>3 DEF BInv, BSized
    <3>2. /\ r.name = o.name /\ r.class = o.class /\ r.slot = Bs!NextSlot(o) /\ r.stride = o.stride
          /\ r.left = o.left - 1 /\ r.size = o.size /\ r.then = o.then
      BY <2>1
    <3> QED BY Zenon, <3>1, <3>2, <2>3, <1>1, <1>2, <1>3 DEF DoingOk, InHand, Hand, HandSized
  <2>5. BTypes'
    BY Zenon, <1>2, <1>4, <2>2, <2>4, BThread DEF BInv, BTypes
  <2>6. HandSized(r)'
    BY <2>4, <1>2 DEF HandSized, InHand
  <2>7. PICK S \in SUBSET Blocks : S = {Hand(t)} \ {Bs!None}
    BY Zenon, <1>5
  <2>8. /\ \A c \in Bs!Caches : \A s \in Bs!Slots(c) : cache'[c][s] = cache[c][s] /\ cache[c][s] \notin S
        /\ \A k \in Threads \ {t} : Hand(k) \notin S
        /\ \A u \in user : u[1] \notin S
        /\ Hand(t) \in S \cup {Bs!None} /\ \A b \in S : b = Hand(t)
    BY Zenon, <1>1, <1>4, <1>5, <1>6, <2>7
  <2>9. BMoves(t, r, S)
    BY <1>2, <2>2, <2>4, <2>8 DEF BMoves
  <2>10. BPlaced(r, S)
    BY Zenon, <2>2, <2>4, <2>6, <2>8 DEF BPlaced
  <2> QED BY <2>5, <2>9, <2>10, BFrame
<1>7. CASE p # Bs!None
  <2>0. p \in Blocks /\ p # Hand(t)
    BY Zenon, BsAllocAssumption, <1>1, <1>3, <1>5, <1>7
  <2>1. Bs!Got(t, p, th[t].size, th[t].then)
    BY ZenonT(30), <1>1, <1>7 DEF Bs!SwapOut
  <2>2. PICK r : /\ th' = [th EXCEPT ![t] = r] /\ DoingOk(r)
                 /\ InHand(r) = Hand(t) /\ HandSized(r)'
    BY Zenon, <1>1, <1>2, <2>0, <2>1, BGot
  <2>3. PICK u : u = <<p, o.size>>
    BY Zenon
  <2>4. user' = user \cup {u} /\ u \in Owned /\ u[1] = p /\ u[2] = o.size
    BY Zenon, <1>1, <1>2, <1>3, <2>0, <2>1, <2>3, BGot DEF Owned
  <2>5. BTypes'
    BY Zenon, <1>2, <1>4, <2>2, <2>4, BThread DEF BInv, BTypes
  <2>6. mapped'[p] = Footprint(u[2])
    BY ZenonT(30), <1>1, <1>2, <1>3, <1>7, <2>4 DEF BInv, BSized, Footprint, Bs!Caches
  <2>7. /\ \A k \in Threads : Hand(k) # p
        /\ \A v \in user : v[1] # p
        /\ \A c \in Bs!Caches : \A s \in Bs!Slots(c) : cache'[c][s] # p
    <3>1. /\ \A k \in Threads : Hand(k) # p
          /\ \A v \in user : v[1] # p
      BY ZenonT(30), <1>1, <1>3, <1>7 DEF BInv, BApart
    <3>2. \A c \in Bs!Caches : \A s \in Bs!Slots(c) : cache'[c][s] # p
      BY <1>1, <1>3, <1>4, <1>7 DEF BInv, BUnique
    <3> QED BY <3>1, <3>2
  <2>8. PICK S \in SUBSET Blocks : S = {p} \cup ({Hand(t)} \ {Bs!None})
    BY Zenon, <1>5, <2>0
  <2>a. /\ \A x \in S : x = p \/ x = Hand(t)
        /\ p \in S /\ Bs!None \notin S /\ Hand(t) \in S \cup {Bs!None}
        /\ Hand(t) \in S => Hand(t) # Bs!None
    BY Zenon, BsAllocAssumption, <1>5, <2>0, <2>8
  <2>b. \A c \in Bs!Caches : \A s \in Bs!Slots(c) : cache'[c][s] \notin S
    BY <1>1, <1>4, <1>5, <2>7, <2>a
  <2>9. /\ \A c \in Bs!Caches : \A s \in Bs!Slots(c) : cache'[c][s] \notin S
        /\ \A c \in Bs!Caches : \A s \in Bs!Slots(c) :
             \/ cache'[c][s] = cache[c][s] /\ cache[c][s] \notin S
             \/ cache'[c][s] = Bs!None /\ cache[c][s] \in S
        /\ \A k \in Threads \ {t} : Hand(k) \notin S
        /\ \A v \in user : v[1] \notin S
        /\ Hand(t) \in S \cup {Bs!None} /\ \A b \in S : b = p \/ b = Hand(t)
        /\ p \in S
    <3>1. \A c \in Bs!Caches : \A s \in Bs!Slots(c) :
             \/ cache'[c][s] = cache[c][s]
             \/ cache'[c][s] = Bs!None /\ cache[c][s] = p
      BY Zenon, <1>1, <1>4
    <3>2. /\ \A k \in Threads \ {t} : Hand(k) \notin S
          /\ \A v \in user : v[1] \notin S
      BY Zenon, <1>5, <2>7, <2>a
    <3> QED BY Zenon, <2>a, <2>b, <3>1, <3>2
  <2>10. BMoves(t, r, S)
    BY <1>2, <2>2, <2>4, <2>9 DEF BMoves
  <2>11. BPlaced(r, S)
    BY Zenon, <2>0, <2>2, <2>4, <2>6, <2>7, <2>9 DEF BPlaced
  <2> QED BY <2>5, <2>10, <2>11, BFrame
<1> QED BY <1>6, <1>7

(* Cache::alloc out of PATIENCE keeps the invariant.                       *)
LEMMA BGiveUp ==
    ASSUME BInv, NEW t \in Threads, Bs!GiveUp(t)
    PROVE  BInv'
<1>1. PICK o, r : /\ o = th[t]
                  /\ r = [name |-> "map", size |-> o.size, bytes |-> Bs!object_size(o.class), then |-> o.then]
  BY Zenon
<1>2. /\ o.name = "alloc" /\ UNCHANGED <<mapped, cache, user>> /\ th' = [th EXCEPT ![t] = r]
  BY <1>1 DEF Bs!GiveUp, Bs!Go
<1>3. DoingOk(o) /\ HandSized(o) /\ Hand(t) = InHand(o)
  BY <1>1 DEF BInv, BTypes, BSized, Hand
<1>4. r.name = "map" /\ r.size = o.size /\ r.bytes = Bs!object_size(o.class) /\ r.then = o.then
  BY <1>1
<1>5. DoingOk(r) /\ InHand(r) = Hand(t) /\ HandSized(r)
  BY Zenon, <1>2, <1>3, <1>4 DEF DoingOk, InHand, HandSized, Footprint, Bs!Caches
<1>6. BTypes'
  BY Zenon, <1>2, <1>5, BThread DEF BInv, BTypes
<1>7. HandSized(r)'
  BY Zenon, <1>2, <1>5 DEF HandSized, InHand
<1>8. /\ Hand(t) \in Blocks \cup {Bs!None}
      /\ \A k \in Threads \ {t} : Hand(t) # Bs!None => Hand(k) # Hand(t)
      /\ \A c \in Bs!Caches : \A s \in Bs!Slots(c) : Hand(t) # Bs!None => cache[c][s] # Hand(t)
      /\ \A u \in user : u[1] # Hand(t)
  BY Zenon, BIdle
<1>9. PICK S \in SUBSET Blocks : S = {Hand(t)} \ {Bs!None}
  BY Zenon, <1>8
<1>10. /\ \A c \in Bs!Caches : \A s \in Bs!Slots(c) : cache'[c][s] = cache[c][s] /\ cache[c][s] \notin S
       /\ \A k \in Threads \ {t} : Hand(k) \notin S
       /\ \A u \in user : u[1] \notin S
       /\ Hand(t) \in S \cup {Bs!None} /\ \A b \in S : b = Hand(t)
  BY <1>2, <1>8, <1>9
<1>11. BMoves(t, r, S) /\ BPlaced(r, S)
  BY Zenon, <1>2, <1>5, <1>7, <1>10 DEF BMoves, BPlaced
<1> QED BY <1>6, <1>11, BFrame

(* Mapping a new block keeps the invariant: MapAlloc returns one that is   *)
(* mapped nowhere else.                                                    *)
LEMMA BMap ==
    ASSUME BInv, NEW t \in Threads, Bs!Map(t)
    PROVE  BInv'
<1>1. PICK o : o = th[t]
  OBVIOUS
<1>2. PICK b \in Blocks :
        /\ o.name = "map" /\ UNCHANGED cache
        /\ mapped[b] = 0 /\ mapped' = [mapped EXCEPT ![b] = o.bytes]
        /\ Bs!Got(t, b, th[t].size, th[t].then)
  BY Zenon, <1>1 DEF Bs!Map
<1>3. /\ o.size \in Nat /\ o.bytes = Footprint(o.size) /\ o.bytes \in Nat /\ o.bytes > 0
  <2>1. DoingOk(o)
    BY <1>1 DEF BInv, BTypes
  <2> QED BY Zenon, <1>2, <2>1, BClasses DEF DoingOk
<1>4. /\ mapped' \in [Blocks -> Nat] /\ mapped'[b] = Footprint(o.size)
      /\ \A x \in Blocks \ {b} : mapped'[x] = mapped[x]
  BY <1>2, <1>3 DEF BInv, BTypes
<1>5. /\ Hand(t) \in Blocks \cup {Bs!None}
      /\ \A k \in Threads \ {t} : Hand(t) # Bs!None => Hand(k) # Hand(t)
      /\ \A c \in Bs!Caches : \A s \in Bs!Slots(c) : Hand(t) # Bs!None => cache[c][s] # Hand(t)
      /\ \A u \in user : u[1] # Hand(t)
  BY BIdle
<1>6. /\ b # Bs!None /\ \A k \in Threads : Hand(k) # b
      /\ \A v \in user : v[1] # b
      /\ \A c \in Bs!Caches : \A s \in Bs!Slots(c) : cache[c][s] # b
  <2>1. b # Bs!None
    BY BsAllocAssumption
  <2>2. \A k \in Threads : Hand(k) # b
    BY <1>2, <2>1 DEF BInv, BSized, HandSized, Hand
  <2>3. \A v \in user : v[1] # b
    BY <1>2 DEF BInv, BSized
  <2>4. \A c \in Bs!Caches : \A s \in Bs!Slots(c) : cache[c][s] # b
    BY <1>2, <2>1 DEF BInv, BSized, Bs!object_size
  <2> QED BY <2>1, <2>2, <2>3, <2>4
<1>7. PICK r : /\ th' = [th EXCEPT ![t] = r] /\ DoingOk(r)
               /\ InHand(r) = Hand(t) /\ HandSized(r)'
  BY ZenonT(30), <1>1, <1>2, <1>4, <1>5, <1>6, BGot
<1>8. PICK u : u = <<b, o.size>>
  BY Zenon
<1>9. user' = user \cup {u} /\ u \in Owned /\ u[1] = b /\ u[2] = o.size
  <2>1. user' = user \cup {<<b, th[t].size>>}
    BY Zenon, <1>2 DEF Bs!Got
  <2> QED BY <1>1, <1>3, <1>8, <2>1 DEF Owned
<1>10. BTypes'
  BY SMTT(30), <1>2, <1>4, <1>7, <1>9, BThread DEF BInv, BTypes
<1>11. PICK S \in SUBSET Blocks : S = {b} \cup ({Hand(t)} \ {Bs!None})
  BY Zenon, <1>5
<1>12. /\ \A c \in Bs!Caches : \A s \in Bs!Slots(c) : cache'[c][s] = cache[c][s] /\ cache[c][s] \notin S
       /\ \A k \in Threads \ {t} : Hand(k) \notin S
       /\ \A v \in user : v[1] \notin S
       /\ Hand(t) \in S \cup {Bs!None} /\ \A x \in S : x = b \/ x = Hand(t)
       /\ b \in S
  BY Zenon, <1>2, <1>5, <1>6, <1>11
<1>13. BMoves(t, r, S)
  BY Zenon, <1>4, <1>7, <1>9, <1>12 DEF BMoves
<1>14. BPlaced(r, S)
  BY ZenonT(30), <1>4, <1>6, <1>7, <1>9, <1>12 DEF BPlaced
<1> QED BY SMTT(30), <1>10, <1>13, <1>14, BFrame

(* The swap of Cache::free keeps the invariant: the thread's block goes    *)
(* into the slot, and what was there into its hand.                        *)
LEMMA BSwapIn ==
    ASSUME BInv, NEW t \in Threads, Bs!SwapIn(t)
    PROVE  BInv'
<1>1. PICK o, p : o = th[t] /\ p = cache[o.class][o.slot]
  OBVIOUS
<1>2. /\ o.name = "free" /\ o.left > 0 /\ UNCHANGED <<mapped, user>>
      /\ cache' = [cache EXCEPT ![o.class][o.slot] = o.block]
  BY <1>1 DEF Bs!SwapIn
<1>3. /\ o.class \in Bs!Caches /\ o.slot \in Bs!Slots(o.class) /\ o.stride \in Nat
      /\ o.left \in Nat /\ o.block \in Blocks /\ p \in Blocks \cup {Bs!None}
      /\ Hand(t) = o.block /\ mapped[o.block] = Bs!object_size(o.class) /\ o.block # Bs!None
  <2>1. DoingOk(o) /\ HandSized(o)
    BY <1>1 DEF BInv, BTypes, BSized
  <2> QED BY ZenonT(30), BsAllocAssumption, <1>1, <1>2, <2>1 DEF DoingOk, HandSized, Hand, InHand, BInv, BTypes
<1>4. /\ \A c \in Bs!Caches : \A s \in Bs!Slots(c) :
           cache'[c][s] = IF c = o.class /\ s = o.slot THEN o.block ELSE cache[c][s]
      /\ \A c \in Bs!Caches : cache'[c] \in [Bs!Slots(c) -> Blocks \cup {Bs!None}]
      /\ cache' = [c \in Bs!Caches |-> cache'[c]]
  BY Zenon, <1>2, <1>3 DEF BInv, BTypes
<1>5. /\ \A k \in Threads \ {t} : Hand(k) # o.block
      /\ \A c \in Bs!Caches : \A s \in Bs!Slots(c) : cache[c][s] # o.block
      /\ \A u \in user : u[1] # o.block
  BY Zenon, <1>3, BIdle
<1>6. /\ p # Bs!None => \A k \in Threads : Hand(k) # p
      /\ p # Bs!None => \A u \in user : u[1] # p
      /\ p # Bs!None => mapped[p] = Bs!object_size(o.class) /\ mapped[p] > 0
      /\ p # Bs!None => \A c \in Bs!Caches : \A s \in Bs!Slots(c) : cache'[c][s] # p
      /\ p # o.block
  <2>1. p # Bs!None => \A k \in Threads : Hand(k) # p
    BY Zenon, <1>1, <1>3 DEF BInv, BApart
  <2>2. p # Bs!None => \A u \in user : u[1] # p
    BY Zenon, <1>1, <1>3 DEF BInv, BApart
  <2>3. p # Bs!None => mapped[p] = Bs!object_size(o.class) /\ mapped[p] > 0
    BY Zenon, <1>1, <1>3, BClasses DEF BInv, BSized
  <2>4. p # o.block
    BY Zenon, <1>1, <1>3, <1>5
  <2>5. p # Bs!None => \A c \in Bs!Caches : \A s \in Bs!Slots(c) : cache'[c][s] # p
    BY <1>1, <1>3, <1>4, <2>4 DEF BInv, BUnique
  <2> QED BY Zenon, <2>1, <2>2, <2>3, <2>4, <2>5
<1>7. PICK S \in SUBSET Blocks : S = {o.block} \cup ({p} \ {Bs!None})
  BY Zenon, <1>3
<1>8. /\ \A c \in Bs!Caches : \A s \in Bs!Slots(c) :
            \/ cache'[c][s] = cache[c][s] /\ cache[c][s] \notin S
            \/ cache'[c][s] \in S /\ cache[c][s] \in S \cup {Bs!None}
      /\ \A c \in Bs!Caches : \A s \in Bs!Slots(c) : cache'[c][s] \in S => c = o.class /\ s = o.slot
      /\ cache'[o.class][o.slot] = o.block
      /\ \A k \in Threads \ {t} : Hand(k) \notin S
      /\ \A u \in user : u[1] \notin S
      /\ \A b \in S : b = o.block \/ (b = p /\ p # Bs!None)
      /\ o.block \in S /\ (p = Bs!None \/ p \in S)
  <2>1. \A b \in S : b = o.block \/ (b = p /\ p # Bs!None)
    BY <1>7
  <2>2. o.block \in S /\ (p = Bs!None \/ p \in S)
    BY <1>7
  <2>3. ASSUME NEW c \in Bs!Caches, NEW s \in Bs!Slots(c)
        PROVE  /\ \/ cache'[c][s] = cache[c][s] /\ cache[c][s] \notin S
                  \/ cache'[c][s] \in S /\ cache[c][s] \in S \cup {Bs!None}
               /\ cache'[c][s] \in S => c = o.class /\ s = o.slot
    <3>1. CASE c = o.class /\ s = o.slot
      BY Zenon, <3>1, <1>1, <1>4, <2>2
    <3>2. CASE ~(c = o.class /\ s = o.slot)
      BY SMTT(30), <3>2, <1>4, <1>5, <1>6, <2>1
    <3> QED BY Zenon, <3>1, <3>2
  <2> QED BY <2>1, <2>2, <2>3, <1>3, <1>4, <1>5, <1>6
<1>9. ASSUME NEW r, th' = [th EXCEPT ![t] = r], DoingOk(r), HandSized(r), InHand(r) = p
      PROVE  BInv'
  <2>1. BTypes'
    BY Zenon, <1>2, <1>4, <1>9, BThread DEF BInv, BTypes
  <2>2. HandSized(r)'
    BY Zenon, <1>2, <1>9 DEF HandSized, InHand
  <2>3. BMoves(t, r, S)
    BY Zenon, <1>2, <1>3, <1>8, <1>9 DEF BMoves
  <2>4. BPlaced(r, S)
    BY <1>2, <1>3, <1>6, <1>8, <1>9, <2>2 DEF BPlaced
  <2> QED BY <2>1, <2>3, <2>4, BFrame
<1>10. CASE p = Bs!None
  <2>1. PICK r : r = Bs!Idle
    OBVIOUS
  <2>2. th' = [th EXCEPT ![t] = r]
    BY Zenon, <1>1, <1>10, <2>1 DEF Bs!SwapIn, Bs!Go
  <2>3. r.name = "idle"
    BY <2>1 DEF Bs!Idle
  <2>4. DoingOk(r) /\ HandSized(r) /\ InHand(r) = p
    BY Zenon, <2>3, <1>10 DEF DoingOk, InHand, HandSized
  <2> QED BY Zenon, <2>2, <2>4, <1>9
<1>11. CASE p # Bs!None
  <2>1. PICK r : r = [o EXCEPT !.block = p, !.slot = Bs!NextSlot(o), !.left = @ - 1]
    OBVIOUS
  <2>2. th' = [th EXCEPT ![t] = r]
    BY Zenon, <1>1, <1>11, <2>1 DEF Bs!SwapIn, Bs!Go
  <2>3. Bs!NextSlot(o) \in Bs!Slots(o.class) /\ o.left - 1 \in Nat /\ p \in Blocks
    BY BsAllocAssumption, <1>2, <1>3, <1>11 DEF Bs!NextSlot, Bs!Slots
  <2>4. /\ r.name = "free" /\ r.class = o.class /\ r.slot = Bs!NextSlot(o) /\ r.stride = o.stride
        /\ r.left = o.left - 1 /\ r.block = p
    <3>1. DoingOk(o)
      BY <1>1 DEF BInv, BTypes
    <3> QED BY <2>1, <1>2
  <2>5. DoingOk(r) /\ HandSized(r) /\ InHand(r) = p
    BY Zenon, <1>3, <1>6, <1>11, <2>3, <2>4 DEF DoingOk, InHand, HandSized
  <2> QED BY Zenon, <2>2, <2>5, <1>9
<1> QED BY <1>10, <1>11

(* Unmapping what is in hand keeps the invariant: nothing else refers to   *)
(* the block.                                                              *)
LEMMA BUnmap ==
    ASSUME BInv, NEW t \in Threads, Bs!Unmap(t)
    PROVE  BInv'
<1>1. PICK b : b = th[t].block
  OBVIOUS
<1>2. PICK r : r = Bs!Idle
  OBVIOUS
<1>3. /\ th[t].name \in {"free", "unmap"} /\ UNCHANGED <<cache, user>>
      /\ mapped' = [mapped EXCEPT ![b] = 0] /\ th' = [th EXCEPT ![t] = r]
  BY <1>1, <1>2 DEF Bs!Unmap, Bs!Go
<1>4. b \in Blocks /\ Hand(t) = b /\ b # Bs!None
  BY Zenon, BsAllocAssumption, <1>1, <1>3 DEF BInv, BTypes, DoingOk, Hand, InHand
<1>5. /\ mapped' \in [Blocks -> Nat] /\ mapped'[b] = 0
      /\ \A x \in Blocks \ {b} : mapped'[x] = mapped[x]
  BY <1>3, <1>4 DEF BInv, BTypes
<1>6. /\ \A k \in Threads \ {t} : Hand(k) # b
      /\ \A c \in Bs!Caches : \A s \in Bs!Slots(c) : cache[c][s] # b
      /\ \A u \in user : u[1] # b
  BY <1>4, BIdle
<1>7. r.name = "idle"
  BY <1>2 DEF Bs!Idle
<1>8. DoingOk(r) /\ InHand(r) = Bs!None /\ HandSized(r)'
  BY Zenon, <1>7 DEF DoingOk, InHand, HandSized
<1>9. BTypes'
  BY <1>3, <1>5, <1>8, BThread DEF BInv, BTypes
<1>10. PICK S \in SUBSET Blocks : S = {b}
  BY Zenon, <1>4
<1>11. /\ \A c \in Bs!Caches : \A s \in Bs!Slots(c) : cache'[c][s] = cache[c][s] /\ cache[c][s] \notin S
       /\ \A k \in Threads \ {t} : Hand(k) \notin S
       /\ \A u \in user : u[1] \notin S
       /\ Hand(t) \in S /\ \A x \in S : x = b
  BY Zenon, <1>3, <1>4, <1>6, <1>10
<1>12. BMoves(t, r, S) /\ BPlaced(r, S)
  <2>1. ~ (mapped'[b] > 0)
    BY <1>5
  <2>2. BMoves(t, r, S)
    BY Zenon, <1>3, <1>5, <1>8, <1>11 DEF BMoves
  <2>3. BPlaced(r, S)
    BY Zenon, <1>3, <1>8, <1>11, <2>1 DEF BPlaced
  <2> QED BY Zenon, <2>2, <2>3
<1> QED BY <1>9, <1>12, BFrame

(* Every step of bsalloc keeps the invariant.                              *)
LEMMA BStep == ASSUME BInv, [Bs!Next]_(Bs!vars) PROVE BInv'
<1>1. CASE Bs!Next
  BY <1>1, BAlloc, BRealloc, BFree, BSwapOut, BGiveUp, BMap, BSwapIn, BUnmap DEF Bs!Next
<1>2. CASE UNCHANGED Bs!vars
  <2>1. UNCHANGED <<mapped, cache, user, th>>
    BY Zenon, <1>2 DEF Bs!vars
  <2>2. /\ \A t \in Threads : Hand(t)' = Hand(t)
        /\ \A t \in Threads : HandSized(th[t]) => HandSized(th[t])'
    BY Zenon, <2>1 DEF Hand, HandSized
  <2>3. BTypes'
    BY Zenon, <2>1 DEF BInv, BTypes, DoingOk
  <2>4. BUnique'
    BY <2>1, <2>2 DEF BInv, BUnique
  <2>5. BApart'
    BY Zenon, <2>1, <2>2 DEF BInv, BApart
  <2>6. BSized'
    BY Zenon, <2>1, <2>2 DEF BInv, BSized
  <2>7. BHeld'
    BY Zenon, <2>1, <2>2 DEF BInv, BHeld
  <2> QED BY Zenon, <2>3, <2>4, <2>5, <2>6, <2>7 DEF BInv
<1> QED BY <1>1, <1>2

(* Every mapped block is, at every step of bsalloc, in one slot of one     *)
(* cache, in one thread's hand or with the program, and of that place's    *)
(* size.                                                                   *)
THEOREM BInvariance == Bs!Spec => []BInv
<1>1. Bs!Init => BInv
  BY BStart
<1>2. BInv /\ [Bs!Next]_(Bs!vars) => BInv'
  BY BStep
<1> QED BY <1>1, <1>2, PTL DEF Bs!Spec

(* bsalloc neither loses a block nor gives it out twice, and the block is  *)
(* large enough for its Layout, for any number of threads, any cache sizes *)
(* and any walk over the slots.                                            *)
THEOREM BlocksAreInPlace == Bs!Spec => []BlocksInPlace
<1>1. BInv => BlocksInPlace
  BY BImplies DEF BlocksInPlace
<1> QED BY <1>1, BInvariance, PTL
=============================================================================
