--------------------------- MODULE BagPipeProofs ---------------------------
(***************************************************************************)
(* That BagPipe is a weak bag, that its pop answers Empty honestly, and    *)
(* that size_guess is off by no more than what the handles keep back: the  *)
(* inductive invariant, the arithmetic of the strides, the tally of the    *)
(* counters, and the proofs.                                               *)
(***************************************************************************)
EXTENDS BagPipe, FiniteSetTheorems, WellFoundedInduction, TLAPS

\* The calls a handle can be in.
PushOps ==
    [name : {"push"}, item : Items, must : BOOLEAN, final : BOOLEAN, ix : Pipes, left : Int]
PopOps == [name : {"pop"}, loop : BOOLEAN, empties : 0 .. Len - 1, ix : Pipes, left : Int]
BulkOps == [name : {"bulk"}, left : SUBSET Items, ix : Pipes, n : Int]
Ops == PushOps \cup PopOps \cup BulkOps \cup [name : {"idle", "flush", "empty"}]

\* The types of the variables the proofs are about.
Types ==
    /\ items \in [Pipes -> SUBSET Items]
    /\ live \in SUBSET Handles
    /\ born \in SUBSET Handles
    /\ all_refs \in Nat
    /\ offset \in [Handles -> Pipes]
    /\ stride \in [Handles -> Nat]
    /\ push_failures \in [Handles -> Int]
    /\ pop_failures \in [Handles -> Int]
    /\ owned \in [Handles \cup {Cleaner} -> SUBSET Items]
    /\ op \in [Handles -> Ops]
    /\ seen \in [Handles -> SUBSET Items]
    /\ cleaning \in Int

\* A stride is odd.
OddStrides == \A h \in Handles : \E a \in Nat : stride[h] = 2 * a + 1

\* The clean-up begins when no handle is left.
Alone ==
    /\ live \subseteq born
    /\ \A h \in Handles : op[h].name # "idle" => h \in live
    /\ cleaning # -1 => live = {}

\* An item is in one pipe or with one thread.
InOnePlace ==
    /\ \A p, q \in Pipes : p # q => items[p] \cap items[q] = {}
    /\ \A p \in Pipes, c \in Handles \cup {Cleaner} : items[p] \cap owned[c] = {}
    /\ \A c, d \in Handles \cup {Cleaner} : c # d => owned[c] \cap owned[d] = {}

\* What a call is to push is with its thread.
ToPush ==
    \A h \in Handles :
        /\ op[h].name = "push" => op[h].item \in owned[h]
        /\ op[h].name = "bulk" => op[h].left \subseteq owned[h]

\* What a pass has to find is in the bag, and not in the last pipes it found
\* empty.
Passed(h, p) ==
    /\ op[h].ix = Pipe(p + op[h].empties * stride[h])
    /\ \A j \in 0 .. op[h].empties - 1 : items[Pipe(p + j * stride[h])] \cap seen[h] = {}

Passes ==
    \A h \in Handles :
        /\ op[h].name \in {"pop", "empty"} => seen[h] \subseteq Contents
        /\ op[h].name = "pop" => \E p \in Pipes : Passed(h, p)
        /\ op[h].name = "empty" => seen[h] = {}

\* What a step does to the items: nothing, one goes in, or one comes out.
Quiet == UNCHANGED <<items, owned>>

PutIn(c, p, v) ==
    /\ v \in owned[c]
    /\ UNCHANGED seen
    /\ items' = [items EXCEPT ![p] = @ \cup {v}]
    /\ owned' = [owned EXCEPT ![c] = @ \ {v}]

TakeOut(c, p, v) ==
    /\ v \in items[p]
    /\ Unsee(v) \/ cleaning \in Pipes
    /\ items' = [items EXCEPT ![p] = @ \ {v}]
    /\ owned' = [owned EXCEPT ![c] = @ \cup {v}]

\* Who can have items.
Threads == Handles \cup {Cleaner}

\* The inductive invariant.
IInv == Types /\ OddStrides /\ Alone /\ InOnePlace /\ ToPush /\ Passes
-----------------------------------------------------------------------------
(* A set of naturals that is not empty has a least element.                *)
LEMMA Least ==
    ASSUME NEW T \in SUBSET Nat, T # {}
    PROVE  \E x \in T : \A y \in T : x <= y
<1> DEFINE R == {ss \in Nat \X Nat : ss[1] < ss[2]}
<1>1. IsWellFoundedOn(R, Nat)
  BY NatLessThanWellFounded DEF OpToRel
<1>2. \A x, y \in Nat : y < x => <<y, x>> \in R
  OBVIOUS
<1> HIDE DEF R
<1>3. PICK x \in T : \A y \in T : ~ (<<y, x>> \in R)
  BY Zenon, <1>1, WFMin
<1>4. \A y \in T : x <= y
  <2> TAKE y \in T
  <2>1. x \in Nat /\ y \in Nat /\ ~ (<<y, x>> \in R)
    BY Zenon, <1>3
  <2>2. ~ (y < x)
    BY Zenon, <2>1, <1>2
  <2> QED
    BY <2>1, <2>2
<1> QED
  BY Zenon, <1>4

(* An odd number has an inverse modulo the number of pipes. That number is *)
(* a power of two (new_size rounds up to one), so from an inverse modulo a *)
(* divisor n one gets an inverse modulo 2 * n; a largest divisor with an   *)
(* inverse is therefore the number of pipes itself.                        *)
LEMMA OddInverse ==
    ASSUME NEW a \in Nat
    PROVE  \E t, c \in Int : t * (2 * a + 1) = 1 + Len * c
<1> DEFINE s == 2 * a + 1
           Inv(n) == \E t, c \in Int : t * s = 1 + n * c
           T == {i \in Nat : i < Len /\ \E m \in 1 .. Len : (Len - i) * m = Len /\ Inv(Len - i)}
<1>1. ASSUME NEW n \in Nat, Inv(n) PROVE Inv(2 * n)
  <2>1. PICK t \in Int, c \in Int : t * s = 1 + n * c
    BY <1>1
  <2>2. ASSUME NEW d \in Int, c = 2 * d PROVE Inv(2 * n)
    <3>1. t * s = 1 + (2 * n) * d
      BY <2>1, <2>2
    <3> QED
      BY <3>1
  <2>3. ASSUME NEW d \in Int, c = 2 * d + 1 PROVE Inv(2 * n)
    <3>1. (t + n) * s = 1 + (2 * n) * (d + a + 1)
      BY <2>1, <2>3
    <3>2. t + n \in Int /\ d + a + 1 \in Int
      OBVIOUS
    <3> QED
      BY <3>1, <3>2
  <2>4. \E d \in Int : c = 2 * d \/ c = 2 * d + 1
    <3>1. c = 2 * (c \div 2) + (c % 2)
      OBVIOUS
    <3>2. c % 2 = 0 \/ c % 2 = 1
      OBVIOUS
    <3>3. c \div 2 \in Int
      OBVIOUS
    <3> QED
      BY <3>1, <3>2, <3>3
  <2> QED
    BY <2>2, <2>3, <2>4
<1>2. Inv(1)
  <2>1. 1 * s = 1 + 1 * (s - 1) /\ 1 \in Int /\ s - 1 \in Int
    OBVIOUS
  <2> QED
    BY <2>1
<1>3. Len - 1 \in T
  <2>1. Len - (Len - 1) = 1 /\ Len - 1 \in Nat /\ 1 * Len = Len /\ Len \in 1 .. Len
    BY BagPipeAssumption
  <2> QED
    BY <1>2, <2>1, BagPipeAssumption
<1>4. PICK i \in T : \A j \in T : i <= j
  <2>1. T \in SUBSET Nat /\ T # {}
    BY Zenon, <1>3
  <2> HIDE DEF T
  <2> QED
    BY Zenon, <2>1, Least
<1>5. i = 0
  <2> SUFFICES ASSUME i > 0 PROVE FALSE
    BY <1>4
  <2>1. PICK m \in 1 .. Len : (Len - i) * m = Len /\ Inv(Len - i)
    BY <1>4
  <2> DEFINE n == Len - i
  <2>0. n \in 1 .. Len /\ n < Len /\ i \in Nat /\ Len \in Nat
    BY <1>4, BagPipeAssumption
  <2>2. m # 1
    BY <2>0, <2>1
  <2>a. m * n = Len /\ m \in 2 .. Len
    BY <2>0, <2>1, <2>2
  <2>3. m % 2 = 0
    BY Zenon, <2>0, <2>a, BagPipeAssumption
  <2>4. PICK k \in 1 .. Len : m = 2 * k
    <3>0. m \in Int
      OBVIOUS
    <3>1. m = 2 * (m \div 2) + (m % 2)
      BY <3>0
    <3>2. m \div 2 \in Int
      BY <3>0
    <3> QED
      BY <3>1, <3>2, <2>3, <2>a, <2>0
  <2>5. (2 * n) * k = Len
    BY <2>0, <2>a, <2>4
  <2>6. 2 * n <= Len
    BY <2>0, <2>5
  <2>b. Inv(2 * n)
    <3>1. n \in Nat /\ Inv(n)
      BY <2>0, <2>1
    <3> HIDE DEF Inv, n
    <3> QED
      BY <3>1, <1>1
  <2> DEFINE j == Len - 2 * n
  <2>7. j \in Nat /\ j < i /\ j < Len /\ Len - j = 2 * n
    BY <2>0, <2>6
  <2>8. j \in T
    <3>1. Inv(Len - j) /\ (Len - j) * k = Len
      BY Zenon, <2>5, <2>7, <2>b
    <3> HIDE DEF Inv, j
    <3> QED
      BY <3>1, <2>7
  <2>9. i <= j
    BY Zenon, <2>8, <1>4
  <2> QED
    BY <2>7, <2>9, <2>0
<1> QED
  BY <1>4, <1>5, BagPipeAssumption

(* A pass that starts at pipe p and adds an odd stride is at every pipe    *)
(* within as many steps as there are pipes: this is what the stride of a   *)
(* cloned handle, (all_refs + 1) * 2 + 1, is odd for.                      *)
LEMMA Strides ==
    ASSUME NEW s \in Nat, NEW a \in Nat, s = 2 * a + 1
    PROVE  /\ \A p \in Pipes : Pipe(p + 0 * s) = p
           /\ \A p \in Pipes, e \in Nat : Pipe(Pipe(p + e * s) + s) = Pipe(p + (e + 1) * s)
           /\ \A p, x \in Pipes : \E j \in Pipes : Pipe(p + j * s) = x
<1>0. s \in Int /\ Len \in Int /\ Len > 0
  BY BagPipeAssumption
<1>1. ASSUME NEW n \in Int
      PROVE  Pipe(n) \in Pipes /\ \E q \in Int : n = Len * q + Pipe(n)
  <2>1. n = Len * (n \div Len) + (n % Len)
    BY BagPipeAssumption
  <2>2. n \div Len \in Int
    BY BagPipeAssumption
  <2>3. n % Len \in 0 .. Len - 1
    BY BagPipeAssumption
  <2> QED
    BY <2>1, <2>2, <2>3 DEF Pipe, Pipes
<1>2. ASSUME NEW n \in Int, NEW x \in Pipes, NEW q \in Int, n = Len * q + x
      PROVE  Pipe(n) = x
  <2>1. PICK r \in Int : n = Len * r + Pipe(n)
    BY <1>1
  <2>2. Pipe(n) \in 0 .. Len - 1 /\ x \in 0 .. Len - 1
    BY <1>1 DEF Pipes
  <2>3. x = Pipe(n) + Len * (r - q)
    BY <1>2, <2>1, <2>2, <1>0
  <2>4. r - q \in Int
    OBVIOUS
  <2> HIDE DEF Pipe
  <2>5. r - q = 0
    BY <2>2, <2>3, <2>4, <1>0
  <2> QED
    BY <2>2, <2>3, <2>5, <1>0
<1>i. \E t, c \in Int : t * s = 1 + Len * c
  BY Zenon, OddInverse
<1>3. \A p \in Pipes : Pipe(p + 0 * s) = p
  <2> TAKE p \in Pipes
  <2>1. p + 0 * s = Len * 0 + p /\ p + 0 * s \in Int
    BY <1>0 DEF Pipes
  <2> QED
    BY <2>1, <1>2
<1>4. ASSUME NEW p \in Pipes, NEW e \in Nat
      PROVE  Pipe(Pipe(p + e * s) + s) = Pipe(p + (e + 1) * s)
  <2> DEFINE n == p + e * s
             m == p + (e + 1) * s
  <2>1. n \in Int /\ m \in Int /\ m = n + s
    BY <1>0 DEF Pipes
  <2> HIDE DEF n, m
  <2>2. PICK q \in Int : n = Len * q + Pipe(n)
    BY <1>1, <2>1
  <2>3. PICK r \in Int : m = Len * r + Pipe(m)
    BY <1>1, <2>1
  <2>4. Pipe(n) \in Pipes /\ Pipe(m) \in Pipes /\ Pipe(n) \in Int /\ Pipe(m) \in Int
    BY <1>1, <2>1 DEF Pipes
  <2>5. Pipe(n) + s = Len * (r - q) + Pipe(m) /\ Pipe(n) + s \in Int /\ r - q \in Int
    BY <2>1, <2>2, <2>3, <2>4, <1>0
  <2>6. Pipe(Pipe(n) + s) = Pipe(m)
    BY <2>4, <2>5, <1>2
  <2> QED
    BY <2>6 DEF n, m
<1>5. ASSUME NEW p \in Pipes, NEW x \in Pipes
      PROVE  \E j \in Pipes : Pipe(p + j * s) = x
  <2>1. PICK t \in Int, c \in Int : t * s = 1 + Len * c
    BY Zenon, <1>i
  <2>0. p \in Int /\ x \in Int /\ (x - p) * t \in Int
    BY DEF Pipes
  <2> DEFINE j == Pipe((x - p) * t)
  <2>2. j \in Pipes /\ \E q \in Int : (x - p) * t = Len * q + j
    BY <1>1, <2>0
  <2>3. PICK q \in Int : (x - p) * t = Len * q + j
    BY <2>2
  <2>4. j \in Int
    BY <2>2 DEF Pipes
  <2> HIDE DEF j
  <2>5. ((x - p) * t) * s = (x - p) + Len * ((x - p) * c)
    BY <2>0, <2>1, <1>0
  <2>6. (Len * q + j) * s = Len * (q * s) + j * s
    BY <2>4, <1>0
  <2>7. p + j * s = Len * ((x - p) * c - q * s) + x
    BY <2>0, <2>3, <2>4, <2>5, <2>6, <1>0
  <2>8. p + j * s \in Int /\ (x - p) * c - q * s \in Int
    BY <2>0, <2>4, <1>0
  <2>9. Pipe(p + j * s) = x
    BY <2>7, <2>8, <1>2
  <2> QED
    BY <2>9, <2>2
<1> QED
  BY <1>3, <1>4, <1>5

(* Every call of a handle keeps the types of the state, the strides odd,   *)
(* and the order of drops: the clean-up of the pipes begins when the last  *)
(* handle is gone, and a call runs on a live handle only.                  *)
LEMMA TypesStep ==
    ASSUME Types, OddStrides, Alone, Next
    PROVE  Types' /\ OddStrides' /\ Alone'
<1> USE DEF Types
<1>0. /\ Len \in Nat \ {0} /\ MaxFailures \in Nat
      /\ \A n \in Int : Pipe(n) \in Pipes
      /\ Pipes \subseteq Nat
  BY BagPipeAssumption DEF Pipe, Pipes
<1>a. ASSUME NEW h \in Handles
      PROVE  [name |-> "flush"] \in Ops /\ Idle \in Ops /\ [name |-> "empty"] \in Ops
  BY DEF Ops, Idle
<1>1. ASSUME NEW g \in Handles, NEW h \in Handles, Clone(g, h)
      PROVE  Types' /\ OddStrides' /\ Alone'
  <2> DEFINE step == (all_refs + 1) * 2 + 1
  <2>1. step \in Nat /\ all_refs + 1 \in Nat /\ Pipe(step) \in Pipes
    BY <1>0
  <2>2. Types'
    BY <1>1, <2>1 DEF Clone, shared
  <2>3. OddStrides'
    <3> SUFFICES ASSUME NEW k \in Handles PROVE \E a \in Nat : stride'[k] = 2 * a + 1
      BY DEF OddStrides
    <3>1. stride' = [stride EXCEPT ![h] = step]
      BY <1>1 DEF Clone
    <3>2. CASE k = h
      <4>1. stride'[k] = 2 * (all_refs + 1) + 1
        BY <3>1, <3>2
      <4> QED
        BY <4>1, <2>1
    <3>3. CASE k # h
      BY <3>1, <3>3 DEF OddStrides
    <3> QED
      BY <3>2, <3>3
  <2>4. Alone'
    BY <1>1 DEF Clone, Alone
  <2> QED
    BY <2>2, <2>3, <2>4
<1>2. ASSUME NEW h \in Handles, StartPush(h)
      PROVE  Types' /\ OddStrides' /\ Alone'
  <2>1. PICK v \in owned[h], must \in BOOLEAN : op' = [op EXCEPT ![h] = PushRound(h, v, must)]
    BY Zenon, <1>2 DEF StartPush
  <2>2. v \in Items
    BY <2>1
  <2>3. PushRound(h, v, must) \in Ops
    BY <2>2 DEF PushRound, Ops, PushOps
  <2>4. Types'
    BY <1>2, <2>1, <2>3 DEF StartPush, shared, local
  <2> QED
    BY <1>2, <2>1, <2>4 DEF StartPush, shared, local, Ready, OddStrides, Alone
<1>3. ASSUME NEW h \in Handles, StartPop(h)
      PROVE  Types' /\ OddStrides' /\ Alone'
  <2>1. PICK loop \in BOOLEAN :
             op' = [op EXCEPT ![h] = PopRound(offset[h], pop_failures[h], loop)]
    BY Zenon, <1>3 DEF StartPop
  <2>3. PopRound(offset[h], pop_failures[h], loop) \in Ops
    BY <1>0 DEF PopRound, Ops, PopOps
  <2>5. Contents \in SUBSET Items
    BY DEF Contents
  <2>4. Types'
    BY <1>3, <2>1, <2>3, <2>5 DEF StartPop, shared, local
  <2> QED
    BY <1>3, <2>1, <2>4 DEF StartPop, shared, local, Ready, OddStrides, Alone
<1>4. ASSUME NEW h \in Handles, StartBulk(h)
      PROVE  Types' /\ OddStrides' /\ Alone'
  <2> DEFINE o == [name |-> "bulk", left |-> owned[h], ix |-> offset[h], n |-> 0]
  <2>1. o \in Ops
    BY DEF Ops, BulkOps
  <2>2. Types'
    BY <1>4, <2>1 DEF StartBulk, shared, local
  <2> QED
    BY <1>4, <2>2 DEF StartBulk, shared, local, Ready, OddStrides, Alone
<1>5. ASSUME NEW h \in Handles, Drop(h)
      PROVE  Types' /\ OddStrides' /\ Alone'
  BY <1>5 DEF Drop, Ready, OddStrides, Alone, Idle
<1>6. ASSUME CleanItem PROVE Types' /\ OddStrides' /\ Alone'
  BY <1>6 DEF CleanItem, PopOk, local, OddStrides, Alone
<1>7. ASSUME CleanNext PROVE Types' /\ OddStrides' /\ Alone'
  BY <1>7, <1>0 DEF CleanNext, PopFails, local, OddStrides, Alone
<1>8. ASSUME NEW h \in Handles, Step(h)
      PROVE  Types' /\ OddStrides' /\ Alone'
  <2> DEFINE Kept == UNCHANGED <<all_refs, live, born, stride, cleaning>>
             Changed == /\ items' \in [Pipes -> SUBSET Items]
                        /\ offset' \in [Handles -> Pipes]
                        /\ push_failures' \in [Handles -> Int]
                        /\ pop_failures' \in [Handles -> Int]
                        /\ owned' \in [Threads -> SUBSET Items]
                        /\ seen' \in [Handles -> SUBSET Items]
             NewOp == \E o \in Ops : op' = [op EXCEPT ![h] = o]
             Good == op[h].name # "idle" /\ Kept /\ Changed /\ NewOp
  <2>p. ASSUME NEW d, Propagate(h, d) PROVE NewOp
    BY Zenon, <2>p, <1>a DEF Propagate
  <2>n. ASSUME NEW i \in Pipes PROVE Pipe(i + stride[h]) \in Pipes
    <3>1. i + stride[h] \in Int
      BY <1>0
    <3> QED
      BY <3>1, <1>0
  <2>f. ASSUME NEW ctr \in [Handles -> Int]
        PROVE  /\ [offset EXCEPT ![h] = Pipe(@ + stride[h])] \in [Handles -> Pipes]
               /\ [ctr EXCEPT ![h] = Capped(@ + 1)] \in [Handles -> Int]
               /\ [ctr EXCEPT ![h] = @ \div 2] \in [Handles -> Int]
    <3>1. Pipe(offset[h] + stride[h]) \in Pipes
      BY <2>n
    <3>3. Capped(ctr[h] + 1) \in Int
      BY <1>0 DEF Capped
    <3>2. ctr[h] \div 2 \in Int
      OBVIOUS
    <3> QED
      BY <3>1, <3>2, <3>3
  <2>1. ASSUME Flush(h) PROVE Good
    BY Zenon, <2>1, <1>a DEF Flush, Threads
  <2>2. ASSUME Pushed(h) PROVE Good
    <3> DEFINE o == op[h]
    <3>1. o.name = "push" /\ o.ix \in Pipes /\ o.item \in Items
      BY <2>2 DEF Pushed, Ops, PushOps, PopOps, BulkOps
    <3>2. NewOp
      BY <2>2, <2>p DEF Pushed
    <3>3. /\ offset' \in [Handles -> Pipes]
          /\ push_failures' \in [Handles -> Int]
      BY <2>2, <2>f DEF Pushed, Failed, Relaxed
    <3> QED
      BY ZenonT(40), <2>2, <3>1, <3>2, <3>3 DEF Pushed, PushOk, Threads
  <2>3. ASSUME PushNextPipe(h) PROVE Good
    <3> DEFINE o == op[h]
    <3>0. o.name = "push" /\ UNCHANGED <<items, owned, seen, pop_failures>> /\ Kept
      BY <2>3 DEF PushNextPipe, PushFails
    <3>1. o \in PushOps
      BY <3>0 DEF Ops, PushOps, PopOps, BulkOps
    <3>2. CASE o.final /\ o.left = 1
      <4>1. op' = [op EXCEPT ![h] = o] /\ UNCHANGED <<offset, push_failures>>
        BY <2>3, <3>2 DEF PushNextPipe
      <4> QED
        BY Zenon, <3>0, <4>1 DEF Threads
    <3>3. CASE ~ (o.final /\ o.left = 1) /\ o.left > 1
      <4> DEFINE x == [o EXCEPT !.ix = Pipe(@ + stride[h]), !.left = @ - 1]
      <4>1. op' = [op EXCEPT ![h] = x] /\ UNCHANGED <<offset, push_failures>>
        BY Zenon, <2>3, <3>3 DEF PushNextPipe
      <4>2. x \in PushOps
        <5>1. Pipe(o.ix + stride[h]) \in Pipes /\ o.left - 1 \in Int
          BY <3>1, <2>n DEF PushOps
        <5> QED
          BY Zenon, <3>1, <5>1 DEF PushOps
      <4> QED
        BY Zenon, <3>0, <4>1, <4>2 DEF Threads, Ops
    <3>4. CASE ~ (o.final /\ o.left = 1) /\ ~ (o.left > 1)
      <4> DEFINE x == IF o.must THEN [o EXCEPT !.ix = offset'[h], !.final = TRUE,
                                               !.left = push_failures'[h] + 1]
                                ELSE Idle
      <4>1. op' = [op EXCEPT ![h] = x] /\ Failed(h, push_failures)
        BY <2>3, <3>4 DEF PushNextPipe
      <4>2. offset' \in [Handles -> Pipes] /\ push_failures' \in [Handles -> Int]
        BY <4>1, <2>f DEF Failed
      <4>3. x \in PushOps \cup {Idle}
        <5>1. offset'[h] \in Pipes /\ push_failures'[h] + 1 \in Int
          BY <4>2
        <5> QED
          BY Zenon, <3>1, <5>1 DEF PushOps
      <4> QED
        BY Zenon, <3>0, <4>1, <4>2, <4>3, <1>a DEF Threads, Ops
    <3> QED
      BY <3>2, <3>3, <3>4
  <2>4. ASSUME Popped(h) PROVE Good
    <3> DEFINE o == op[h]
    <3>1. o.name = "pop" /\ o.ix \in Pipes
      BY <2>4 DEF Popped, Ops, PushOps, PopOps, BulkOps
    <3>2. NewOp
      BY <2>4, <2>p DEF Popped
    <3>3. /\ offset' \in [Handles -> Pipes]
          /\ pop_failures' \in [Handles -> Int]
      BY <2>4, <2>f DEF Popped, Relaxed
    <3>4. PICK v \in items[o.ix] :
            /\ items' = [items EXCEPT ![o.ix] = @ \ {v}]
            /\ owned' = [owned EXCEPT ![h] = @ \cup {v}]
            /\ seen' = [g \in Handles |-> seen[g] \ {v}]
      BY Zenon, <2>4 DEF Popped, PopOk, Unsee
    <3>5. v \in Items
      BY <3>1, <3>4
    <3>6. Kept /\ UNCHANGED push_failures
      BY <2>4 DEF Popped
    <3> QED
      BY ZenonT(30), <3>1, <3>2, <3>3, <3>4, <3>5, <3>6 DEF Threads
  <2>5. ASSUME PopNextPipe(h) PROVE Good
    <3> DEFINE o == op[h]
    <3>0. o.name = "pop" /\ UNCHANGED <<items, owned, push_failures>> /\ Kept
      BY <2>5 DEF PopNextPipe, PopFails
    <3>1. o \in PopOps
      BY <3>0 DEF Ops, PushOps, PopOps, BulkOps
    <3>2. PICK n \in {0, o.empties + 1} :
            IF o.left = 1
            THEN /\ Failed(h, pop_failures)
                 /\ op' = [op EXCEPT ![h] = IF o.loop THEN PopRound(offset'[h], pop_failures'[h], TRUE)
                                                      ELSE Idle]
                 /\ seen' = [seen EXCEPT ![h] = Contents]
            ELSE IF n = Len
            THEN /\ Relaxed(h, pop_failures)
                 /\ op' = [op EXCEPT ![h] = [name |-> "empty"]]
                 /\ UNCHANGED seen
            ELSE /\ op' = [op EXCEPT ![h].ix = Pipe(@ + stride[h]), ![h].left = @ - 1,
                                     ![h].empties = n]
                 /\ UNCHANGED <<offset, pop_failures, seen>>
      BY Zenon, <2>5 DEF PopNextPipe
    <3>3. CASE o.left = 1
      <4>1. offset' \in [Handles -> Pipes] /\ pop_failures' \in [Handles -> Int]
        BY <3>2, <3>3, <2>f DEF Failed
      <4>2. PopRound(offset'[h], pop_failures'[h], TRUE) \in Ops
        BY <4>1, <1>0 DEF PopRound, Ops, PopOps
      <4>3. NewOp
        BY Zenon, <3>2, <3>3, <4>2, <1>a
      <4>4. seen' \in [Handles -> SUBSET Items]
        BY <3>2, <3>3 DEF Contents
      <4> QED
        BY Zenon, <3>0, <4>1, <4>3, <4>4 DEF Threads
    <3>4. CASE o.left # 1 /\ n = Len
      <4>1. offset' \in [Handles -> Pipes] /\ pop_failures' \in [Handles -> Int]
        BY <3>2, <3>4, <2>f DEF Relaxed
      <4> QED
        BY Zenon, <3>0, <3>2, <3>4, <4>1, <1>a DEF Threads
    <3>5. CASE o.left # 1 /\ n # Len
      <4> DEFINE x == [o EXCEPT !.ix = Pipe(@ + stride[h]), !.left = @ - 1, !.empties = n]
      <4>1. op' = [op EXCEPT ![h] = x] /\ UNCHANGED <<offset, pop_failures, seen>>
        BY Zenon, <3>2, <3>5
      <4>2. n \in 0 .. Len - 1
        BY <3>1, <3>5, <1>0 DEF PopOps
      <4>3. x \in PopOps
        <5>1. Pipe(o.ix + stride[h]) \in Pipes /\ o.left - 1 \in Int
          BY <3>1, <2>n DEF PopOps
        <5> QED
          BY Zenon, <3>1, <4>2, <5>1 DEF PopOps
      <4> QED
        BY Zenon, <3>0, <4>1, <4>3 DEF Threads, Ops
    <3> QED
      BY <3>3, <3>4, <3>5
  <2>6. ASSUME ReturnEmpty(h) PROVE Good
    BY Zenon, <2>6, <1>a DEF ReturnEmpty, Threads, local, shared
  <2>7. ASSUME BulkPushed(h) PROVE Good
    <3> DEFINE o == op[h]
    <3>0. o.name = "bulk"
      BY <2>7 DEF BulkPushed
    <3>1. o \in BulkOps
      BY <3>0 DEF Ops, PushOps, PopOps, BulkOps
    <3>2. PICK v \in o.left :
            /\ PushOk(o.ix, v)
            /\ owned' = [owned EXCEPT ![h] = @ \ {v}]
            /\ op' = [op EXCEPT ![h].left = @ \ {v}, ![h].ix = Pipe(@ + stride[h]), ![h].n = @ + 1]
      BY Zenon, <2>7 DEF BulkPushed
    <3> DEFINE x == [o EXCEPT !.left = @ \ {v}, !.ix = Pipe(@ + stride[h]), !.n = @ + 1]
    <3>3. op' = [op EXCEPT ![h] = x]
      BY Zenon, <3>2
    <3>5. v \in Items /\ o.ix \in Pipes
      BY <3>1 DEF BulkOps
    <3>4. x \in BulkOps
      <4>1. Pipe(o.ix + stride[h]) \in Pipes /\ o.n + 1 \in Int /\ o.left \ {v} \in SUBSET Items
        BY <3>1, <2>n DEF BulkOps
      <4> QED
        BY Zenon, <3>1, <4>1 DEF BulkOps
    <3> HIDE DEF x
    <3> QED
      BY ZenonT(40), <2>7, <3>0, <3>2, <3>3, <3>4, <3>5 DEF BulkPushed, PushOk, local, Threads, Ops
  <2>8. ASSUME BulkNextPipe(h) PROVE Good
    <3> DEFINE o == op[h]
    <3>0. o.name = "bulk"
      BY <2>8 DEF BulkNextPipe
    <3>1. o \in BulkOps
      BY <3>0 DEF Ops, PushOps, PopOps, BulkOps
    <3> DEFINE x == [o EXCEPT !.ix = Pipe(@ + stride[h])]
    <3>3. op' = [op EXCEPT ![h] = x]
      BY <2>8 DEF BulkNextPipe
    <3>4. x \in BulkOps
      <4>1. Pipe(o.ix + stride[h]) \in Pipes
        BY <3>1, <2>n DEF BulkOps
      <4> QED
        BY <3>1, <4>1 DEF BulkOps
    <3> QED
      BY Zenon, <2>8, <3>0, <3>3, <3>4 DEF BulkNextPipe, PushFails, local, Threads, Ops
  <2>9. ASSUME BulkEnd(h) PROVE Good
    <3>1. NewOp
      BY <2>9, <2>p DEF BulkEnd
    <3> QED
      BY Zenon, <3>1, <2>9 DEF BulkEnd, shared, Threads
  <2>10. Good
    <3> HIDE DEF Good
    <3> QED
      BY <1>8, <2>1, <2>2, <2>3, <2>4, <2>5, <2>6, <2>7, <2>8, <2>9 DEF Step
  <2>11. PICK o \in Ops : op' = [op EXCEPT ![h] = o]
    BY Zenon, <2>10
  <2>12. Types'
    BY <2>10, <2>11 DEF Threads
  <2> QED
    BY <2>10, <2>11, <2>12 DEF OddStrides, Alone
<1> QED
  BY <1>1, <1>2, <1>3, <1>4, <1>5, <1>6, <1>7, <1>8 DEF Next

(* What one step of any handle, or of the clean-up, does to the items:     *)
(* nothing, one item goes from its thread into a pipe, or one comes out of *)
(* a pipe, and then no pass in progress has to find it.                    *)
LEMMA Moves ==
    ASSUME Types, ToPush, Next
    PROVE  \/ Quiet
           \/ \E c \in Handles, p \in Pipes, v \in Items : PutIn(c, p, v)
           \/ \E c \in Threads, p \in Pipes, v \in Items : TakeOut(c, p, v)
<1> DEFINE Puts == \E c \in Handles, p \in Pipes, v \in Items : PutIn(c, p, v)
           Takes == \E c \in Threads, p \in Pipes, v \in Items : TakeOut(c, p, v)
<1>1. ASSUME NEW h \in Handles, Pushed(h) PROVE Puts
  <2>1. op[h].name = "push" /\ op[h] \in Ops
    BY <1>1 DEF Pushed, Types
  <2>2. op[h].ix \in Pipes /\ op[h].item \in Items /\ op[h].item \in owned[h]
    BY SMTT(30), <2>1 DEF ToPush, Ops, PushOps, PopOps, BulkOps
  <2>3. PutIn(h, op[h].ix, op[h].item)
    BY Zenon, <1>1, <2>2 DEF Pushed, PushOk, PutIn
  <2> QED
    BY <2>2, <2>3
<1>2. ASSUME NEW h \in Handles, BulkPushed(h) PROVE Puts
  <2>1. op[h].name = "bulk" /\ op[h] \in Ops
    BY <1>2 DEF BulkPushed, Types
  <2>2. op[h].ix \in Pipes /\ op[h].left \in SUBSET Items /\ op[h].left \subseteq owned[h]
    BY <2>1 DEF ToPush, Ops, PushOps, PopOps, BulkOps
  <2>3. PICK v \in op[h].left : PutIn(h, op[h].ix, v)
    BY Zenon, <1>2, <2>2 DEF BulkPushed, PushOk, PutIn
  <2> QED
    BY Zenon, <2>2, <2>3
<1>3. ASSUME NEW h \in Handles, Popped(h) PROVE Takes
  <2>1. op[h].name = "pop" /\ op[h] \in Ops
    BY <1>3 DEF Popped, Types
  <2>2. op[h].ix \in Pipes
    BY <2>1 DEF Ops, PushOps, PopOps, BulkOps
  <2>3. PICK v \in items[op[h].ix] : TakeOut(h, op[h].ix, v)
    BY Zenon, <1>3 DEF Popped, PopOk, TakeOut
  <2>4. v \in Items /\ h \in Threads
    BY <2>2 DEF Types, Threads
  <2> QED
    BY <2>2, <2>3, <2>4
<1>4. ASSUME CleanItem PROVE Takes
  <2>1. PICK v \in items[cleaning] : TakeOut(Cleaner, cleaning, v)
    BY Zenon, <1>4 DEF CleanItem, PopOk, TakeOut
  <2>2. v \in Items /\ Cleaner \in Threads /\ cleaning \in Pipes
    BY <1>4 DEF CleanItem, Types, Threads
  <2> QED
    BY <2>1, <2>2
<1>5. ASSUME NEW h \in Handles, NEW g \in Handles,
             \/ Clone(g, h) \/ StartPush(h) \/ StartPop(h) \/ StartBulk(h) \/ Drop(h) \/ Flush(h)
             \/ PushNextPipe(h) \/ PopNextPipe(h) \/ ReturnEmpty(h) \/ BulkNextPipe(h) \/ BulkEnd(h)
      PROVE  Quiet
  BY Zenon, <1>5 DEF Clone, StartPush, StartPop, StartBulk, Drop, Flush, PushNextPipe, PopNextPipe,
     ReturnEmpty, BulkNextPipe, BulkEnd, PushFails, PopFails, shared, local, Quiet
<1>6. ASSUME CleanNext PROVE Quiet
  BY SMTT(30), <1>6 DEF CleanNext, PopFails, Quiet
<1> QED
  BY <1>1, <1>2, <1>3, <1>4, <1>5, <1>6 DEF Next, Step

(* What the calls in progress rely on: the items that a push or a bulk_add *)
(* still has to put in are with its thread, and a pop has seen the pipes   *)
(* it counts as empty without the items it has to find, although other     *)
(* handles push into them and pop from them meanwhile.                     *)
LEMMA CallsStep ==
    ASSUME Types, Alone, InOnePlace, ToPush, OddStrides, Passes, Types', Next
    PROVE  ToPush' /\ Passes'
<1> USE DEF Types
<1> DEFINE Push(k) == /\ op[k].name = "push" => op[k].item \in owned[k]
                      /\ op[k].name = "bulk" => op[k].left \subseteq owned[k]
           Pass(k) == /\ op[k].name \in {"pop", "empty"} => seen[k] \subseteq Contents
                      /\ op[k].name = "pop" => \E p \in Pipes : Passed(k, p)
                      /\ op[k].name = "empty" => seen[k] = {}
           Same(k) == /\ op'[k] = op[k] /\ owned'[k] = owned[k]
                      /\ stride'[k] = stride[k] \/ op[k].name = "idle"
                      /\ Quiet => seen'[k] = seen[k]
<1>p. \A n \in Int : Pipe(n) \in Pipes
  BY SMTT(30), BagPipeAssumption DEF Pipe, Pipes
<1>0. ASSUME NEW k \in Handles PROVE Push(k) /\ Pass(k)
  BY Zenon DEF ToPush, Passes
<1>1. ASSUME NEW k \in Handles, Same(k) PROVE Push(k)' /\ Pass(k)'
  <2>1. Push(k)'
    BY Zenon, <1>0, <1>1
  <2> SUFFICES ASSUME op[k].name \in {"pop", "empty"} PROVE Pass(k)'
    BY Zenon, <2>1, <1>1
  <2> DEFINE Kept == /\ seen'[k] \subseteq seen[k]
                     /\ seen'[k] \subseteq Contents'
                     /\ \A x \in Pipes : items'[x] \cap seen'[k] \subseteq items[x]
  <2>2. stride'[k] = stride[k] /\ op'[k] = op[k] /\ seen[k] \subseteq Contents
    BY Zenon, <1>0, <1>1
  <2>3. ASSUME Quiet PROVE Kept
    BY <2>2, <2>3, <1>1 DEF Quiet, Contents
  <2>4. ASSUME NEW c \in Handles, NEW p \in Pipes, NEW v \in Items, PutIn(c, p, v) PROVE Kept
    <3>1. v \notin Contents
      BY <2>4 DEF InOnePlace, PutIn, Contents
    <3>2. \A x \in Pipes : items'[x] = IF x = p THEN items[x] \cup {v} ELSE items[x]
      BY Zenon, <2>4 DEF PutIn
    <3>3. seen'[k] = seen[k]
      BY <2>4 DEF PutIn
    <3> QED
      BY <2>2, <3>1, <3>2, <3>3 DEF Contents
  <2>5. ASSUME NEW c \in Threads, NEW p \in Pipes, NEW v \in Items, TakeOut(c, p, v) PROVE Kept
    <3>1. \A x \in Pipes : items'[x] = IF x = p THEN items[x] \ {v} ELSE items[x]
      BY Zenon, <2>5 DEF TakeOut
    <3>0. k \in live
      BY DEF Alone
    <3>2. cleaning \notin Pipes
      BY <3>0, BagPipeAssumption DEF Alone, Pipes
    <3>3. seen'[k] = seen[k] \ {v}
      BY <2>5, <3>2 DEF TakeOut, Unsee
    <3> QED
      BY <2>2, <3>1, <3>3 DEF Contents
  <2>6. Kept
    <3> HIDE DEF Kept
    <3> QED
      BY <2>3, <2>4, <2>5, Moves
  <2>7. ASSUME op[k].name = "pop" PROVE \E p \in Pipes : Passed(k, p)'
    <3>1. PICK p \in Pipes : Passed(k, p)
      BY Zenon, <2>7, <1>0
    <3>2. \A j \in 0 .. op[k].empties - 1 : Pipe(p + j * stride[k]) \in Pipes
      <4> TAKE j \in 0 .. op[k].empties - 1
      <4>1. p \in Int /\ j \in Int /\ stride[k] \in Int
        BY DEF Pipes
      <4>2. p + j * stride[k] \in Int
        BY <4>1
      <4> QED
        BY <4>2, <1>p
    <3>3. Passed(k, p)'
      BY SMTT(30), <2>2, <2>6, <3>1, <3>2 DEF Passed
    <3> QED
      BY SMTT(30), <3>3
  <2> QED
    BY Zenon, <2>2, <2>6, <2>7, <1>0
<1>2. ASSUME NEW h \in Handles, NEW g \in Handles,
             \/ Clone(g, h) \/ StartPush(h) \/ StartPop(h) \/ StartBulk(h) \/ Drop(h) \/ Step(h),
             NEW k \in Handles, k # h
      PROVE  Same(k)
  <2>1. CASE Clone(g, h)
    BY SMTT(30), <2>1, <1>2 DEF Clone, shared, local
  <2>2. CASE StartPush(h) \/ StartPop(h) \/ StartBulk(h) \/ Drop(h)
    BY Zenon, <2>2, <1>2 DEF StartPush, StartPop, StartBulk, Drop, shared, local
  <2>3. CASE Flush(h) \/ Pushed(h) \/ PushNextPipe(h)
    BY SMTT(30), <2>3, <1>2 DEF Flush, Pushed, PushNextPipe, Propagate, shared, local
  <2>4. CASE Popped(h)
    BY <2>4, <1>2 DEF Popped, PopOk, Propagate, Quiet
  <2>5. CASE PopNextPipe(h)
    BY ZenonT(40), <2>5, <1>2 DEF PopNextPipe
  <2>6. CASE ReturnEmpty(h) \/ BulkNextPipe(h) \/ BulkEnd(h)
    BY <2>6, <1>2 DEF ReturnEmpty, BulkNextPipe, BulkEnd, Propagate, shared, local
  <2>7. CASE BulkPushed(h)
    BY <2>7, <1>2 DEF BulkPushed, local
  <2> QED
    BY Zenon, <1>2, <2>1, <2>2, <2>3, <2>4, <2>5, <2>6, <2>7 DEF Step
<1>3. ASSUME NEW h \in Handles, NEW g \in Handles, Clone(g, h) \/ Drop(h)
      PROVE  Same(h)
  <2>1. CASE Clone(g, h)
    BY <2>1 DEF Clone, Alone, shared
  <2>2. CASE Drop(h)
    BY SMTT(30), <2>2 DEF Drop
  <2> QED
    BY <1>3, <2>1, <2>2
<1>4. ASSUME NEW h \in Handles, StartPush(h) PROVE Push(h)' /\ Pass(h)'
  <2>1. PICK v \in owned[h], must \in BOOLEAN : op' = [op EXCEPT ![h] = PushRound(h, v, must)]
    BY Zenon, <1>4 DEF StartPush
  <2>2. op'[h] = PushRound(h, v, must) /\ owned' = owned
    BY Zenon, <1>4, <2>1 DEF StartPush
  <2>3. op'[h].name = "push" /\ op'[h].item = v
    BY <2>2 DEF PushRound
  <2> QED
    BY Zenon, <2>2, <2>3
<1>5. ASSUME NEW h \in Handles, StartPop(h) PROVE Push(h)' /\ Pass(h)'
  <2>1. /\ op'[h].name = "pop" /\ op'[h].ix = offset[h] /\ op'[h].empties = 0
        /\ seen'[h] = Contents /\ Contents' = Contents /\ stride' = stride
    BY <1>5 DEF StartPop, PopRound, Contents, shared, local
  <2>2. PICK a \in Nat : stride[h] = 2 * a + 1
    BY DEF OddStrides
  <2>3. Pipe(offset[h] + 0 * stride[h]) = offset[h]
    BY Zenon, <2>2, Strides
  <2>4. PICK q \in Pipes : q = offset[h]
    OBVIOUS
  <2>5. Passed(h, q)'
    BY SMTT(30), <2>1, <2>3, <2>4 DEF Passed
  <2> QED
    BY Zenon, <2>1, <2>5
<1>6. ASSUME NEW h \in Handles, StartBulk(h) PROVE Push(h)' /\ Pass(h)'
  BY Zenon, <1>6 DEF StartBulk
<1>7. ASSUME NEW h \in Handles, Flush(h) \/ Pushed(h) \/ Popped(h) \/ ReturnEmpty(h) \/ BulkEnd(h)
      PROVE  Push(h)' /\ Pass(h)'
  <2>1. op'[h].name \in {"idle", "flush"}
    <3>1. \E r \in {Idle, [name |-> "flush"]} : op' = [op EXCEPT ![h] = r]
      BY Zenon, <1>7 DEF Flush, Pushed, Popped, ReturnEmpty, BulkEnd, Propagate
    <3>2. Idle.name = "idle" /\ [name |-> "flush"].name = "flush" /\ DOMAIN op = Handles
      BY SMTT(30) DEF Idle
    <3> QED
      BY Zenon, <3>1, <3>2
  <2> QED
    BY Zenon, <2>1
<1>8. ASSUME NEW h \in Handles, PushNextPipe(h) PROVE Push(h)' /\ Pass(h)'
  <2>1. op[h] \in PushOps /\ owned' = owned
    BY <1>8 DEF PushNextPipe, Ops, PushOps, PopOps, BulkOps
  <2>2. op'[h].name = "idle" \/ (op'[h].name = "push" /\ op'[h].item = op[h].item)
    <3> DEFINE o == op[h]
    <3>1. CASE op' = op
      BY Zenon, <2>1, <3>1 DEF PushOps
    <3>2. CASE op' = [op EXCEPT ![h].ix = Pipe(@ + stride[h]), ![h].left = @ - 1]
      BY <2>1, <3>2 DEF PushOps
    <3>3. CASE op' = [op EXCEPT ![h] =
                        IF o.must THEN [o EXCEPT !.ix = offset'[h], !.final = TRUE,
                                                 !.left = push_failures'[h] + 1]
                                  ELSE Idle]
      BY SMTT(30), <2>1, <3>3 DEF PushOps, Idle
    <3> QED
      BY ZenonT(30), <1>8, <3>1, <3>2, <3>3 DEF PushNextPipe
  <2> QED
    BY Zenon, <2>1, <2>2, <1>0 DEF PushOps
<1>9. ASSUME NEW h \in Handles, BulkPushed(h) \/ BulkNextPipe(h) PROVE Push(h)' /\ Pass(h)'
  <2>1. op[h] \in BulkOps
    <3>1. op[h].name = "bulk"
      BY Zenon, <1>9 DEF BulkPushed, BulkNextPipe
    <3> QED
      BY Zenon, <3>1 DEF Ops, PushOps, PopOps, BulkOps
  <2>2. /\ op'[h].name = "bulk"
        /\ \/ op'[h].left = op[h].left /\ owned'[h] = owned[h]
           \/ \E v \in Items : op'[h].left = op[h].left \ {v} /\ owned'[h] = owned[h] \ {v}
    <3>1. CASE BulkPushed(h)
      BY <3>1, <2>1 DEF BulkPushed, BulkOps
    <3>2. CASE BulkNextPipe(h)
      BY SMTT(30), <3>2, <2>1 DEF BulkNextPipe, BulkOps
    <3> QED
      BY Zenon, <1>9, <3>1, <3>2
  <2>3. op[h].left \subseteq owned[h]
    BY Zenon, <2>1, <1>0 DEF BulkOps
  <2> QED
    BY Zenon, <2>2, <2>3
<1>10. ASSUME NEW h \in Handles, PopNextPipe(h) PROVE Push(h)' /\ Pass(h)'
  <2> DEFINE o == op[h]
  <2>1. o \in PopOps /\ items' = items /\ stride' = stride /\ Contents' = Contents
    BY <1>10 DEF PopNextPipe, PopFails, Ops, PushOps, PopOps, BulkOps, Contents
  <2>2. PICK n \in {0, o.empties + 1} :
            IF o.left = 1
            THEN /\ Failed(h, pop_failures)
                 /\ op' = [op EXCEPT ![h] = IF o.loop THEN PopRound(offset'[h], pop_failures'[h], TRUE)
                                                      ELSE Idle]
                 /\ seen' = [seen EXCEPT ![h] = Contents]
            ELSE IF n = Len
            THEN /\ Relaxed(h, pop_failures)
                 /\ op' = [op EXCEPT ![h] = [name |-> "empty"]]
                 /\ UNCHANGED seen
            ELSE /\ op' = [op EXCEPT ![h].ix = Pipe(@ + stride[h]), ![h].left = @ - 1,
                                     ![h].empties = n]
                 /\ UNCHANGED <<offset, pop_failures, seen>>
    BY Zenon, <1>10 DEF PopNextPipe
  <2>3. PICK a \in Nat : stride[h] = 2 * a + 1
    BY DEF OddStrides
  <2>4. /\ \A p \in Pipes : Pipe(p + 0 * stride[h]) = p
        /\ \A p \in Pipes, e \in Nat :
             Pipe(Pipe(p + e * stride[h]) + stride[h]) = Pipe(p + (e + 1) * stride[h])
        /\ \A p, x \in Pipes : \E j \in Pipes : Pipe(p + j * stride[h]) = x
    BY ZenonT(30), <2>3, Strides
  <2>5. CASE o.left = 1
    <3>1. /\ seen'[h] = Contents
          /\ \/ op'[h].name = "idle"
             \/ op'[h].name = "pop" /\ op'[h].ix = offset'[h] /\ op'[h].empties = 0
      BY <2>2, <2>5 DEF PopRound, Idle
    <3>2. PICK q \in Pipes : q = offset'[h]
      OBVIOUS
    <3>4. Pipe(q + 0 * stride'[h]) = q
      BY Zenon, <2>1, <2>4
    <3>3. op'[h].name = "pop" => Passed(h, q)'
      BY SMTT(30), <3>1, <3>2, <3>4 DEF Passed
    <3> QED
      BY Zenon, <3>1, <3>3, <2>1
  <2>6. PICK p \in Pipes : Passed(h, p)
    BY Zenon, <2>1, <1>0 DEF PopOps
  <2>7. o.name = "pop" /\ o.ix \in Pipes /\ o.empties \in 0 .. Len - 1 /\ items[o.ix] = {}
    BY SMTT(30), <1>10, <2>1 DEF PopOps, PopNextPipe, PopFails
  <2>8. \A j \in 0 .. o.empties : items[Pipe(p + j * stride[h])] \cap seen[h] = {}
    BY SMTT(30), <2>6, <2>7 DEF Passed
  <2>9. CASE o.left # 1 /\ n = Len
    <3>1. op'[h] = [name |-> "empty"] /\ seen' = seen
      BY SMTT(30), <2>2, <2>9
    <3>2. o.empties = Len - 1
      BY <2>7, <2>9, BagPipeAssumption
    <3>3. ASSUME NEW v \in seen[h] PROVE FALSE
      <4>1. PICK x \in Pipes : v \in items[x]
        BY <2>7, <1>0 DEF Contents
      <4>2. PICK j \in Pipes : Pipe(p + j * stride[h]) = x
        BY Zenon, <2>4
      <4> QED
        BY ZenonT(30), <2>8, <3>2, <4>1, <4>2 DEF Pipes
    <3> QED
      BY <3>1, <3>3
  <2>10. CASE o.left # 1 /\ n # Len
    <3>1. /\ op'[h].name = "pop" /\ op'[h].ix = Pipe(o.ix + stride[h]) /\ op'[h].empties = n
          /\ seen' = seen
      BY SMTT(30), <2>1, <2>2, <2>10 DEF PopOps
    <3>2. CASE n = 0
      <4>1. o.ix + stride[h] \in Int
        BY SMTT(30), <2>7 DEF Pipes
      <4>2. PICK q \in Pipes : q = Pipe(o.ix + stride[h])
        BY Zenon, <4>1, <1>p
      <4>3. Pipe(q + 0 * stride[h]) = q
        BY Zenon, <4>2, <2>4
      <4>4. Passed(h, q)'
        BY SMTT(30), <2>1, <3>1, <3>2, <4>2, <4>3 DEF Passed
      <4> QED
        BY Zenon, <2>1, <2>7, <3>1, <4>2, <4>4, <1>0
    <3>3. CASE n = o.empties + 1
      <4>1. Pipe(o.ix + stride[h]) = Pipe(p + n * stride[h])
        <5>1. o.ix = Pipe(p + o.empties * stride[h]) /\ o.empties \in Nat
          BY <2>6, <2>7 DEF Passed
        <5>2. Pipe(Pipe(p + o.empties * stride[h]) + stride[h])
                  = Pipe(p + (o.empties + 1) * stride[h])
          BY ZenonT(30), <5>1, <2>4
        <5> QED
          BY ZenonT(30), <5>1, <5>2, <3>3
      <4>2. \A j \in 0 .. n - 1 : items[Pipe(p + j * stride[h])] \cap seen[h] = {}
        BY SMTT(30), <2>7, <2>8, <3>3
      <4>4. Passed(h, p)'
        BY Zenon, <2>1, <3>1, <4>1, <4>2 DEF Passed
      <4> QED
        BY Zenon, <2>1, <2>7, <3>1, <4>4, <1>0
    <3> QED
      BY <2>2, <3>2, <3>3
  <2> QED
    BY Zenon, <2>5, <2>9, <2>10
<1>11. ASSUME CleanItem \/ CleanNext, NEW k \in Handles PROVE Same(k)
  BY Zenon, <1>11, BagPipeAssumption DEF CleanItem, CleanNext, local
<1>12. ASSUME NEW k \in Handles PROVE Push(k)' /\ Pass(k)'
  <2> HIDE DEF Same, Push, Pass
  <2>1. CASE CleanItem \/ CleanNext
    BY <2>1, <1>11, <1>1
  <2>2. ASSUME NEW h \in Handles, NEW g \in Handles,
               \/ Clone(g, h) \/ StartPush(h) \/ StartPop(h) \/ StartBulk(h) \/ Drop(h) \/ Step(h)
        PROVE  Push(k)' /\ Pass(k)'
    <3>1. CASE k # h
      BY Zenon, <2>2, <3>1, <1>1, <1>2
    <3>2. CASE k = h
      BY Zenon, <2>2, <3>2, <1>1, <1>3, <1>4, <1>5, <1>6, <1>7, <1>8, <1>9, <1>10 DEF Step
    <3> QED
      BY Zenon, <3>1, <3>2
  <2> QED
    BY Zenon, <2>1, <2>2 DEF Next
<1> QED
  BY Zenon, <1>12 DEF ToPush, Passes

(* The invariant holds in every state that the handles and the clean-up of *)
(* BagPipe can reach, for any number of handles and items and any power of *)
(* two of pipes.                                                           *)
THEOREM Invariance == Spec => []IInv
<1>1. Init => IInv
  <2> SUFFICES ASSUME Init PROVE IInv
    OBVIOUS
  <2>0. Len \in Nat \ {0} /\ Pipe(1) \in Pipes /\ First \in Handles /\ Cleaner \notin Handles
    BY BagPipeAssumption DEF Pipe, Pipes
  <2>1. Idle \in Ops
    BY SMTT(30) DEF Ops, Idle
  <2>2. Types
    BY <2>0, <2>1 DEF Init, Types
  <2>3. OddStrides
    <3>1. 1 = 2 * 0 + 1
      OBVIOUS
    <3> QED
      BY <3>1 DEF OddStrides, Init
  <2>4. Alone
    BY DEF Alone, Init, Idle
  <2>5. InOnePlace
    BY SMTT(30) DEF InOnePlace, Init
  <2>6. ToPush /\ Passes
    BY Zenon DEF ToPush, Passes, Init, Idle
  <2> QED
    BY <2>2, <2>3, <2>4, <2>5, <2>6 DEF IInv
<1>2. IInv /\ [Next]_vars => IInv'
  <2>0. ASSUME IInv, Next PROVE InOnePlace'
    <3>0. InOnePlace /\ Types /\ ToPush /\ Next /\ Types'
      BY ZenonT(30), <2>0, TypesStep DEF IInv
    <3> USE DEF Types, Threads
    <3>1. CASE Quiet
      BY Zenon, <3>0, <3>1 DEF Quiet, InOnePlace
    <3>2. ASSUME NEW c \in Handles, NEW p \in Pipes, NEW v \in Items, PutIn(c, p, v)
          PROVE  InOnePlace'
      BY SMTT(30), <3>0, <3>2 DEF PutIn, InOnePlace
    <3>3. ASSUME NEW c \in Threads, NEW p \in Pipes, NEW v \in Items, TakeOut(c, p, v)
          PROVE  InOnePlace'
      BY <3>0, <3>3 DEF TakeOut, InOnePlace
    <3> QED
      BY Zenon, <3>0, <3>1, <3>2, <3>3, Moves
  <2>1. ASSUME IInv, Next PROVE IInv'
    BY ZenonT(30), <2>0, <2>1, TypesStep, CallsStep DEF IInv
  <2>2. ASSUME IInv, UNCHANGED vars PROVE IInv'
    <3>1. Contents' = Contents
      BY Zenon, <2>2 DEF vars, shared, Contents
    <3>2. Types' /\ OddStrides'
      BY Zenon, <2>2 DEF IInv, vars, shared, local, Types, OddStrides
    <3>3. Alone' /\ InOnePlace' /\ ToPush'
      BY Zenon, <2>2 DEF IInv, vars, shared, local, Alone, InOnePlace, ToPush
    <3>4. Passes'
      BY Zenon, <2>2, <3>1 DEF IInv, vars, shared, local, Passes, Passed
    <3> QED
      BY Zenon, <3>2, <3>3, <3>4 DEF IInv
  <2> QED
    BY <2>1, <2>2
<1> QED
  BY <1>1, <1>2, PTL DEF Spec

(* A pop that answers Empty, after as many empty pipes in a row as there   *)
(* are pipes, has missed no item that was in the bag during its whole last *)
(* round.                                                                  *)
THEOREM EmptyHonest == Spec => []EmptyIsHonest
<1>1. IInv => EmptyIsHonest
  BY Zenon DEF IInv, Passes, EmptyIsHonest
<1> QED
  BY <1>1, Invariance, PTL

(* BagPipe is a weak bag: push_mut, bulk_add, pop_mut and the clean-up     *)
(* move one item at a time between one thread and the bag, and lose and    *)
(* duplicate none.                                                         *)
THEOREM ImplementsWeakBag == Spec => IsWeakBag
<1>1. Init => Bag!Init
  <2> SUFFICES ASSUME Init PROVE Bag!Init
    OBVIOUS
  <2>1. Contents = {}
    BY DEF Init, Contents
  <2>2. owned = [c \in Threads |-> IF c = First THEN Items ELSE {}] /\ First \in Threads
    BY Zenon, BagPipeAssumption DEF Init, Threads
  <2>3. owned \in [Threads -> SUBSET Items]
    BY <2>2
  <2>4. \A v \in Items : \E c \in Threads : \A d \in Threads : v \in owned[d] <=> d = c
    BY <2>2
  <2> QED
    BY Zenon, <2>1, <2>3, <2>4 DEF Bag!Init, Threads
<1>2. IInv /\ [Next]_vars => [Bag!Next]_<<Contents, owned>>
  <2> SUFFICES ASSUME IInv, [Next]_vars PROVE [Bag!Next]_<<Contents, owned>>
    OBVIOUS
  <2> USE DEF IInv, Types
  <2>1. CASE UNCHANGED vars \/ Quiet
    BY <2>1 DEF vars, shared, Quiet, Contents
  <2>2. ASSUME NEW c \in Handles, NEW p \in Pipes, NEW v \in Items, PutIn(c, p, v)
        PROVE  Bag!Push(c, v)
    BY SMTT(30), <2>2 DEF PutIn, Bag!Push, Contents
  <2>3. ASSUME NEW c \in Threads, NEW p \in Pipes, NEW v \in Items, TakeOut(c, p, v)
        PROVE  Bag!Get(c, v)
    BY SMTT(30), <2>3 DEF TakeOut, Bag!Get, Contents, InOnePlace
  <2>4. CASE Next
    BY Zenon, <2>1, <2>2, <2>3, <2>4, Moves DEF Bag!Next, Threads
  <2> QED
    BY <2>1, <2>4
<1> QED
  BY <1>1, <1>2, Invariance, PTL DEF Spec, IsWeakBag, Bag!Spec
-----------------------------------------------------------------------------
\* The difference a handle has not handed on, with what its bulk_add put in.
Diffs == [h \in Handles |-> cur_diff[h] + InFlight(h)]

Above(n) == IF n > 0 THEN n ELSE 0

\* As many elements as the positive numbers of f add up to over S; the sum.
Units(S, f) == UNION {{h} \X (1 .. f[h]) : h \in S}
Minus(f) == [h \in Handles |-> -f[h]]
Total(S, f) == Cardinality(Units(S, f)) - Cardinality(Units(S, Minus(f)))

\* The counters and the differences together are as many as the items.
Tally ==
    /\ cur_diff \in [Handles -> Int]
    /\ counted \in Int
    /\ \A h \in Handles : h \notin live => cur_diff[h] = 0
    /\ \A h \in Handles : op[h].name # "flush" => Abs(cur_diff[h]) < Threshold
    /\ cleaning = -1 => counted + Total(Handles, Diffs) = Cardinality(Contents)

(* The units of a set of handles are those of one of them and of the rest. *)
LEMMA UnitsOf ==
    ASSUME NEW S \in SUBSET Handles, NEW f \in [Handles -> Int], NEW t \in S
    PROVE  /\ IsFiniteSet(Units(S, f)) /\ Cardinality(Units(S, f)) \in Nat
           /\ Cardinality(Units(S, f)) = Cardinality(Units(S \ {t}, f)) + Above(f[t])
           /\ Cardinality(Units(S \ {t}, f)) \in Nat
<1>0. f[t] \in Int /\ \A h \in Handles : f[h] \in Int
  OBVIOUS
<1>1. ASSUME NEW U \in SUBSET Handles PROVE IsFiniteSet(Units(U, f)) /\ Cardinality(Units(U, f)) \in Nat
  <2> DEFINE Of == [h \in U |-> {h} \X (1 .. f[h])]
             All == {{h} \X (1 .. f[h]) : h \in U}
  <2>1. IsFiniteSet(U)
    BY FS_Subset, BagPipeAssumption, Zenon
  <2>2. Of \in Surjection(U, All)
    BY Zenon DEF Surjection
  <2>3. IsFiniteSet(All)
    <3> HIDE DEF Of, All
    <3> QED
      BY <2>1, <2>2, FS_Surjection, Zenon
  <2>4. ASSUME NEW h \in U PROVE IsFiniteSet({h} \X (1 .. f[h]))
    <3>1. IsFiniteSet({h}) /\ f[h] \in Int
      BY Zenon, FS_Singleton, <1>0
    <3>2. IsFiniteSet(1 .. f[h])
      BY <3>1, FS_Interval
    <3> QED
      BY Zenon, <3>1, <3>2, FS_Product
  <2>5. IsFiniteSet(UNION All)
    <3>1. \A T \in All : IsFiniteSet(T)
      BY Zenon, <2>4
    <3> HIDE DEF All
    <3> QED
      BY <2>3, <3>1, FS_UNION, Zenon
  <2> QED
    BY Zenon, <2>5, FS_CardinalityType DEF Units
<1>2. Units(S, f) = Units(S \ {t}, f) \cup ({t} \X (1 .. f[t]))
  BY Zenon DEF Units
<1>3. Units(S \ {t}, f) \cap ({t} \X (1 .. f[t])) = {}
  BY DEF Units
<1>4. IsFiniteSet({t} \X (1 .. f[t])) /\ Cardinality({t} \X (1 .. f[t])) = Above(f[t])
  <2>1. IsFiniteSet(1 .. f[t]) /\ Cardinality(1 .. f[t]) = Above(f[t])
    BY <1>0, FS_Interval DEF Above
  <2>2. IsFiniteSet({t}) /\ Cardinality({t}) = 1
    BY Zenon, FS_Singleton
  <2>3. IsFiniteSet({t} \X (1 .. f[t])) /\ Cardinality({t} \X (1 .. f[t])) = Cardinality({t}) * Cardinality(1 .. f[t])
    BY Zenon, <2>1, <2>2, FS_Product
  <2> QED
    BY <2>1, <2>2, <2>3, <1>0 DEF Above
<1>5. S \in SUBSET Handles /\ S \ {t} \in SUBSET Handles
  OBVIOUS
<1>6. /\ IsFiniteSet(Units(S, f)) /\ Cardinality(Units(S, f)) \in Nat
      /\ IsFiniteSet(Units(S \ {t}, f)) /\ Cardinality(Units(S \ {t}, f)) \in Nat
  BY Zenon, <1>1, <1>5
<1>7. Cardinality(Units(S \ {t}, f) \cup ({t} \X (1 .. f[t])))
        = Cardinality(Units(S \ {t}, f)) + Cardinality({t} \X (1 .. f[t]))
            - Cardinality(Units(S \ {t}, f) \cap ({t} \X (1 .. f[t])))
  BY <1>4, <1>6, FS_Union, Zenon
<1>8. Cardinality(Units(S, f)) = Cardinality(Units(S \ {t}, f)) + Above(f[t]) - 0
  BY Zenon, <1>2, <1>3, <1>4, <1>7, FS_EmptySet
<1>9. Above(f[t]) \in Int
  BY <1>0 DEF Above
<1> QED
  BY <1>6, <1>8, <1>9

(* So a sum is that of the rest and of the one.                            *)
LEMMA TotalOf ==
    ASSUME NEW S \in SUBSET Handles, NEW f \in [Handles -> Int]
    PROVE  /\ Total({}, f) = 0
           /\ Total(S, f) \in Int
           /\ \A t \in S : Total(S, f) = Total(S \ {t}, f) + f[t] /\ Total(S \ {t}, f) \in Int
<1>1. Total({}, f) = 0
  <2>1. Units({}, f) = {} /\ Units({}, Minus(f)) = {}
    BY DEF Units
  <2> QED
    <3>1. Total({}, f) = 0 - 0
      BY Zenon, <2>1, FS_EmptySet DEF Total
    <3> QED
      BY <3>1
<1>2. Minus(f) \in [Handles -> Int]
  BY SMTT(30) DEF Minus
<1>3. ASSUME NEW t \in S
      PROVE  /\ Total(S, f) = Total(S \ {t}, f) + f[t]
             /\ Total(S, f) \in Int /\ Total(S \ {t}, f) \in Int
  <2>1. /\ Cardinality(Units(S, f)) \in Nat /\ Cardinality(Units(S \ {t}, f)) \in Nat
        /\ Cardinality(Units(S, f)) = Cardinality(Units(S \ {t}, f)) + Above(f[t])
    BY Zenon, UnitsOf
  <2>2. /\ Cardinality(Units(S, Minus(f))) \in Nat /\ Cardinality(Units(S \ {t}, Minus(f))) \in Nat
        /\ Cardinality(Units(S, Minus(f))) = Cardinality(Units(S \ {t}, Minus(f))) + Above(Minus(f)[t])
    BY Zenon, <1>2, UnitsOf
  <2>3. Minus(f)[t] = -f[t] /\ f[t] \in Int
    BY DEF Minus
  <2> QED
    BY <2>1, <2>2, <2>3 DEF Total, Above
<1>4. Total(S, f) \in Int
  <2>1. CASE S = {}
    BY <2>1, <1>1
  <2>2. CASE S # {}
    BY Zenon, <2>2, <1>3
  <2> QED
    BY <2>1, <2>2
<1> QED
  BY Zenon, <1>1, <1>3, <1>4

(* A sum depends on the numbers that are summed.                           *)
LEMMA TotalChange ==
    ASSUME NEW f \in [Handles -> Int], NEW g \in [Handles -> Int],
           NEW t \in Handles, \A s \in Handles : s # t => g[s] = f[s]
    PROVE  Total(Handles, g) - g[t] = Total(Handles, f) - f[t]
<1>1. Units(Handles \ {t}, g) = Units(Handles \ {t}, f)
  BY Zenon DEF Units
<1>2. \A s \in Handles : s # t => Minus(g)[s] = Minus(f)[s]
  BY DEF Minus
<1>3. Units(Handles \ {t}, Minus(g)) = Units(Handles \ {t}, Minus(f))
  BY Zenon, <1>2 DEF Units
<1>4. Total(Handles \ {t}, g) = Total(Handles \ {t}, f)
  BY Zenon, <1>1, <1>3 DEF Total
<1>5. Handles \in SUBSET Handles
  OBVIOUS
<1>6. Total(Handles, g) = Total(Handles \ {t}, g) + g[t] /\ Total(Handles \ {t}, g) \in Int
  BY Zenon, TotalOf, <1>5
<1>7. Total(Handles, f) = Total(Handles \ {t}, f) + f[t] /\ Total(Handles \ {t}, f) \in Int
  BY Zenon, TotalOf, <1>5
<1> QED
  BY <1>4, <1>6, <1>7

(* MapThenSumSet takes the elements of a set in some order; what it adds   *)
(* up to is the sum.                                                       *)
LEMMA SumIsTotal ==
    ASSUME Diffs \in [Handles -> Int], live \in SUBSET Handles
    PROVE  MapThenSumSet(LAMBDA h : cur_diff[h] + InFlight(h), live) = Total(live, Diffs)
<1> DEFINE Body(g) == [s \in SUBSET live |->
                        IF s = {} THEN 0
                        ELSE (cur_diff[CHOOSE x \in s : TRUE] + InFlight(CHOOSE x \in s : TRUE))
                                + g[s \ {CHOOSE x \in s : TRUE}]]
           iter == CHOOSE g : g = Body(g)
           F == [s \in SUBSET live |-> Total(s, Diffs)]
<1>1. MapThenSumSet(LAMBDA h : cur_diff[h] + InFlight(h), live) = iter[live]
  BY Zenon DEF MapThenSumSet, MapThenFoldSet
<1>2. ASSUME NEW s \in SUBSET live
      PROVE  /\ F[s] = Total(s, Diffs)
             /\ s = {} => Total(s, Diffs) = 0
             /\ s # {} => LET x == CHOOSE x \in s : TRUE
                          IN  /\ x \in s /\ s \ {x} \in SUBSET live
                              /\ Total(s, Diffs) = (cur_diff[x] + InFlight(x)) + Total(s \ {x}, Diffs)
  <2>1. s = {} => Total(s, Diffs) = 0
    BY Zenon, TotalOf
  <2>2. ASSUME s # {}
        PROVE  LET x == CHOOSE x \in s : TRUE
               IN  /\ x \in s /\ s \ {x} \in SUBSET live
                   /\ Total(s, Diffs) = (cur_diff[x] + InFlight(x)) + Total(s \ {x}, Diffs)
    <3> DEFINE x == CHOOSE x \in s : TRUE
    <3>1. x \in s
      BY Zenon, <2>2
    <3> HIDE DEF x
    <3>2. s \ {x} \in SUBSET live /\ s \in SUBSET Handles /\ x \in Handles
      BY <3>1
    <3>3. Total(s, Diffs) = Total(s \ {x}, Diffs) + Diffs[x] /\ Total(s \ {x}, Diffs) \in Int
      BY Zenon, <3>1, <3>2, TotalOf
    <3>4. Diffs[x] = cur_diff[x] + InFlight(x) /\ Diffs[x] \in Int
      BY <3>2 DEF Diffs
    <3>5. Total(s, Diffs) = (cur_diff[x] + InFlight(x)) + Total(s \ {x}, Diffs)
      BY <3>3, <3>4
    <3> QED
      BY Zenon, <3>1, <3>2, <3>5 DEF x
  <2> QED
    BY Zenon, <2>1, <2>2
<1>3. F = Body(F)
  <2>1. ASSUME NEW s \in SUBSET live PROVE F[s] = Body(F)[s]
    <3>1. CASE s = {}
      BY Zenon, <3>1, <1>2
    <3>2. CASE s # {}
      <4> DEFINE x == CHOOSE x \in s : TRUE
      <4>1. /\ s \ {x} \in SUBSET live /\ F[s] = Total(s, Diffs)
            /\ Total(s, Diffs) = (cur_diff[x] + InFlight(x)) + Total(s \ {x}, Diffs)
        BY Zenon, <3>2, <1>2
      <4>2. F[s \ {x}] = Total(s \ {x}, Diffs)
        BY Zenon, <4>1
      <4>3. Body(F)[s] = (cur_diff[x] + InFlight(x)) + F[s \ {x}]
        <5> HIDE DEF F
        <5> QED
          BY Zenon, <3>2
      <4> QED
        BY Zenon, <4>1, <4>2, <4>3
    <3> QED
      BY Zenon, <3>1, <3>2
  <2> QED
    BY Zenon, <2>1
<1>4. iter = Body(iter)
  <2> HIDE DEF F
  <2> QED
    BY ZenonT(30), <1>3
<1> HIDE DEF iter
<1> DEFINE Wrong == {n \in Nat : \E s \in SUBSET live : Cardinality(s) = n /\ iter[s] # Total(s, Diffs)}
<1>5. ASSUME NEW s \in SUBSET live PROVE IsFiniteSet(s) /\ Cardinality(s) \in Nat
  <2>1. s \in SUBSET Handles
    OBVIOUS
  <2> QED
    BY <2>1, FS_Subset, FS_CardinalityType, BagPipeAssumption, Zenon
<1>6. Wrong = {}
  <2> SUFFICES ASSUME Wrong # {} PROVE FALSE
    BY Zenon
  <2>0. Wrong \in SUBSET Nat
    BY Zenon
  <2>1. PICK n \in Wrong : \A k \in Wrong : n <= k
    <3> HIDE DEF Wrong
    <3> QED
      BY Zenon, <2>0, Least
  <2>2. PICK s \in SUBSET live : Cardinality(s) = n /\ iter[s] # Total(s, Diffs)
    BY Zenon, <2>1
  <2>3. iter[s] = Body(iter)[s]
    BY Zenon, <1>4
  <2>4. s # {}
    BY Zenon, <2>2, <2>3, <1>2
  <2> DEFINE x == CHOOSE x \in s : TRUE
  <2>5. /\ x \in s /\ s \ {x} \in SUBSET live
        /\ Total(s, Diffs) = (cur_diff[x] + InFlight(x)) + Total(s \ {x}, Diffs)
    BY Zenon, <2>4, <1>2
  <2>6. Body(iter)[s] = (cur_diff[x] + InFlight(x)) + iter[s \ {x}]
    BY Zenon, <2>4
  <2>7. iter[s \ {x}] # Total(s \ {x}, Diffs)
    BY ZenonT(30), <2>2, <2>3, <2>5, <2>6
  <2> HIDE DEF x
  <2>8. Cardinality(s \ {x}) = n - 1 /\ n \in Nat /\ Cardinality(s \ {x}) \in Nat
    BY Zenon, <2>0, <2>1, <2>2, <2>5, <1>5, FS_RemoveElement
  <2>9. Cardinality(s \ {x}) \in Wrong
    BY Zenon, <2>5, <2>7, <2>8
  <2>10. n <= Cardinality(s \ {x})
    BY Zenon, <2>1, <2>9
  <2> QED
    BY <2>8, <2>10
<1>7. iter[live] = Total(live, Diffs)
  <2>1. live \in SUBSET live
    OBVIOUS
  <2> QED
    BY Zenon, <2>1, <1>5, <1>6
<1> QED
  BY Zenon, <1>1, <1>7

(* The differences are integers, and the bag is finite.                    *)
LEMMA Finite ==
    IInv /\ cur_diff \in [Handles -> Int] =>
        Diffs \in [Handles -> Int] /\ IsFiniteSet(Contents) /\ Cardinality(Contents) \in Nat
<1> SUFFICES ASSUME IInv, cur_diff \in [Handles -> Int]
             PROVE  Diffs \in [Handles -> Int] /\ IsFiniteSet(Contents) /\ Cardinality(Contents) \in Nat
  BY ZenonT(30)
<1>1. ASSUME NEW h \in Handles PROVE InFlight(h) \in Int
  BY DEF IInv, Types, InFlight, Ops, PushOps, PopOps, BulkOps
<1>2. Diffs \in [Handles -> Int]
  BY <1>1 DEF Diffs
<1>3. Contents \in SUBSET Items
  BY DEF IInv, Types, Contents
<1> QED
  BY <1>2, <1>3, FS_Subset, FS_CardinalityType, BagPipeAssumption, Zenon

(* What every step of a handle does to the tally: the counter, the         *)
(* difference of the handle and the items in the bag change together.      *)
Tallied(h) ==
    /\ cur_diff' \in [Handles -> Int] /\ counted' \in Int
    /\ \A g \in Handles : g # h => cur_diff'[g] = cur_diff[g] /\ op'[g] = op[g]
    /\ op'[h].name # "flush" => Abs(cur_diff'[h]) < Threshold
    /\ h \notin live' => cur_diff'[h] = 0
    /\ counted' + (cur_diff'[h] + InFlight(h)') + Cardinality(Contents)
         = counted + (cur_diff[h] + InFlight(h)) + Cardinality(Contents')

(* A number of items is an integer, as the counters are.                   *)
LEMMA NatIsInt == \A n : n \in Nat => n \in Int
  OBVIOUS

(* A push, pop or bulk_add that changes a pipe tallies it at its end or    *)
(* still has it in flight; flush moves the difference to the counter.      *)
LEMMA TallyStep ==
    ASSUME IInv, Tally, NEW h \in Handles, NEW g \in Handles,
           \/ Clone(g, h) \/ StartPush(h) \/ StartPop(h) \/ StartBulk(h) \/ Drop(h) \/ Step(h)
    PROVE  Tallied(h)
<1>a. /\ cur_diff \in [Handles -> Int] /\ counted \in Int /\ cur_diff[h] \in Int
      /\ Threshold \in Nat /\ Threshold > 0 /\ op \in [Handles -> Ops] /\ op[h] \in Ops
      /\ op[h].name # "flush" => Abs(cur_diff[h]) < Threshold
      /\ h \notin live => cur_diff[h] = 0
      /\ op[h].name # "idle" => h \in live
  BY BagPipeAssumption DEF Tally, IInv, Types, Alone
<1>b. Idle.name = "idle" /\ [name |-> "flush"].name = "flush" /\ [name |-> "empty"].name = "empty"
  BY SMTT(30) DEF Idle
<1>c. op[h].name = "bulk" => op[h] \in BulkOps /\ op[h].n \in Int
  BY Zenon, <1>a DEF Ops, PushOps, PopOps, BulkOps
<1>d. InFlight(h) \in Int
  BY <1>c DEF InFlight
<1>e. IsFiniteSet(Contents) /\ Cardinality(Contents) \in Nat
  BY Zenon, <1>a, Finite
<1>1. ASSUME UNCHANGED items PROVE Contents' = Contents
  BY Zenon, <1>1 DEF Contents
<1>2. ASSUME NEW p \in Pipes, NEW v \in owned[h], items' = [items EXCEPT ![p] = @ \cup {v}]
      PROVE  Cardinality(Contents') = Cardinality(Contents) + 1
  <2>1. v \notin Contents
    BY Zenon DEF IInv, InOnePlace, Contents
  <2>2. \A q \in Pipes : items'[q] = IF q = p THEN items[q] \cup {v} ELSE items[q]
    BY Zenon, <1>2 DEF IInv, Types
  <2>3. Contents' = Contents \cup {v}
    BY Zenon, <2>2 DEF Contents
  <2> QED
    BY ZenonT(30), <2>1, <2>3, <1>e, FS_AddElement
<1>3. ASSUME NEW p \in Pipes, NEW v \in items[p], items' = [items EXCEPT ![p] = @ \ {v}]
      PROVE  Cardinality(Contents') = Cardinality(Contents) - 1
  <2>1. v \in Contents /\ \A q \in Pipes : v \in items[q] => q = p
    BY Zenon DEF IInv, InOnePlace, Contents
  <2>2. \A q \in Pipes : items'[q] = IF q = p THEN items[q] \ {v} ELSE items[q]
    BY Zenon, <1>3 DEF IInv, Types
  <2>3. Contents' = Contents \ {v}
    BY ZenonT(30), <2>1, <2>2 DEF Contents
  <2> QED
    BY ZenonT(30), <2>1, <2>3, <1>e, FS_RemoveElement
\* Steps that count nothing.
<1>4. ASSUME UNCHANGED <<items, counted, cur_diff>>, h \in live' \/ live' = live,
             \A s \in Handles : s # h => op'[s] = op[s],
             op'[h].name # "flush", op[h].name # "flush", InFlight(h)' = InFlight(h)
      PROVE  Tallied(h)
  BY Zenon, <1>1, <1>4, <1>a DEF Tallied
<1>5. CASE Clone(g, h)
  <2>1. /\ UNCHANGED <<items, counted, cur_diff, op>> /\ live' = live \cup {h}
    BY Zenon, <1>5 DEF Clone, shared
  <2>2. h \notin live
    BY Zenon, <1>5 DEF Clone, IInv, Alone
  <2>3. op[h].name # "flush"
    BY Zenon, <2>2, <1>a
  <2> QED
    BY Zenon, <2>1, <2>3, <1>4 DEF InFlight
<1>6. CASE StartPush(h) \/ StartPop(h) \/ StartBulk(h)
  <2>1. UNCHANGED <<items, counted, cur_diff, live>> /\ op[h] = Idle
    BY Zenon, <1>6 DEF StartPush, StartPop, StartBulk, shared, local, Ready
  <2>2. \E o : /\ op' = [op EXCEPT ![h] = o] /\ o.name \in {"push", "pop", "bulk"}
               /\ o.name = "bulk" => o.n = 0
    <3>1. \A v, m : PushRound(h, v, m).name = "push"
      BY Zenon DEF PushRound
    <3>2. \A l : PopRound(offset[h], pop_failures[h], l).name = "pop"
      BY Zenon DEF PopRound
    <3>3. CASE StartPush(h)
      BY Zenon, <3>1, <3>3 DEF StartPush
    <3>4. CASE StartPop(h)
      BY Zenon, <3>2, <3>4 DEF StartPop
    <3>5. CASE StartBulk(h)
      <4> DEFINE o == [name |-> "bulk", left |-> owned[h], ix |-> offset[h], n |-> 0]
      <4>1. o.name = "bulk" /\ o.n = 0 /\ op' = [op EXCEPT ![h] = o]
        BY Zenon, <3>5 DEF StartBulk
      <4> HIDE DEF o
      <4> QED
        BY Zenon, <4>1
    <3> QED
      BY Zenon, <1>6, <3>3, <3>4, <3>5
  <2>3. /\ op'[h].name \in {"push", "pop", "bulk"}
        /\ op'[h].name = "bulk" => op'[h].n = 0
        /\ \A s \in Handles : s # h => op'[s] = op[s]
    BY ZenonT(30), <2>2, <1>a
  <2>4. InFlight(h) = 0 /\ InFlight(h)' = 0
    BY Zenon, <2>1, <2>3, <1>b DEF InFlight
  <2>5. op[h].name # "flush" /\ op'[h].name # "flush"
    BY Zenon, <2>1, <2>3, <1>b
  <2> QED
    BY Zenon, <2>1, <2>3, <2>4, <2>5, <1>4
<1>7. CASE Drop(h)
  <2>1. /\ counted' = counted + cur_diff[h] /\ cur_diff' = [cur_diff EXCEPT ![h] = 0]
        /\ UNCHANGED <<items, op>> /\ op[h] = Idle
    BY ZenonT(30), <1>7 DEF Drop, AddToCounter, Ready
  <2>2. InFlight(h) = 0 /\ InFlight(h)' = 0
    BY Zenon, <2>1, <1>b DEF InFlight
  <2>3. Contents' = Contents
    BY ZenonT(30), <2>1, <1>1
  <2> QED
    BY <2>1, <2>2, <2>3, <1>a, <1>e DEF Tallied, Abs
<1>8. CASE Flush(h)
  <2>1. /\ counted' = counted + cur_diff[h] /\ cur_diff' = [cur_diff EXCEPT ![h] = 0]
        /\ UNCHANGED items /\ op' = [op EXCEPT ![h] = Idle] /\ op[h].name = "flush"
    BY ZenonT(30), <1>8 DEF Flush, AddToCounter
  <2>2. InFlight(h) = 0 /\ InFlight(h)' = 0
    BY Zenon, <2>1, <1>a, <1>b DEF InFlight
  <2>3. Contents' = Contents
    BY Zenon, <2>1, <1>1
  <2> QED
    BY <2>1, <2>2, <2>3, <1>a, <1>e DEF Tallied, Abs
\* propagate_diff.
<1>9. ASSUME NEW d \in Int, Propagate(h, d), UNCHANGED <<counted, live>>, h \in live,
             Cardinality(Contents') \in Int,
             Cardinality(Contents') + InFlight(h) = Cardinality(Contents) + d
      PROVE  Tallied(h)
  <2>1. /\ cur_diff' = [cur_diff EXCEPT ![h] = @ + d]
        /\ op' = [op EXCEPT ![h] = IF Abs(cur_diff[h] + d) >= Threshold THEN [name |-> "flush"]
                                                                        ELSE Idle]
    BY ZenonT(30), <1>9 DEF Propagate
  <2>2. cur_diff'[h] = cur_diff[h] + d /\ cur_diff' \in [Handles -> Int]
    BY <2>1, <1>a
  <2>3. /\ op'[h].name \in {"flush", "idle"}
        /\ op'[h].name # "flush" => Abs(cur_diff'[h]) < Threshold
    <3>1. CASE Abs(cur_diff[h] + d) >= Threshold
      BY Zenon, <2>1, <3>1, <1>a, <1>b
    <3>2. CASE ~ (Abs(cur_diff[h] + d) >= Threshold)
      <4>1. op'[h] = Idle
        BY ZenonT(30), <2>1, <3>2, <1>a
      <4>2. Abs(cur_diff[h] + d) < Threshold
        BY SMTT(30), <3>2, <1>a DEF Abs
      <4> QED
        BY Zenon, <4>1, <4>2, <2>2, <1>b
    <3> QED
      BY Zenon, <3>1, <3>2
  <2>4. InFlight(h)' = 0
    BY Zenon, <2>3 DEF InFlight
  <2>5. \A s \in Handles : s # h => cur_diff'[s] = cur_diff[s] /\ op'[s] = op[s]
    BY ZenonT(30), <2>1, <1>a
  <2>6. counted' + (cur_diff'[h] + InFlight(h)') + Cardinality(Contents)
         = counted + (cur_diff[h] + InFlight(h)) + Cardinality(Contents')
    BY <2>2, <2>4, <1>9, <1>a, <1>d, <1>e
  <2> QED
    BY Zenon, <2>2, <2>3, <2>5, <2>6, <1>9, <1>a DEF Tallied
<1>10. CASE Pushed(h)
  <2>1. /\ op[h].name = "push" /\ PushOk(op[h].ix, op[h].item) /\ Propagate(h, 1)
        /\ UNCHANGED <<counted, live>>
    BY Zenon, <1>10 DEF Pushed
  <2>2. op[h].ix \in Pipes /\ op[h].item \in owned[h]
    BY ZenonT(30), <2>1, <1>a DEF IInv, ToPush, Ops, PushOps, PopOps, BulkOps
  <2>3. Cardinality(Contents') = Cardinality(Contents) + 1
    BY ZenonT(30), <2>1, <2>2, <1>2 DEF PushOk
  <2>4. InFlight(h) = 0 /\ h \in live
    BY Zenon, <2>1, <1>a DEF InFlight
  <2>5. Cardinality(Contents') \in Int /\ Cardinality(Contents') + InFlight(h) = Cardinality(Contents) + 1
    BY <2>3, <2>4, <1>e
  <2>6. PICK d \in Int : d = 1
    OBVIOUS
  <2> QED
    BY Zenon, <2>1, <2>4, <2>5, <2>6, <1>9
<1>11. CASE Popped(h)
  <2>1. /\ op[h].name = "pop" /\ Propagate(h, -1) /\ UNCHANGED <<counted, live>>
        /\ \E v \in items[op[h].ix] : PopOk(op[h].ix, v)
    BY ZenonT(30), <1>11 DEF Popped
  <2>2. op[h].ix \in Pipes
    BY ZenonT(30), <2>1, <1>a DEF Ops, PushOps, PopOps, BulkOps
  <2>3. Cardinality(Contents') = Cardinality(Contents) - 1
    BY ZenonT(30), <2>1, <2>2, <1>3 DEF PopOk
  <2>4. InFlight(h) = 0 /\ h \in live
    BY ZenonT(30), <2>1, <1>a DEF InFlight
  <2>5. Cardinality(Contents') \in Int /\ Cardinality(Contents') + InFlight(h) = Cardinality(Contents) + (-1)
    BY <2>3, <2>4, <1>e
  <2>6. PICK d \in Int : d = -1
    OBVIOUS
  <2> QED
    BY Zenon, <2>1, <2>4, <2>5, <2>6, <1>9
<1>12. CASE BulkPushed(h)
  <2>1. PICK v \in op[h].left :
           /\ op[h].name = "bulk" /\ PushOk(op[h].ix, v)
           /\ op' = [op EXCEPT ![h].left = @ \ {v}, ![h].ix = Pipe(@ + stride[h]), ![h].n = @ + 1]
           /\ UNCHANGED <<counted, live, cur_diff>>
    BY Zenon, <1>12 DEF BulkPushed, local
  <2>2. op[h].ix \in Pipes /\ v \in owned[h]
    BY <2>1, <1>c DEF IInv, ToPush, BulkOps
  <2>3. Cardinality(Contents') = Cardinality(Contents) + 1
    BY Zenon, <2>1, <2>2, <1>2 DEF PushOk
  <2>4. /\ op'[h].name = "bulk" /\ op'[h].n = op[h].n + 1
        /\ \A s \in Handles : s # h => op'[s] = op[s]
    BY <2>1, <1>a, <1>c DEF BulkOps
  <2>5. InFlight(h) = op[h].n /\ InFlight(h)' = op[h].n + 1
    BY <2>1, <2>4 DEF InFlight
  <2>6. counted' + (cur_diff'[h] + InFlight(h)') + Cardinality(Contents)
         = counted + (cur_diff[h] + InFlight(h)) + Cardinality(Contents')
    BY <2>1, <2>3, <2>5, <1>a, <1>c, <1>e
  <2> QED
    BY Zenon, <2>1, <2>4, <2>6, <1>a DEF Tallied
<1>13. CASE BulkEnd(h)
  <2>1. op[h].name = "bulk" /\ Propagate(h, op[h].n) /\ UNCHANGED <<items, counted, live>>
    BY ZenonT(30), <1>13 DEF BulkEnd, shared
  <2>2. InFlight(h) = op[h].n /\ op[h].n \in Int /\ h \in live
    BY Zenon, <2>1, <1>a, <1>c DEF InFlight
  <2>3. Contents' = Contents
    BY Zenon, <2>1, <1>1
  <2>4. PICK d \in Int : op[h].n = d
    BY Zenon, <2>2
  <2>5. Propagate(h, d) /\ InFlight(h) = d
    BY Zenon, <2>1, <2>2, <2>4
  <2>6. Cardinality(Contents') \in Int /\ Cardinality(Contents') + d = Cardinality(Contents) + d
    BY Zenon, <2>3, <1>e, NatIsInt
  <2>7. Cardinality(Contents') + InFlight(h) = Cardinality(Contents) + d
    BY Zenon, <2>5, <2>6
  <2> QED
    BY Zenon, <2>1, <2>2, <2>5, <2>6, <2>7, <1>9
<1>14. CASE PushNextPipe(h) \/ PopNextPipe(h) \/ ReturnEmpty(h) \/ BulkNextPipe(h)
  <2>1. UNCHANGED <<items, counted, cur_diff, live>>
    BY Zenon, <1>14 DEF PushNextPipe, PopNextPipe, ReturnEmpty, BulkNextPipe, PushFails, PopFails,
       shared, local
  <2>2. ASSUME PushNextPipe(h)
        PROVE  /\ op[h].name = "push" /\ op'[h].name \in {"push", "idle"}
               /\ \A s \in Handles : s # h => op'[s] = op[s]
    <3>1. op[h].name = "push" /\ op[h] \in PushOps
      BY <2>2, <1>a DEF PushNextPipe, Ops, PushOps, PopOps, BulkOps
    <3>2. \E o : op' = [op EXCEPT ![h] = o] /\ o.name \in {"push", "idle"}
      <4>1. CASE op[h].final /\ op[h].left = 1
        <5>1. op' = [op EXCEPT ![h] = op[h]]
          BY <2>2, <4>1, <1>a DEF PushNextPipe
        <5> QED
          BY Zenon, <5>1, <3>1
      <4>2. CASE ~ (op[h].final /\ op[h].left = 1) /\ op[h].left > 1
        <5>1. op' = [op EXCEPT ![h].ix = Pipe(@ + stride[h]), ![h].left = @ - 1]
          BY Zenon, <2>2, <4>2 DEF PushNextPipe
        <5>2. op' = [op EXCEPT ![h] = [op[h] EXCEPT !.ix = Pipe(@ + stride[h]), !.left = @ - 1]]
          BY Zenon, <5>1, <1>a
        <5>3. [op[h] EXCEPT !.ix = Pipe(@ + stride[h]), !.left = @ - 1].name = "push"
          BY <3>1 DEF PushOps
        <5> QED
          BY Zenon, <5>2, <5>3
      <4>3. CASE ~ (op[h].final /\ op[h].left = 1) /\ ~ (op[h].left > 1)
        <5>1. op' = [op EXCEPT ![h] =
                        IF op[h].must THEN [op[h] EXCEPT !.ix = offset'[h], !.final = TRUE,
                                                 !.left = push_failures'[h] + 1]
                                  ELSE Idle]
          BY Zenon, <2>2, <4>3 DEF PushNextPipe
        <5>2. [op[h] EXCEPT !.ix = offset'[h], !.final = TRUE, !.left = push_failures'[h] + 1].name = "push"
          BY <3>1 DEF PushOps
        <5> QED
          BY Zenon, <5>1, <5>2, <1>b
      <4> QED
        BY Zenon, <4>1, <4>2, <4>3
    <3> QED
      BY Zenon, <3>1, <3>2, <1>a
  <2>3. ASSUME PopNextPipe(h)
        PROVE  /\ op[h].name = "pop" /\ op'[h].name \in {"pop", "idle", "empty"}
               /\ \A s \in Handles : s # h => op'[s] = op[s]
    BY <2>3, <1>a, <1>b DEF PopNextPipe, PopRound, Ops, PushOps, PopOps, BulkOps
  <2>4. ASSUME ReturnEmpty(h)
        PROVE  /\ op[h].name = "empty" /\ op'[h].name = "idle"
               /\ \A s \in Handles : s # h => op'[s] = op[s]
    BY Zenon, <2>4, <1>a, <1>b DEF ReturnEmpty
  <2>5. ASSUME BulkNextPipe(h)
        PROVE  /\ op[h].name = "bulk" /\ op'[h].name = "bulk" /\ op'[h].n = op[h].n
               /\ \A s \in Handles : s # h => op'[s] = op[s]
    BY <2>5, <1>a, <1>c DEF BulkNextPipe, BulkOps
  <2>6. /\ op[h].name # "flush" /\ op'[h].name # "flush" /\ InFlight(h)' = InFlight(h)
        /\ \A s \in Handles : s # h => op'[s] = op[s]
    <3>1. CASE BulkNextPipe(h)
      BY ZenonT(30), <3>1, <2>5 DEF InFlight
    <3>2. CASE PushNextPipe(h) \/ PopNextPipe(h) \/ ReturnEmpty(h)
      BY Zenon, <3>2, <2>2, <2>3, <2>4 DEF InFlight
    <3> QED
      BY ZenonT(30), <1>14, <3>1, <3>2
  <2> QED
    BY Zenon, <2>1, <2>6, <1>4
<1> QED
  BY ZenonT(30), <1>5, <1>6, <1>7, <1>8, <1>10, <1>11, <1>12, <1>13, <1>14 DEF Step

(* Until the last handle is dropped, the counters and what the handles     *)
(* have not handed on add up to the items in the bag.                      *)
THEOREM Counting == Spec => []Tally
<1>1. Init => Tally
  <2> SUFFICES ASSUME Init PROVE Tally
    BY Zenon
  <2>0. Threshold \in Nat /\ Threshold > 0
    BY BagPipeAssumption
  <2>1. /\ cur_diff = [h \in Handles |-> 0] /\ counted = 0 /\ op = [h \in Handles |-> Idle]
        /\ items = [p \in Pipes |-> {}]
    BY Zenon DEF Init
  <2>2. Diffs = [h \in Handles |-> 0]
    BY <2>1 DEF Diffs, InFlight, Idle
  <2>3. Units(Handles, Diffs) = {} /\ Units(Handles, Minus(Diffs)) = {}
    BY <2>2 DEF Units, Minus
  <2>4. Contents = {}
    BY Zenon, <2>1 DEF Contents
  <2>5. counted + Total(Handles, Diffs) = Cardinality(Contents)
    BY <2>1, <2>3, <2>4, FS_EmptySet DEF Total
  <2> QED
    BY <2>0, <2>1, <2>5 DEF Tally, Abs
<1>2. ASSUME IInv, IInv', Tally, Next PROVE Tally'
  <2>0. IInv' /\ cur_diff' \in [Handles -> Int] =>
          Diffs' \in [Handles -> Int] /\ Cardinality(Contents') \in Nat
    <3>1. (IInv /\ cur_diff \in [Handles -> Int] =>
             Diffs \in [Handles -> Int] /\ IsFiniteSet(Contents) /\ Cardinality(Contents) \in Nat)'
      BY Finite, PTL
    <3> QED
      BY Zenon, <3>1
  <2>1. Diffs \in [Handles -> Int]
    BY Zenon, <1>2, Finite DEF Tally
  <2>2. ASSUME NEW h \in Handles, Tallied(h), cleaning' = -1 => cleaning = -1,
               \A g \in Handles : g # h => (g \in live' <=> g \in live)
        PROVE  Tally'
    <3>1. /\ cur_diff' \in [Handles -> Int] /\ counted' \in Int
          /\ \A g \in Handles : g # h => cur_diff'[g] = cur_diff[g] /\ op'[g] = op[g]
          /\ op'[h].name # "flush" => Abs(cur_diff'[h]) < Threshold
          /\ h \notin live' => cur_diff'[h] = 0
          /\ counted' + (cur_diff'[h] + InFlight(h)') + Cardinality(Contents)
               = counted + (cur_diff[h] + InFlight(h)) + Cardinality(Contents')
      BY Zenon, <2>2 DEF Tallied
    <3>2. \A g \in Handles : g \notin live' => cur_diff'[g] = 0
      BY Zenon, <1>2, <2>2, <3>1 DEF Tally
    <3>3. \A g \in Handles : op'[g].name # "flush" => Abs(cur_diff'[g]) < Threshold
      BY Zenon, <1>2, <3>1 DEF Tally
    <3>4. Diffs' \in [Handles -> Int]
      BY ZenonT(30), <1>2, <2>0, <3>1
    <3>5. \A g \in Handles : g # h => Diffs'[g] = Diffs[g]
      BY Zenon, <3>1 DEF Diffs, InFlight
    <3>6. Total(Handles, Diffs') - Diffs'[h] = Total(Handles, Diffs) - Diffs[h]
      BY Zenon, <2>1, <3>4, <3>5, TotalChange
    <3>7. Total(Handles, Diffs') \in Int /\ Total(Handles, Diffs) \in Int
      <4>1. Handles \in SUBSET Handles
        OBVIOUS
      <4> QED
        BY Zenon, <4>1, <2>1, <3>4, TotalOf
    <3>8. /\ Diffs[h] = cur_diff[h] + InFlight(h) /\ Diffs'[h] = cur_diff'[h] + InFlight(h)'
          /\ Diffs[h] \in Int /\ Diffs'[h] \in Int
      BY Zenon, <2>1, <3>4 DEF Diffs
    <3>9. cleaning = -1 => counted + Total(Handles, Diffs) = Cardinality(Contents)
      BY Zenon, <1>2 DEF Tally
    <3>10. counted \in Int /\ Cardinality(Contents) \in Int /\ Cardinality(Contents') \in Int
      <4>1. Cardinality(Contents) \in Nat /\ counted \in Int
        BY Zenon, <1>2, Finite DEF Tally
      <4>2. Cardinality(Contents') \in Nat
        BY ZenonT(30), <1>2, <2>0, <3>1
      <4> QED
        BY <4>1, <4>2
    <3>11. cleaning' = -1 => counted' + Total(Handles, Diffs') = Cardinality(Contents')
      <4> DEFINE T == Total(Handles, Diffs)
                 T1 == Total(Handles, Diffs')
                 D == Diffs[h]
                 D1 == Diffs'[h]
                 n == Cardinality(Contents)
                 n1 == Cardinality(Contents')
                 k == counted
                 k1 == counted'
      <4>1. /\ T \in Int /\ T1 \in Int /\ D \in Int /\ D1 \in Int /\ n \in Int /\ n1 \in Int
            /\ k \in Int /\ k1 \in Int
            /\ k1 + D1 + n = k + D + n1 /\ T1 - D1 = T - D /\ (cleaning' = -1 => k + T = n)
        BY Zenon, <2>2, <3>1, <3>6, <3>7, <3>8, <3>9, <3>10
      <4>2. cleaning' = -1 => k1 + T1 = n1
        <5> HIDE DEF T, T1, D, D1, n, n1, k, k1
        <5> QED
          BY <4>1
      <4> QED
        BY Zenon, <4>2
    <3>12. Total(Handles, Diffs)' = Total(Handles, Diffs')
      BY Zenon DEF Total, Units, Minus
    <3>13. cleaning' = -1 => counted' + Total(Handles, Diffs)' = Cardinality(Contents)'
      BY Zenon, <3>11, <3>12
    <3> QED
      BY Zenon, <3>1, <3>2, <3>3, <3>13 DEF Tally
  <2>3. ASSUME NEW g \in Handles, NEW h \in Handles, Clone(g, h) PROVE Tally'
    <3>1. cleaning' = cleaning /\ live' = live \cup {h}
      BY Zenon, <2>3 DEF Clone
    <3> QED
      BY Zenon, <1>2, <2>2, <2>3, <3>1, TallyStep
  <2>4. ASSUME NEW h \in Handles, StartPush(h) \/ StartPop(h) \/ StartBulk(h) \/ Drop(h) \/ Step(h)
        PROVE  Tally'
    <3>1. CASE Drop(h)
      <4>1. live' = live \ {h} /\ cleaning' = IF live = {h} THEN 0 ELSE cleaning
        BY Zenon, <3>1 DEF Drop
      <4>2. cleaning' = -1 => cleaning = -1
        BY <4>1
      <4> QED
        BY Zenon, <1>2, <2>2, <2>4, <4>1, <4>2, TallyStep
    <3>2. CASE StartPush(h) \/ StartPop(h) \/ StartBulk(h) \/ Step(h)
      <4>1. cleaning' = cleaning /\ live' = live
        BY Zenon, <3>2 DEF StartPush, StartPop, StartBulk, Step, Flush, Pushed, PushNextPipe, Popped,
           PopNextPipe, ReturnEmpty, BulkPushed, BulkNextPipe, BulkEnd
      <4> QED
        BY Zenon, <1>2, <2>2, <2>4, <4>1, TallyStep
    <3> QED
      BY Zenon, <2>4, <3>1, <3>2
  <2>5. CASE CleanItem \/ CleanNext
    <3>1. UNCHANGED <<counted, live, cur_diff, op>>
      BY ZenonT(30), <2>5 DEF CleanItem, CleanNext, local
    <3>2. \E n \in Pipes : cleaning' = n \/ cleaning' = n + 1
      BY ZenonT(30), <2>5 DEF CleanItem, CleanNext
    <3>3. cleaning' # -1
      BY <3>2 DEF Pipes
    <3> QED
      BY Zenon, <1>2, <3>1, <3>3 DEF Tally
  <2> QED
    BY Zenon, <1>2, <2>3, <2>4, <2>5 DEF Next
<1>3. ASSUME Tally, UNCHANGED vars PROVE Tally'
  BY Zenon, <1>3 DEF Tally, vars, shared, local, Diffs, InFlight, Contents
<1>4. IInv /\ IInv' /\ Tally /\ [Next]_vars => Tally'
  BY Zenon, <1>2, <1>3
<1> QED
  BY <1>1, <1>4, Invariance, PTL DEF Spec

(* size_guess is off by what the handles have not handed on, and by no     *)
(* more, and each has less than the threshold: whatever the handles do at  *)
(* the same time, clones and drops included.                               *)
THEOREM GuessIsExact == Spec => []GuessIsClose
<1>1. IInv /\ Tally => GuessIsClose
  <2> SUFFICES ASSUME IInv, Tally, cleaning = -1
               PROVE  /\ counted + MapThenSumSet(LAMBDA h : cur_diff[h] + InFlight(h), live)
                           = Cardinality(Contents)
                      /\ \A h \in live : op[h].name # "flush" => Abs(cur_diff[h]) < Threshold
    BY Zenon DEF GuessIsClose
  <2>1. Diffs \in [Handles -> Int] /\ live \in SUBSET Handles
    BY ZenonT(30), Finite DEF IInv, Types, Tally
  <2>2. \A h \in Handles \ live : Diffs[h] = 0
    BY DEF IInv, Alone, Tally, Diffs, InFlight
  <2>3. Total(live, Diffs) = Total(Handles, Diffs)
    <3>1. ASSUME NEW f, \A h \in Handles \ live : f[h] = 0 PROVE Units(live, f) = Units(Handles, f)
      <4>1. \A h \in Handles \ live : 1 .. f[h] = {}
        BY <3>1
      <4> QED
        BY <4>1, <2>1 DEF Units
    <3>2. \A h \in Handles \ live : Minus(Diffs)[h] = 0
      BY <2>2 DEF Minus
    <3>3. Units(live, Diffs) = Units(Handles, Diffs)
      BY Zenon, <2>2, <3>1
    <3>4. Units(live, Minus(Diffs)) = Units(Handles, Minus(Diffs))
      BY Zenon, <3>2, <3>1
    <3> QED
      BY Zenon, <3>3, <3>4 DEF Total
  <2>4. MapThenSumSet(LAMBDA h : cur_diff[h] + InFlight(h), live) = Total(live, Diffs)
    BY Zenon, <2>1, SumIsTotal
  <2> QED
    BY Zenon, <2>1, <2>3, <2>4 DEF Tally
<1> QED
  BY <1>1, Invariance, Counting, PTL
=============================================================================
