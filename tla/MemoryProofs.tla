---------------------------- MODULE MemoryProofs ----------------------------
(***************************************************************************)
(* The C functions and the sources of pages keep what MallocBindPart and   *)
(* SourcesPart state of them, for every value of the constants. Each part  *)
(* has an inductive invariant that says who has an address at every point  *)
(* of a call: the theorems follow from it, and each action keeps it because*)
(* it only touches what its thread has.                                    *)
(***************************************************************************)
EXTENDS MallocBindPart, SourcesPart, TLAPS

(* A power of two that an alignment can be (is_power_of_two) is not 0.     *)
LEMMA PowersPositive == ASSUME NEW k \in 0 .. 30 PROVE 2 ^ k > 0
<1>1. \/ k = 0 \/ k = 1 \/ k = 2 \/ k = 3 \/ k = 4 \/ k = 5 \/ k = 6 \/ k = 7
      \/ k = 8 \/ k = 9 \/ k = 10 \/ k = 11 \/ k = 12 \/ k = 13 \/ k = 14 \/ k = 15
      \/ k = 16 \/ k = 17 \/ k = 18 \/ k = 19 \/ k = 20 \/ k = 21 \/ k = 22 \/ k = 23
      \/ k = 24 \/ k = 25 \/ k = 26 \/ k = 27 \/ k = 28 \/ k = 29 \/ k = 30
  OBVIOUS
<1>2. /\ 2 ^ 0 > 0 /\ 2 ^ 1 > 0 /\ 2 ^ 2 > 0 /\ 2 ^ 3 > 0 /\ 2 ^ 4 > 0 /\ 2 ^ 5 > 0
      /\ 2 ^ 6 > 0 /\ 2 ^ 7 > 0 /\ 2 ^ 8 > 0 /\ 2 ^ 9 > 0 /\ 2 ^ 10 > 0 /\ 2 ^ 11 > 0
      /\ 2 ^ 12 > 0 /\ 2 ^ 13 > 0 /\ 2 ^ 14 > 0 /\ 2 ^ 15 > 0 /\ 2 ^ 16 > 0 /\ 2 ^ 17 > 0
      /\ 2 ^ 18 > 0 /\ 2 ^ 19 > 0 /\ 2 ^ 20 > 0 /\ 2 ^ 21 > 0 /\ 2 ^ 22 > 0 /\ 2 ^ 23 > 0
      /\ 2 ^ 24 > 0 /\ 2 ^ 25 > 0 /\ 2 ^ 26 > 0 /\ 2 ^ 27 > 0 /\ 2 ^ 28 > 0 /\ 2 ^ 29 > 0
      /\ 2 ^ 30 > 0
  OBVIOUS
<1> QED BY Zenon, <1>1, <1>2

(* What % and \div compute, as the size and alignment arithmetic uses them.*)
LEMMA Division ==
    ASSUME NEW n \in Nat, NEW m \in Nat \ {0}
    PROVE  /\ n % m \in 0 .. m - 1 /\ n \div m \in Nat
           /\ n = m * (n \div m) + (n % m)
  OBVIOUS

(* A multiple of m has no remainder.                                       *)
LEMMA Multiple ==
    ASSUME NEW q \in Nat, NEW m \in Nat \ {0}
    PROVE  (m * q) % m = 0
  OBVIOUS

(* roundup (malloc-bind) gives a positive multiple of the alignment that is*)
(* no smaller than the size.                                               *)
LEMMA Roundup ==
    ASSUME NEW n \in Nat, NEW m \in Nat \ {0}
    PROVE  /\ C!roundup(n, m) \in Nat /\ C!roundup(n, m) >= n /\ C!roundup(n, m) > 0
           /\ C!roundup(n, m) % m = 0
<1>1. C!roundup(n, m) \in Nat /\ C!roundup(n, m) >= n /\ C!roundup(n, m) > 0
  BY Division DEF C!roundup
<1>2. m % m = 0
  BY Multiple
<1>3. CASE n # 0 /\ n % m # 0
  <2> DEFINE q == n \div m
  <2>1. q \in Nat /\ n = m * q + (n % m) /\ n % m \in Nat
    BY Division
  <2> HIDE DEF q
  <2>2. m * (q + 1) = m * q + m /\ q + 1 \in Nat
    BY <2>1
  <2>3. m * q \in Nat
    BY <2>1
  <2>4. n + m - (n % m) = m * (q + 1)
    BY <2>1, <2>2, <2>3
  <2>5. (m * (q + 1)) % m = 0
    BY <2>2, Multiple
  <2> QED BY <2>4, <2>5, <1>1, <1>3 DEF C!roundup
<1> QED BY <1>1, <1>2, <1>3 DEF C!roundup

CLayouts == Nat \X Nat
CPoints == {"idle", "insert", "delete", "dealloc", "realloc", "moved"}
CRecords ==
    [at : CPoints, ptr : Ptrs \cup {0}, layout : CLayouts, need : CLayouts, old : CLayouts,
     fail : BOOLEAN]
Busy(t) == call[t].at # "idle"

CTypes ==
    /\ os \in C!Systems
    /\ heap \in [Ptrs -> CLayouts] /\ finder \in [Ptrs -> CLayouts]
    /\ owned \subseteq [ptr : Ptrs, need : CLayouts]
    /\ call \in [Threads -> CRecords]
    /\ \A t \in Threads : Busy(t) => call[t].ptr \in Ptrs

\* The C!Layout l of an object at p is good for what the caller needs.
Meets(l, need, p) ==
    /\ l[1] >= need[1] /\ l[1] > 0
    /\ l[1] % l[2] = 0 /\ p % need[2] = 0

COwners ==
    /\ \A o, q \in owned : o.ptr = q.ptr => o = q
    /\ \A o \in owned, t \in Threads : Busy(t) => call[t].ptr # o.ptr
    /\ \A t, u \in Threads : Busy(t) /\ Busy(u) /\ call[t].ptr = call[u].ptr => t = u

CLive ==
    \A p \in Ptrs : heap[p] # C!None => \/ \E o \in owned : o.ptr = p
                                      \/ \E t \in Threads : Busy(t) /\ call[t].ptr = p

ObjectOk(o) == finder[o.ptr] = heap[o.ptr] /\ Meets(heap[o.ptr], o.need, o.ptr)
COwned == \A o \in owned : ObjectOk(o)

CallOk(t) ==
    /\ Busy(t) => call[t].layout = heap[call[t].ptr] /\ call[t].layout[1] > 0
    /\ call[t].at \in {"insert", "moved"} => Meets(call[t].layout, call[t].need, call[t].ptr)
    /\ call[t].at = "realloc" =>
        /\ finder[call[t].ptr] = heap[call[t].ptr]
        /\ Meets(call[t].layout, call[t].old, call[t].ptr)
        /\ call[t].need[2] = C!MIN_ALIGN
CCalls == \A t \in Threads : CallOk(t)

CInv == CTypes /\ COwners /\ CLive /\ COwned /\ CCalls

(* The inductive invariant gives what the runs check: finder and allocator *)
(* agree on every object, and the request was met.                         *)
LEMMA CImplies == CInv => C!LayoutKnown /\ C!RequestMet
<1> SUFFICES ASSUME CInv PROVE C!LayoutKnown /\ C!RequestMet
  OBVIOUS
<1>1. ASSUME NEW o \in owned PROVE /\ finder[o.ptr] = heap[o.ptr] /\ o.ptr \in Ptrs
                                   /\ heap[o.ptr] # C!None
  BY <1>1 DEF CInv, COwned, ObjectOk, CTypes, Meets, C!None
<1>2. ASSUME NEW t \in Threads, Busy(t) PROVE /\ call[t].ptr \in Ptrs
                                   /\ call[t].layout = heap[call[t].ptr] /\ heap[call[t].ptr] # C!None
  BY <1>2 DEF CInv, CTypes, CCalls, CallOk, C!None
<1>3. C!LayoutKnown
  BY <1>1, <1>2 DEF C!LayoutKnown, CInv, CLive, Busy
<1>4. C!RequestMet
  BY DEF C!RequestMet, CInv, COwned, ObjectOk, COwners, Meets
<1> QED BY <1>3, <1>4

(* The invariant holds before the first call.                              *)
LEMMA CStart == ASSUME C!Init PROVE CInv
  BY MallocBindAssumption DEF C!Init, CInv, CTypes, COwners, CLive, COwned, CCalls, CallOk, C!Idle, C!None, Busy, CLayouts, CPoints, CRecords

(* Whatever C function a thread calls (malloc, calloc, memalign,           *)
(* posix_memalign, aligned_alloc, valloc, pvalloc), it allocates a Layout  *)
(* rounded up from what was asked, frees, or reallocates.                  *)
LEMMA CAllocs ==
    ASSUME CTypes, NEW t \in Threads, C!Call(t)
    PROVE  \/ \E size \in Nat, al \in Nat \ {0}, need \in CLayouts :
                /\ need[1] <= C!roundup(size, al) /\ need[2] = al
                /\ C!AllocThenInsert(t, <<C!roundup(size, al), al>>, need)
           \/ \E o \in owned : C!c_free(t, o)
           \/ \E o \in owned, size \in Amounts, f \in BOOLEAN : C!c_realloc(t, o, size, f)
<1> DEFINE Made ==
      \E size \in Nat, al \in Nat \ {0}, need \in CLayouts :
         /\ need[1] <= C!roundup(size, al) /\ need[2] = al
         /\ C!AllocThenInsert(t, <<C!roundup(size, al), al>>, need)
<1>1. ASSUME NEW size \in Nat, NEW al \in Nat \ {0}, NEW least \in Nat,
             least <= C!roundup(size, al), C!AllocThenInsert(t, C!Layout(size, al), <<least, al>>)
      PROVE  Made
  <2> DEFINE need == <<least, al>>
  <2>1. need \in CLayouts /\ need[1] = least /\ need[2] = al
    BY DEF CLayouts
  <2>2. C!AllocThenInsert(t, <<C!roundup(size, al), al>>, need)
    BY <1>1 DEF C!Layout
  <2> HIDE DEF need
  <2> QED BY <1>1, <2>1, <2>2
<1>2. C!MIN_ALIGN \in Nat \ {0}
  BY DEF C!MIN_ALIGN
<1>3. \A n \in Aligns : C!is_power_of_two(n) => n \in Nat \ {0}
  BY MallocBindAssumption, PowersPositive DEF C!is_power_of_two
<1>4. ASSUME NEW size \in Amounts, NEW al \in Nat \ {0}
      PROVE size \in Nat /\ C!roundup(size, al) \in Nat /\ size <= C!roundup(size, al)
  BY MallocBindAssumption, Roundup
<1> HIDE DEF Made
<1>5. ASSUME NEW size \in Amounts,
             C!c_malloc(t, size) \/ C!c_valloc(t, size) \/ C!c_pvalloc(t, size)
      PROVE Made
  <2>1. CASE C!c_malloc(t, size)
    BY <2>1, <1>1, <1>2, <1>4 DEF C!c_malloc
  <2>2. CASE C!c_valloc(t, size)
    BY MallocBindAssumption, <2>2, <1>1, <1>4 DEF C!c_valloc
  <2>3. CASE C!c_pvalloc(t, size)
    BY MallocBindAssumption, <2>3, <1>1, <1>4 DEF C!c_pvalloc
  <2> QED BY <1>5, <2>1, <2>2, <2>3
<1>6. ASSUME NEW n \in Amounts, NEW size \in Amounts, C!c_calloc(t, n, size)
      PROVE Made
  <2>1. n * size \in Nat
    BY MallocBindAssumption
  <2>2. n * size <= C!roundup(n * size, C!MIN_ALIGN)
    BY <2>1, <1>2, Roundup
  <2> QED BY <1>6, <1>1, <1>2, <2>1, <2>2 DEF C!c_calloc
<1>7. ASSUME NEW a \in Aligns, NEW size \in Amounts,
             \/ C!c_posix_memalign(t, a, size) \/ C!c_memalign(t, a, size)
             \/ C!c_aligned_alloc(t, a, size) \/ C!c__aligned_malloc(t, a, size)
      PROVE Made
  <2>1. C!is_power_of_two(a) /\ C!AllocThenInsert(t, C!Layout(size, a), <<size, a>>)
    BY <1>7 DEF C!c_posix_memalign, C!c_memalign, C!c_aligned_alloc, C!c__aligned_malloc
  <2> QED BY <2>1, <1>1, <1>3, <1>4
<1> QED BY <1>5, <1>6, <1>7 DEF C!Call, Made

(* A step that only touches the addresses S, owned by the one thread that  *)
(* takes it, keeps the invariant if it leaves those addresses in order.    *)
LEMMA CFrame ==
    ASSUME CInv, CTypes', UNCHANGED os, NEW t \in Threads, NEW S \in SUBSET Ptrs,
           \A u \in Threads \ {t} : call'[u] = call[u] /\ (Busy(u) => call[u].ptr \notin S),
           Busy(t) => call[t].ptr \in S,
           \A q \in Ptrs \ S : heap'[q] = heap[q] /\ finder'[q] = finder[q],
           \A o \in owned : o.ptr \notin S => o \in owned',
           \A o \in owned' : o.ptr \notin S => o \in owned,
           \A o \in owned' : o.ptr \in S => ObjectOk(o)' /\ ~(Busy(t)' /\ call'[t].ptr = o.ptr),
           \A o, q \in owned' : o.ptr \in S /\ o.ptr = q.ptr => o = q,
           Busy(t)' => call'[t].ptr \in S,
           CallOk(t)',
           \A p \in S : heap'[p] # C!None => \/ \E o \in owned' : o.ptr = p
                                         \/ (Busy(t)' /\ call'[t].ptr = p)
    PROVE  CInv'
<1>1. \A u \in Threads \ {t} : Busy(u)' <=> Busy(u)
  BY DEF Busy
<1>2. \A u \in Threads \ {t} : Busy(u) => call[u].ptr \in Ptrs \ S
  BY DEF CInv, CTypes
<1>3. \A o \in owned' : o.ptr \in Ptrs
  BY DEF CTypes
<1>4. COwners'
  BY <1>1, <1>2, <1>3 DEF CInv, COwners
<1>5. CLive'
  BY <1>1, <1>2, <1>3 DEF CInv, CLive
<1>6. COwned'
  BY <1>3 DEF CInv, COwned, ObjectOk
<1>7. ASSUME NEW u \in Threads \ {t} PROVE CallOk(u)'
  <2>1. CallOk(u) /\ call'[u] = call[u]
    BY DEF CInv, CCalls
  <2>2. Busy(u) => heap'[call[u].ptr] = heap[call[u].ptr] /\ finder'[call[u].ptr] = finder[call[u].ptr]
    BY <1>2
  <2> QED BY <2>1, <2>2 DEF CallOk, Busy, C!MIN_ALIGN
<1>8. CCalls'
  BY <1>7 DEF CCalls
<1> QED BY <1>4, <1>5, <1>6, <1>8 DEF CInv

(* (&mut slf).alloc keeps the invariant: the address it returns was free,  *)
(* so it is nobody else's.                                                 *)
LEMMA CAllocStep ==
    ASSUME CInv, NEW t \in Threads, ~Busy(t),
           NEW size \in Nat, NEW al \in Nat \ {0}, NEW need \in CLayouts,
           need[1] <= C!roundup(size, al), need[2] = al,
           C!AllocThenInsert(t, <<C!roundup(size, al), al>>, need)
    PROVE  CInv'
<1> DEFINE l == <<C!roundup(size, al), al>>
<1>1. /\ l \in CLayouts /\ l[1] >= need[1] /\ l[1] > 0 /\ l[2] = al /\ l[1] % l[2] = 0
  BY Roundup DEF CLayouts
<1> HIDE DEF l
<1>2. PICK p \in Ptrs :
        /\ heap[p] = C!None /\ p % l[2] = 0
        /\ heap' = [heap EXCEPT ![p] = l]
        /\ call' = [call EXCEPT ![t] = [C!Idle EXCEPT !.at = "insert", !.ptr = p, !.layout = l, !.need = need]]
        /\ UNCHANGED <<os, finder, owned>>
  BY Zenon DEF C!AllocThenInsert, C!Goto, l
<1> DEFINE c == [at |-> "insert", ptr |-> p, layout |-> l, need |-> need, old |-> C!None, fail |-> FALSE]
<1>3. /\ call' = [call EXCEPT ![t] = c]
      /\ call'[t] = c
      /\ \A u \in Threads \ {t} : call'[u] = call[u]
      /\ \A q \in Ptrs \ {p} : heap'[q] = heap[q]
      /\ heap'[p] = l
  <2>1. call \in [Threads -> CRecords] /\ heap \in [Ptrs -> CLayouts]
    BY DEF CInv, CTypes
  <2>2. call'[t] = c
    BY Zenon, <1>2, <2>1 DEF C!Idle
  <2> HIDE DEF c
  <2> QED BY Zenon, <2>1, <2>2, <1>2
<1>4. CTypes'
  <2>1. c \in CRecords
    BY <1>1 DEF CPoints, CLayouts, C!None, CRecords
  <2>2. call' \in [Threads -> CRecords]
    BY <1>3, <2>1 DEF CInv, CTypes
  <2>3. heap' \in [Ptrs -> CLayouts]
    BY <1>1, <1>2 DEF CInv, CTypes
  <2> QED BY <1>2, <1>3, <2>2, <2>3 DEF CInv, CTypes, Busy
<1>5. \A o \in owned : o.ptr # p
  BY <1>2 DEF CInv, COwned, ObjectOk, Meets, C!None
<1>6. \A u \in Threads : Busy(u) => call[u].ptr # p
  BY <1>2 DEF CInv, CCalls, CallOk, C!None
<1>7. CallOk(t)'
  BY <1>1, <1>2, <1>3 DEF CallOk, Meets, Busy
<1>8. Busy(t)' /\ call'[t].ptr = p
  BY <1>3 DEF Busy
<1> HIDE DEF c
<1> DEFINE S == {p}
<1>9. /\ S \in SUBSET Ptrs /\ UNCHANGED os /\ UNCHANGED owned
      /\ \A u \in Threads \ {t} : call'[u] = call[u] /\ (Busy(u) => call[u].ptr \notin S)
      /\ \A q \in Ptrs \ S : heap'[q] = heap[q] /\ finder'[q] = finder[q]
  BY <1>2, <1>3, <1>6
<1>10. /\ \A o \in owned' : o.ptr \notin S
       /\ call'[t].ptr \in S /\ \A q \in S : call'[t].ptr = q
  BY <1>2, <1>5, <1>8
<1> HIDE DEF S
<1> QED BY <1>4, <1>7, <1>8, <1>9, <1>10, CFrame

(* Goto changes what one thread is doing.                                  *)
LEMMA CGoto ==
    ASSUME CTypes, NEW t \in Threads, NEW c \in CRecords, C!Goto(t, c)
    PROVE  /\ call'[t] = c /\ call' \in [Threads -> CRecords]
           /\ \A u \in Threads \ {t} : call'[u] = call[u]
  BY DEF C!Goto, CTypes

(* What the thread t has in hand is nobody else's.                         *)
LEMMA CAlone ==
    ASSUME CInv, NEW t \in Threads, Busy(t)
    PROVE  /\ call[t] \in CRecords /\ call[t].ptr \in Ptrs /\ CallOk(t)
           /\ \A o \in owned : o.ptr # call[t].ptr
           /\ \A u \in Threads \ {t} : Busy(u) => call[u].ptr # call[t].ptr
  BY DEF CInv, CTypes, COwners, CCalls

(* What the records of the calls are made of.                              *)
LEMMA CIdle ==
    /\ C!Idle \in CRecords /\ C!Idle.at = "idle"
    /\ \A p \in Ptrs, l, n \in CLayouts, a \in CPoints :
         [C!Idle EXCEPT !.at = a, !.ptr = p, !.layout = l, !.need = n]
            = [at |-> a, ptr |-> p, layout |-> l, need |-> n, old |-> C!None, fail |-> FALSE]
<1>1. C!Idle \in CRecords /\ C!Idle.at = "idle"
  BY DEF C!Idle, CRecords, CPoints, CLayouts, C!None
<1>2. ASSUME NEW p \in Ptrs, NEW l \in CLayouts, NEW n \in CLayouts, NEW a \in CPoints
      PROVE [C!Idle EXCEPT !.at = a, !.ptr = p, !.layout = l, !.need = n]
              = [at |-> a, ptr |-> p, layout |-> l, need |-> n, old |-> C!None, fail |-> FALSE]
  <2>1. PICK r : r = [C!Idle EXCEPT !.at = a, !.ptr = p, !.layout = l, !.need = n]
    OBVIOUS
  <2>2. r = [at |-> a, ptr |-> p, layout |-> l, need |-> n, old |-> C!None, fail |-> FALSE]
    BY Zenon, <2>1 DEF C!Idle
  <2> QED BY Zenon, <2>1, <2>2
<1> QED BY Zenon, <1>1, <1>2

(* insert_layout keeps the invariant: the object becomes the program's with*)
(* its Layout in the table.                                                *)
LEMMA CInsertStep ==
    ASSUME CInv, NEW t \in Threads, C!insert_layout(t)
    PROVE  CInv'
<1>0. PICK p, o : p = call[t].ptr /\ o = [ptr |-> p, need |-> call[t].need]
  BY Zenon
<1>1. Busy(t) /\ call[t].at = "insert"
  BY DEF C!insert_layout, Busy
<1>2. /\ call[t] \in CRecords /\ p \in Ptrs /\ CallOk(t)
      /\ \A q \in owned : q.ptr # p
      /\ \A u \in Threads \ {t} : Busy(u) => call[u].ptr # p
  BY <1>0, <1>1, CAlone
<1>3. /\ call'[t] = C!Idle /\ call' \in [Threads -> CRecords]
      /\ \A u \in Threads \ {t} : call'[u] = call[u]
  BY Zenon, CGoto, CIdle DEF C!insert_layout, CInv
<1>4. /\ o \in [ptr : Ptrs, need : CLayouts] /\ o.ptr = p /\ o.need = call[t].need
  BY <1>0, <1>2 DEF CRecords
<1>5. /\ owned' = owned \cup {o} /\ UNCHANGED <<os, heap>>
      /\ finder' = [finder EXCEPT ![p] = call[t].layout]
  BY <1>0 DEF C!insert_layout
<1>6. call[t].layout \in CLayouts /\ finder'[p] = call[t].layout /\ \A q \in Ptrs \ {p} : finder'[q] = finder[q]
  BY <1>2, <1>5 DEF CInv, CTypes, CRecords
<1>7. ~Busy(t)'
  BY Zenon, <1>3, CIdle DEF Busy
<1>8. CTypes'
  BY <1>3, <1>4, <1>5, <1>6, <1>7 DEF CInv, CTypes, Busy
<1>9. ObjectOk(o)'
  BY <1>1, <1>0, <1>2, <1>4, <1>5, <1>6 DEF ObjectOk, CallOk
<1>10. CallOk(t)'
  BY Zenon, <1>3, <1>7, CIdle DEF CallOk, Busy
<1> DEFINE S == {p}
<1>11. /\ S \in SUBSET Ptrs /\ call[t].ptr \in S
       /\ \A u \in Threads \ {t} : call'[u] = call[u] /\ (Busy(u) => call[u].ptr \notin S)
       /\ \A q \in Ptrs \ S : heap'[q] = heap[q] /\ finder'[q] = finder[q]
       /\ \A q \in S : q = p
       /\ \A q \in owned' : q.ptr \in S => q = o
       /\ \A q \in owned' : q.ptr \notin S => q \in owned
       /\ \A q \in owned : q \in owned'
       /\ o \in owned'
  BY <1>0, <1>2, <1>3, <1>4, <1>5, <1>6
<1> HIDE DEF S
<1> QED BY <1>4, <1>5, <1>7, <1>8, <1>9, <1>10, <1>11, CFrame

(* The beginning of c_free keeps the invariant: the Layout it finds is the *)
(* allocator's.                                                            *)
LEMMA CFreeStep ==
    ASSUME CInv, NEW t \in Threads, ~Busy(t), NEW o \in owned, C!c_free(t, o)
    PROVE  CInv'
<1> DEFINE p == o.ptr
           c == [at |-> "delete", ptr |-> p, layout |-> finder[p], need |-> C!None, old |-> C!None, fail |-> FALSE]
<1>1. p \in Ptrs /\ ObjectOk(o) /\ finder[p] \in CLayouts
  BY DEF CInv, CTypes, COwned
<1>2. c \in CRecords /\ c.at = "delete" /\ c.ptr = p /\ c.layout = finder[p]
  BY <1>1 DEF CRecords, CPoints, CLayouts, C!None
<1>3. /\ owned' = owned \ {o} /\ UNCHANGED <<os, heap, finder>>
      /\ call'[t] = c /\ call' \in [Threads -> CRecords]
      /\ \A u \in Threads \ {t} : call'[u] = call[u]
  <2>1. call' = [call EXCEPT ![t] = [C!Idle EXCEPT !.at = "delete", !.ptr = o.ptr, !.layout = finder[o.ptr]]]
    BY DEF C!c_free, C!Goto
  <2>2. call \in [Threads -> CRecords]
    BY DEF CInv, CTypes
  <2>3. call'[t] = c
    BY Zenon, <2>1, <2>2 DEF C!Idle
  <2> HIDE DEF c
  <2> QED BY <2>1, <2>2, <2>3, <1>2 DEF C!c_free
<1> HIDE DEF c
<1>4. /\ \A q \in owned' : q.ptr # p
      /\ \A u \in Threads \ {t} : Busy(u) => call[u].ptr # p
  BY <1>3 DEF CInv, COwners
<1>5. Busy(t)' /\ call'[t].ptr = p
  BY <1>2, <1>3 DEF Busy
<1>6. CTypes'
  BY <1>1, <1>3, <1>5 DEF CInv, CTypes, Busy
<1>7. CallOk(t)'
  BY Zenon, <1>1, <1>2, <1>3 DEF CallOk, ObjectOk, Meets
<1> DEFINE S == {p}
<1>8. /\ S \in SUBSET Ptrs /\ call'[t].ptr \in S
      /\ \A u \in Threads \ {t} : call'[u] = call[u] /\ (Busy(u) => call[u].ptr \notin S)
      /\ \A q \in Ptrs \ S : heap'[q] = heap[q] /\ finder'[q] = finder[q]
      /\ \A q \in S : q = p
      /\ \A q \in owned' : q.ptr \notin S /\ q \in owned
      /\ \A q \in owned : q.ptr \notin S => q \in owned'
  BY Zenon, <1>1, <1>3, <1>4, <1>5
<1> HIDE DEF S, p
<1> QED BY <1>3, <1>5, <1>6, <1>7, <1>8, CFrame

(* delete_layout in c_free keeps the invariant: the thread has the Layout, *)
(* so the table may forget it.                                             *)
LEMMA CDeleteStep ==
    ASSUME CInv, NEW t \in Threads, C!FreeDeleteLayout(t)
    PROVE  CInv'
<1>1. PICK p, c : p = call[t].ptr /\ c = [call[t] EXCEPT !.at = "dealloc"]
  BY Zenon
<1>2. Busy(t) /\ call[t].at = "delete"
  BY DEF C!FreeDeleteLayout, Busy
<1>3. /\ call[t] \in CRecords /\ p \in Ptrs /\ CallOk(t)
      /\ \A q \in owned : q.ptr # p
      /\ \A u \in Threads \ {t} : Busy(u) => call[u].ptr # p
  BY <1>1, <1>2, CAlone
<1>4. /\ c \in CRecords /\ c.at = "dealloc" /\ c.ptr = p /\ c.layout = call[t].layout
  BY <1>1, <1>3 DEF CRecords, CPoints
<1>5. /\ call'[t] = c /\ call' \in [Threads -> CRecords]
      /\ \A u \in Threads \ {t} : call'[u] = call[u]
  BY <1>1, <1>4, CGoto DEF C!FreeDeleteLayout, CInv
<1>6. /\ UNCHANGED <<os, heap, owned>> /\ finder' = [finder EXCEPT ![p] = C!None]
  BY <1>1 DEF C!FreeDeleteLayout
<1>7. finder' \in [Ptrs -> CLayouts] /\ \A q \in Ptrs \ {p} : finder'[q] = finder[q]
  BY <1>3, <1>6 DEF CInv, CTypes, CLayouts, C!None
<1>8. Busy(t)' /\ call'[t].ptr = p
  BY <1>4, <1>5 DEF Busy
<1>9. CTypes'
  BY <1>3, <1>5, <1>6, <1>7, <1>8 DEF CInv, CTypes, Busy
<1>10. CallOk(t)'
  BY <1>1, <1>2, <1>3, <1>4, <1>5, <1>6 DEF CallOk
<1> DEFINE S == {p}
<1>11. /\ S \in SUBSET Ptrs /\ call[t].ptr \in S
       /\ \A u \in Threads \ {t} : call'[u] = call[u] /\ (Busy(u) => call[u].ptr \notin S)
       /\ \A q \in Ptrs \ S : heap'[q] = heap[q] /\ finder'[q] = finder[q]
       /\ \A q \in S : q = p
       /\ \A q \in owned' : q.ptr \notin S /\ q \in owned
  BY <1>1, <1>3, <1>5, <1>6, <1>7
<1> HIDE DEF S
<1> QED BY <1>1, <1>6, <1>8, <1>9, <1>10, <1>11, CFrame

(* dealloc keeps the invariant: the table forgot the object before the     *)
(* allocator may give its address out again.                               *)
LEMMA CDeallocStep ==
    ASSUME CInv, NEW t \in Threads, C!dealloc(t)
    PROVE  CInv'
<1>1. PICK p : p = call[t].ptr
  OBVIOUS
<1>2. Busy(t)
  BY DEF C!dealloc, Busy
<1>3. /\ p \in Ptrs
      /\ \A q \in owned : q.ptr # p
      /\ \A u \in Threads \ {t} : Busy(u) => call[u].ptr # p
  BY <1>1, <1>2, CAlone
<1>4. /\ call'[t] = C!Idle /\ call' \in [Threads -> CRecords]
      /\ \A u \in Threads \ {t} : call'[u] = call[u]
  BY Zenon, CGoto, CIdle DEF C!dealloc, CInv
<1>5. /\ UNCHANGED <<os, finder, owned>> /\ heap' = [heap EXCEPT ![p] = C!None]
  BY <1>1 DEF C!dealloc
<1>6. /\ heap' \in [Ptrs -> CLayouts] /\ heap'[p] = C!None
      /\ \A q \in Ptrs \ {p} : heap'[q] = heap[q]
  BY <1>3, <1>5 DEF CInv, CTypes, CLayouts, C!None
<1>7. ~Busy(t)' /\ CallOk(t)'
  BY Zenon, <1>4, CIdle DEF Busy, CallOk
<1>8. CTypes'
  BY <1>4, <1>5, <1>6, <1>7 DEF CInv, CTypes, Busy
<1> DEFINE S == {p}
<1>9. /\ S \in SUBSET Ptrs /\ call[t].ptr \in S
      /\ \A u \in Threads \ {t} : call'[u] = call[u] /\ (Busy(u) => call[u].ptr \notin S)
      /\ \A q \in Ptrs \ S : heap'[q] = heap[q] /\ finder'[q] = finder[q]
      /\ \A q \in S : heap'[q] = C!None
      /\ \A q \in owned' : q.ptr \notin S /\ q \in owned
  BY <1>1, <1>3, <1>4, <1>5, <1>6
<1> HIDE DEF S
<1> QED BY <1>5, <1>7, <1>8, <1>9, CFrame

(* The beginning of c_realloc keeps the invariant, the call with size 0    *)
(* that frees included.                                                    *)
LEMMA CReallocCall ==
    ASSUME CInv, NEW t \in Threads, ~Busy(t), NEW o \in owned, NEW size \in Amounts,
           NEW f \in BOOLEAN, C!c_realloc(t, o, size, f)
    PROVE  CInv'
<1>1. CASE C!c_free(t, o)
  BY <1>1, CFreeStep
<1>2. CASE /\ owned' = owned \ {o} /\ UNCHANGED <<os, heap, finder>>
           /\ C!Goto(t, [at |-> "realloc", ptr |-> o.ptr, layout |-> finder[o.ptr],
                       need |-> <<size, C!MIN_ALIGN>>, old |-> o.need, fail |-> f])
  <2>1. PICK p, c : /\ p = o.ptr
                    /\ c = [at |-> "realloc", ptr |-> o.ptr, layout |-> finder[o.ptr],
                            need |-> <<size, C!MIN_ALIGN>>, old |-> o.need, fail |-> f]
    BY Zenon
  <2>2. p \in Ptrs /\ ObjectOk(o) /\ finder[p] \in CLayouts /\ o.need \in CLayouts
    BY <2>1 DEF CInv, CTypes, COwned
  <2>3. /\ c.at = "realloc" /\ c.ptr = p /\ c.layout = finder[p] /\ c.old = o.need
        /\ c.need = <<size, C!MIN_ALIGN>> /\ c.need[2] = C!MIN_ALIGN
    BY <2>1
  <2>4. <<size, C!MIN_ALIGN>> \in CLayouts
    BY MallocBindAssumption DEF CLayouts, C!MIN_ALIGN
  <2>5. c \in CRecords
    BY <2>1, <2>2, <2>4 DEF CRecords, CPoints
  <2>6. /\ call'[t] = c /\ call' \in [Threads -> CRecords]
        /\ \A u \in Threads \ {t} : call'[u] = call[u]
    BY <1>2, <2>1, <2>5, CGoto DEF CInv
  <2>7. /\ \A q \in owned' : q.ptr # p
        /\ \A u \in Threads \ {t} : Busy(u) => call[u].ptr # p
    BY Zenon, <1>2, <2>1 DEF CInv, COwners
  <2>8. Busy(t)' /\ call'[t].ptr = p
    BY <2>3, <2>6 DEF Busy
  <2>9. CTypes'
    BY Zenon, <1>2, <2>2, <2>6, <2>8 DEF CInv, CTypes, Busy
  <2>10. CallOk(t)'
    BY Zenon, <1>2, <2>1, <2>2, <2>3, <2>6 DEF CallOk, ObjectOk, Meets, C!MIN_ALIGN
  <2> DEFINE S == {p}
  <2>11. /\ S \in SUBSET Ptrs /\ call'[t].ptr \in S
         /\ \A u \in Threads \ {t} : call'[u] = call[u] /\ (Busy(u) => call[u].ptr \notin S)
         /\ \A q \in Ptrs \ S : heap'[q] = heap[q] /\ finder'[q] = finder[q]
         /\ \A q \in S : q = p
         /\ \A q \in owned' : q.ptr \notin S /\ q \in owned
         /\ \A q \in owned : q.ptr \notin S => q \in owned'
    BY Zenon, <1>2, <2>1, <2>2, <2>6, <2>7, <2>8
  <2> HIDE DEF S
  <2>12. /\ \A q \in S : Busy(t)' /\ call'[t].ptr = q
         /\ ~ Busy(t) /\ UNCHANGED os
    BY Zenon, <1>2, <2>8, <2>11 DEF Busy
  <2> QED BY Zenon, <2>9, <2>10, <2>11, <2>12, CFrame
<1> QED BY <1>1, <1>2 DEF C!c_realloc

(* delete_layout in c_realloc keeps the invariant.                         *)
LEMMA CMovedStep ==
    ASSUME CInv, NEW t \in Threads, C!ReallocDeleteLayout(t)
    PROVE  CInv'
<1>1. PICK p, c : /\ p = call[t].ptr
                  /\ c = [at |-> "insert", ptr |-> call[t].ptr, layout |-> call[t].layout,
                          need |-> call[t].need, old |-> C!None, fail |-> FALSE]
  BY Zenon
<1>2. Busy(t) /\ call[t].at = "moved"
  BY DEF C!ReallocDeleteLayout, Busy
<1>3. /\ call[t] \in CRecords /\ p \in Ptrs /\ CallOk(t)
      /\ \A q \in owned : q.ptr # p
      /\ \A u \in Threads \ {t} : Busy(u) => call[u].ptr # p
  BY Zenon, <1>1, <1>2, CAlone
<1>4. /\ c \in CRecords /\ c.at = "insert" /\ c.ptr = p /\ c.layout = call[t].layout
      /\ c.need = call[t].need
  BY Zenon, <1>1, <1>3 DEF CRecords, CPoints, CLayouts, C!None
<1>5. /\ call'[t] = c /\ call' \in [Threads -> CRecords]
      /\ \A u \in Threads \ {t} : call'[u] = call[u]
  <2>1. call \in [Threads -> CRecords]
    BY DEF CInv, CTypes
  <2>2. call' = [call EXCEPT ![t] = [C!Idle EXCEPT !.at = "insert", !.ptr = call[t].ptr,
                            !.layout = call[t].layout, !.need = call[t].need]]
    BY DEF C!ReallocDeleteLayout, C!Goto
  <2>3. call'[t] = c
    BY Zenon, <1>1, <2>1, <2>2 DEF C!Idle
  <2> QED BY <2>1, <2>2, <2>3, <1>4
<1>6. /\ UNCHANGED <<os, heap, owned>> /\ finder' = [finder EXCEPT ![p] = C!None]
  BY <1>1 DEF C!ReallocDeleteLayout
<1>7. finder' \in [Ptrs -> CLayouts] /\ \A q \in Ptrs \ {p} : finder'[q] = finder[q]
  BY <1>3, <1>6 DEF CInv, CTypes, CLayouts, C!None
<1>8. Busy(t)' /\ call'[t].ptr = p
  BY <1>4, <1>5 DEF Busy
<1>9. CTypes'
  BY <1>3, <1>5, <1>6, <1>7, <1>8 DEF CInv, CTypes, Busy
<1>10. CallOk(t)'
  BY Zenon, <1>1, <1>2, <1>3, <1>4, <1>5, <1>6, <1>8 DEF CallOk
<1> DEFINE S == {p}
<1>11. /\ S \in SUBSET Ptrs /\ call[t].ptr \in S
       /\ \A u \in Threads \ {t} : call'[u] = call[u] /\ (Busy(u) => call[u].ptr \notin S)
       /\ \A q \in Ptrs \ S : heap'[q] = heap[q] /\ finder'[q] = finder[q]
       /\ \A q \in S : q = p
       /\ \A q \in owned' : q.ptr \notin S /\ q \in owned
  BY Zenon, <1>1, <1>3, <1>5, <1>6, <1>7
<1> HIDE DEF S
<1>12. /\ \A q \in owned : q.ptr \notin S => q \in owned'
       /\ \A q \in S : Busy(t)' /\ call'[t].ptr = q
       /\ call'[t].ptr \in S
  BY Zenon, <1>1, <1>6, <1>8, <1>11, <1>4, <1>5
<1> QED BY ZenonT(40), <1>6, <1>9, <1>10, <1>11, <1>12, CFrame

(* realloc below c_realloc keeps the invariant: it fails and the object    *)
(* stays as it was, stays in place with its new Layout, or moves.          *)
LEMMA CReallocStep ==
    ASSUME CInv, NEW t \in Threads, C!realloc(t)
    PROVE  CInv'
<1>1. PICK p, c : p = call[t].ptr /\ c = call[t]
  OBVIOUS
<1>2. Busy(t) /\ c.at = "realloc"
  BY Zenon, <1>1 DEF C!realloc, Busy
<1>3. /\ c \in CRecords /\ p \in Ptrs /\ CallOk(t) /\ c.ptr = p
      /\ \A q \in owned : q.ptr # p
      /\ \A u \in Threads \ {t} : Busy(u) => call[u].ptr # p
  BY Zenon, <1>1, <1>2, CAlone
<1>4. PICK l : l = C!Layout(c.need[1], C!MIN_ALIGN)
  BY Zenon
<1>5. /\ l \in CLayouts /\ l[1] >= c.need[1] /\ l[1] > 0 /\ l[2] = C!MIN_ALIGN
      /\ l[1] % l[2] = 0 /\ c.need[2] = C!MIN_ALIGN
  <2>1. c.need[1] \in Nat /\ C!MIN_ALIGN \in Nat \ {0}
    BY <1>3 DEF CRecords, CLayouts, C!MIN_ALIGN
  <2>2. c.need[2] = C!MIN_ALIGN
    BY <1>1, <1>2, <1>3 DEF CallOk
  <2> QED BY Zenon, <1>4, <2>1, <2>2, Roundup DEF C!Layout, CLayouts
<1>6. UNCHANGED <<os, finder>>
  BY Zenon DEF C!realloc
<1>7. CASE \E q \in Ptrs :
             /\ heap[q] = C!None \/ q = p
             /\ q % l[2] = 0
             /\ heap' = [x \in Ptrs |-> IF x = q THEN l ELSE IF x = p THEN C!None ELSE heap[x]]
             /\ C!Goto(t, [c EXCEPT !.at = "moved", !.ptr = q, !.layout = l])
             /\ UNCHANGED owned
  <2>1. PICK q \in Ptrs :
             /\ heap[q] = C!None \/ q = p
             /\ q % l[2] = 0
             /\ heap' = [x \in Ptrs |-> IF x = q THEN l ELSE IF x = p THEN C!None ELSE heap[x]]
             /\ C!Goto(t, [c EXCEPT !.at = "moved", !.ptr = q, !.layout = l])
             /\ UNCHANGED owned
    BY Zenon, <1>7
  <2>2. PICK d : d = [c EXCEPT !.at = "moved", !.ptr = q, !.layout = l]
    OBVIOUS
  <2>3. d \in CRecords /\ d.at = "moved" /\ d.ptr = q /\ d.layout = l /\ d.need = c.need
    BY Zenon, <1>3, <1>5, <2>2 DEF CRecords, CPoints
  <2>4. /\ call'[t] = d /\ call' \in [Threads -> CRecords]
        /\ \A u \in Threads \ {t} : call'[u] = call[u]
    BY <2>1, <2>2, <2>3, CGoto DEF CInv
  <2>5. /\ heap' \in [Ptrs -> CLayouts] /\ heap'[q] = l /\ (p # q => heap'[p] = C!None)
        /\ \A x \in Ptrs \ {p, q} : heap'[x] = heap[x]
    BY <1>5, <2>1, <1>3 DEF CInv, CTypes, CLayouts, C!None
  <2>6. /\ \A o \in owned : o.ptr # q
        /\ \A u \in Threads \ {t} : Busy(u) => call[u].ptr # q
    <3>1. CASE q = p
      BY <3>1, <1>3
    <3>2. CASE heap[q] = C!None
      BY <3>2 DEF CInv, COwned, ObjectOk, Meets, CCalls, CallOk, C!None
    <3> QED BY <2>1, <3>1, <3>2
  <2>7. Busy(t)' /\ call'[t].ptr = q
    BY <2>3, <2>4 DEF Busy
  <2>8. CTypes'
    BY <1>6, <2>1, <2>4, <2>5, <2>7 DEF CInv, CTypes, Busy
  <2>9. CallOk(t)'
    BY <1>5, <2>1, <2>3, <2>4, <2>5 DEF CallOk, Meets
  <2> DEFINE S == {p, q}
  <2>10. /\ S \in SUBSET Ptrs /\ call[t].ptr \in S /\ call'[t].ptr \in S
         /\ \A u \in Threads \ {t} : call'[u] = call[u] /\ (Busy(u) => call[u].ptr \notin S)
         /\ \A x \in Ptrs \ S : heap'[x] = heap[x] /\ finder'[x] = finder[x]
         /\ \A x \in S : heap'[x] # C!None => x = q
         /\ \A o \in owned' : o.ptr \notin S /\ o \in owned
    BY <1>1, <1>3, <1>6, <2>1, <2>4, <2>5, <2>6, <2>7
  <2> HIDE DEF S
  <2> QED BY <1>1, <1>6, <2>1, <2>7, <2>8, <2>9, <2>10, CFrame
<1>8. CASE /\ owned' = owned \cup {[ptr |-> p, need |-> c.old]}
           /\ C!Goto(t, C!Idle) /\ UNCHANGED heap
  <2>1. PICK o : o = [ptr |-> p, need |-> c.old]
    BY Zenon
  <2>2. o \in [ptr : Ptrs, need : CLayouts] /\ o.ptr = p /\ o.need = c.old
    BY Zenon, <2>1, <1>3 DEF CRecords
  <2>3. /\ call'[t] = C!Idle /\ call' \in [Threads -> CRecords]
        /\ \A u \in Threads \ {t} : call'[u] = call[u]
    BY Zenon, <1>8, CGoto, CIdle DEF CInv
  <2>4. ~Busy(t)' /\ CallOk(t)'
    BY Zenon, <2>3, CIdle DEF Busy, CallOk
  <2>5. CTypes'
    BY Zenon, <1>6, <1>8, <2>1, <2>2, <2>3, <2>4 DEF CInv, CTypes, Busy
  <2>6. ObjectOk(o)'
    BY Zenon, <1>1, <1>2, <1>3, <1>6, <1>8, <2>2 DEF ObjectOk, CallOk, Busy
  <2> DEFINE S == {p}
  <2>7. /\ S \in SUBSET Ptrs /\ call[t].ptr \in S
        /\ \A u \in Threads \ {t} : call'[u] = call[u] /\ (Busy(u) => call[u].ptr \notin S)
        /\ \A q \in Ptrs \ S : heap'[q] = heap[q] /\ finder'[q] = finder[q]
        /\ \A q \in S : q = p
        /\ \A q \in owned' : q.ptr \in S => q = o
        /\ \A q \in owned' : q.ptr \notin S => q \in owned
        /\ \A q \in owned : q \in owned'
        /\ o \in owned'
    BY Zenon, <1>1, <1>3, <1>6, <1>8, <2>1, <2>2, <2>3
  <2> HIDE DEF S
  <2> QED BY <1>6, <2>2, <2>4, <2>5, <2>6, <2>7, CFrame
<1>9. CASE /\ C!Goto(t, [C!Idle EXCEPT !.at = "delete", !.ptr = c.ptr, !.layout = finder[c.ptr]])
           /\ UNCHANGED <<heap, owned>>
  <2>1. PICK d : d = [at |-> "delete", ptr |-> c.ptr, layout |-> finder[c.ptr], need |-> C!None,
                      old |-> C!None, fail |-> FALSE]
    BY Zenon
  <2>2. d \in CRecords /\ d.at = "delete" /\ d.ptr = p /\ d.layout = finder[p]
    BY <2>1, <1>3 DEF CRecords, CPoints, CLayouts, C!None, CInv, CTypes
  <2>3. /\ call'[t] = d /\ call' \in [Threads -> CRecords]
        /\ \A u \in Threads \ {t} : call'[u] = call[u]
    <3>1. call \in [Threads -> CRecords]
      BY DEF CInv, CTypes
    <3>2. call'[t] = d
      BY Zenon, <1>9, <2>1, <3>1 DEF C!Idle, C!Goto
    <3> QED BY <3>1, <3>2, <2>2, <1>9 DEF C!Goto
  <2>4. Busy(t)' /\ call'[t].ptr = p
    BY <2>2, <2>3 DEF Busy
  <2>5. CTypes'
    BY <1>3, <1>6, <1>9, <2>3, <2>4 DEF CInv, CTypes, Busy
  <2>6. CallOk(t)'
    BY <1>1, <1>2, <1>3, <1>6, <1>9, <2>2, <2>3 DEF CallOk, Meets
  <2> DEFINE S == {p}
  <2>7. /\ S \in SUBSET Ptrs /\ call[t].ptr \in S
        /\ \A u \in Threads \ {t} : call'[u] = call[u] /\ (Busy(u) => call[u].ptr \notin S)
        /\ \A q \in Ptrs \ S : heap'[q] = heap[q] /\ finder'[q] = finder[q]
        /\ \A q \in S : q = p
        /\ \A q \in owned' : q.ptr \notin S /\ q \in owned
    BY <1>1, <1>3, <1>6, <1>9, <2>3
  <2> HIDE DEF S
  <2> QED BY <1>1, <1>6, <1>9, <2>4, <2>5, <2>6, <2>7, CFrame
<1> QED BY Zenon, <1>1, <1>4, <1>7, <1>8, <1>9 DEF C!realloc

(* Every step of the C functions keeps the invariant.                      *)
LEMMA CStep == ASSUME CInv, [C!Next]_(C!vars) PROVE CInv'
<1>1. CASE UNCHANGED C!vars
  <2>1. UNCHANGED <<os, heap, finder, owned, call>>
    BY <1>1 DEF C!vars
  <2>2. CTypes' /\ COwners' /\ CLive'
    BY Zenon, <2>1 DEF CInv, CTypes, COwners, CLive, Busy
  <2>3. (\A o \in owned : ObjectOk(o)) => COwned'
    BY <2>1 DEF ObjectOk, COwned
  <2>4. (\A t \in Threads : CallOk(t)) => CCalls'
    <3>1. ASSUME NEW t \in Threads, CallOk(t) PROVE CallOk(t)'
      BY Zenon, <2>1, <3>1 DEF CallOk, Busy, C!MIN_ALIGN
    <3> QED BY <3>1 DEF CCalls
  <2> QED BY Zenon, <2>2, <2>3, <2>4 DEF CInv, COwned, CCalls
<1>2. ASSUME NEW t \in Threads, C!Call(t) PROVE CInv'
  <2>1. ~Busy(t) /\ CTypes
    BY Zenon, <1>2 DEF C!Call, Busy, CInv
  <2>2. CASE \E size \in Nat, al \in Nat \ {0}, need \in CLayouts :
                /\ need[1] <= C!roundup(size, al) /\ need[2] = al
                /\ C!AllocThenInsert(t, <<C!roundup(size, al), al>>, need)
    BY <2>1, <2>2, CAllocStep
  <2>3. CASE \E o \in owned : C!c_free(t, o)
    BY <2>1, <2>3, CFreeStep
  <2>4. CASE \E o \in owned, size \in Amounts, f \in BOOLEAN : C!c_realloc(t, o, size, f)
    BY <2>1, <2>4, CReallocCall
  <2> QED BY <1>2, <2>1, <2>2, <2>3, <2>4, CAllocs
<1>3. CASE C!Next
  BY <1>2, <1>3, CInsertStep, CDeleteStep, CDeallocStep, CReallocStep, CMovedStep DEF C!Next
<1> QED BY <1>1, <1>3

(* Threads calling the C functions keep, at every step, one owner for each *)
(* object: the program, with the Layout in the table, or the one thread    *)
(* that is allocating, freeing or reallocating it.                         *)
THEOREM CInvariance == C!Spec => []CInv
<1>1. C!Init => CInv
  BY CStart
<1>2. CInv /\ [C!Next]_(C!vars) => CInv'
  BY CStep
<1> QED BY <1>1, <1>2, PTL DEF C!Spec

(* c_free and c_realloc find the Layout that the allocator knows, and what *)
(* c_malloc and the others return is large enough and aligned, for any     *)
(* number of threads, addresses, sizes and alignments.                     *)
THEOREM CFunctionsAreSound == C!Spec => []CFunctionsSound
<1>1. CInv => CFunctionsSound
  BY CImplies DEF CFunctionsSound
<1> QED BY <1>1, CInvariance, PTL
-----------------------------------------------------------------------------
(* Going up by what is missing to a multiple of m ends at one: how carve   *)
(* and Creek::new align.                                                   *)
LEMMA NextMultiple ==
    ASSUME NEW n \in Nat, NEW m \in Nat \ {0}
    PROVE  (n + (m - (n % m))) % m = 0
<1>1. PICK q \in Nat : q = n \div m
  BY Division
<1>2. n = m * q + (n % m) /\ n % m \in Nat
  BY <1>1, Division
<1>3. m * (q + 1) = m * q + m /\ q + 1 \in Nat /\ m * q \in Nat
  OBVIOUS
<1>4. n + (m - (n % m)) = m * (q + 1)
  BY <1>2, <1>3
<1>5. (m * (q + 1)) % m = 0
  BY <1>3, Multiple
<1> QED BY <1>4, <1>5

(* The multiple of m after one that is below a multiple h is not beyond h. *)
LEMMA NextPage ==
    ASSUME NEW k \in Nat, NEW h \in Nat, NEW m \in Nat \ {0}, h % m = 0, m * k < h
    PROVE  m * k + m <= h
<1>1. PICK q \in Nat : q = h \div m
  BY Division
<1>2. h = m * q
  BY <1>1, Division
<1>3. k < q
  <2> SUFFICES ASSUME k >= q PROVE FALSE
    OBVIOUS
  <2>1. PICK d \in Nat : k = q + d
    <3>1. k - q \in Nat /\ k = q + (k - q)
      OBVIOUS
    <3> QED BY <3>1
  <2>2. m * k = m * q + m * d /\ m * d \in Nat /\ m * q \in Nat
    BY <2>1
  <2> QED BY <2>2, <1>2
<1>4. PICK d \in Nat : q = k + 1 + d
  <2>1. q - k - 1 \in Nat /\ q = k + 1 + (q - k - 1)
    BY <1>3
  <2> QED BY <2>1
<1>5. m * (k + 1) = m * k + m
  OBVIOUS
<1>6. m * q = m * (k + 1) + m * d /\ m * d \in Nat /\ m * k \in Nat
  BY <1>4
<1> QED BY <1>2, <1>5, <1>6

(* A range of pages falls into a beginning and a rest.                     *)
LEMMA SplitRange ==
    ASSUME NEW a \in Nat, NEW n \in Nat, NEW m \in Nat
    PROVE  Sources!Range(a, n + m) = Sources!Range(a, n) \cup Sources!Range(a + n, m) /\ Sources!Range(a, n) \cap Sources!Range(a + n, m) = {}
  BY DEF Sources!Range

STypes ==
    /\ kind \in {"mmap", "creek"}
    /\ page_size \in Nat \ {0} /\ heap_size \in Nat /\ orig \in Nat \ {0}
    /\ page_size > heap_size \/ heap_size % page_size = 0
    /\ bump \in Nat /\ in_use \subseteq Nat /\ handles \subseteq Threads
    /\ chunks \subseteq [at : Nat, size : Nat]
    /\ carving \in [Threads -> [at : Nat, size : Nat, keep : Nat]]

CarvedBy(t) == Sources!Range(carving[t].at, carving[t].size)

SApart ==
    /\ \A c \in chunks : c.at % page_size = 0
    /\ \A c, d \in chunks : c # d => Sources!PagesOfChunk(c) \cap Sources!PagesOfChunk(d) = {}

\* An MmapSource: what is mapped is a chunk's or a carve's, trimmed or not.
SMapped ==
    kind = "mmap" =>
        /\ \A c \in chunks, t \in Threads : Sources!PagesOfChunk(c) \cap CarvedBy(t) = {}
        /\ \A t, u \in Threads : t # u => CarvedBy(t) \cap CarvedBy(u) = {}
        /\ \A x \in in_use : (\E c \in chunks : x \in Sources!PagesOfChunk(c)) \/ (\E t \in Threads : x \in CarvedBy(t))
        /\ \A c \in chunks : Sources!PagesOfChunk(c) \subseteq in_use
        /\ \A t \in Threads : CarvedBy(t) \subseteq in_use
        /\ \A t \in Threads : carving[t] # Sources!Nothing =>
            \/ carving[t].size = carving[t].keep + page_size
            \/ carving[t].size = carving[t].keep + (page_size - (carving[t].at % page_size))

\* A Creek: the chunks are below the bump counter, and within the heap but for
\* the bytes skipped at its beginning.
SBumped ==
    kind = "creek" =>
        /\ carving = [t \in Threads |-> Sources!Nothing]
        /\ handles = {} => chunks = {}
        /\ handles # {} => in_use = Sources!Range(orig, heap_size)
        /\ \A c \in chunks :
            /\ Sources!base <= c.at /\ c.at + c.size <= Sources!base + page_size * bump
            /\ c.at + c.size <= Sources!slush_addr + heap_size

SInv == STypes /\ SApart /\ SMapped /\ SBumped

(* Creek::new: the counter and the first page are aligned.                 *)
LEMMA SBase ==
    ASSUME STypes
    PROVE  /\ Sources!slush_addr \in Nat /\ Sources!base \in Nat /\ Sources!slush_addr >= orig
           /\ Sources!base = Sources!slush_addr + page_size /\ Sources!slush_addr % page_size = 0 /\ Sources!base % page_size = 0
<1>1. /\ orig \in Nat /\ page_size \in Nat \ {0}
      /\ orig % page_size \in 0 .. page_size - 1
  BY Division DEF STypes
<1>2. (orig + (page_size - (orig % page_size))) % page_size = 0
  BY <1>1, NextMultiple
<1>3. Sources!slush_addr \in Nat /\ Sources!slush_addr >= orig /\ Sources!slush_addr % page_size = 0
  BY <1>1, <1>2 DEF Sources!slush_addr
<1>4. (Sources!slush_addr + (page_size - (Sources!slush_addr % page_size))) % page_size = 0
  BY <1>1, <1>3, NextMultiple
<1> QED BY <1>1, <1>3, <1>4 DEF Sources!base

(* The inductive invariant gives what the runs check of the sources.       *)
LEMMA SImplies == ASSUME SInv PROVE Sources!ChunksSound /\ Sources!NothingLeaks
<1>1. Sources!ChunksSound
  <2>1. ASSUME NEW c \in chunks
        PROVE Sources!PagesOfChunk(c) \subseteq
            in_use \cup (IF kind = "creek" THEN Sources!Range(orig + heap_size, Sources!slush_addr - orig) ELSE {})
    <3>1. CASE kind = "mmap"
      BY Zenon, <3>1 DEF SInv, SMapped
    <3>2. CASE kind = "creek"
      <4>1. /\ in_use = orig .. orig + heap_size - 1 /\ Sources!base <= c.at
            /\ c.at + c.size <= Sources!slush_addr + heap_size
        BY <3>2 DEF SInv, SBumped, Sources!Range
      <4>2. /\ Sources!slush_addr \in Nat /\ Sources!base \in Nat /\ Sources!slush_addr >= orig /\ Sources!base > Sources!slush_addr
            /\ orig \in Nat /\ heap_size \in Nat /\ c.at \in Nat /\ c.size \in Nat
        BY SBase DEF SInv, STypes
      <4>3. Sources!Range(orig + heap_size, Sources!slush_addr - orig) = orig + heap_size .. Sources!slush_addr + heap_size - 1
        BY <4>2 DEF Sources!Range
      <4>4. Sources!PagesOfChunk(c) = c.at .. c.at + c.size - 1
        BY DEF Sources!PagesOfChunk, Sources!Range
      <4> QED BY SMTT(30), <3>2, <4>1, <4>2, <4>3, <4>4
    <3> QED BY <3>1, <3>2 DEF SInv, STypes
  <2> QED BY <2>1 DEF Sources!ChunksSound, SInv, SApart
<1>2. Sources!NothingLeaks
  <2> SUFFICES ASSUME kind = "mmap"
               PROVE  in_use = (UNION {Sources!PagesOfChunk(c) : c \in chunks}) \cup (UNION {CarvedBy(t) : t \in Threads})
    BY DEF Sources!NothingLeaks, CarvedBy
  <2> DEFINE A == {Sources!PagesOfChunk(c) : c \in chunks}
             B == {CarvedBy(t) : t \in Threads}
  <2>1. /\ \A x \in in_use : (\E c \in chunks : x \in Sources!PagesOfChunk(c)) \/ (\E t \in Threads : x \in CarvedBy(t))
        /\ \A c \in chunks : Sources!PagesOfChunk(c) \subseteq in_use
        /\ \A t \in Threads : CarvedBy(t) \subseteq in_use
    BY DEF SInv, SMapped
  <2>2. /\ \A c \in chunks : Sources!PagesOfChunk(c) \in A
        /\ \A t \in Threads : CarvedBy(t) \in B
        /\ \A s \in A : \E c \in chunks : s = Sources!PagesOfChunk(c)
        /\ \A s \in B : \E t \in Threads : s = CarvedBy(t)
    OBVIOUS
  <2> HIDE DEF A, B
  <2>3. \A x \in in_use : x \in UNION A \/ x \in UNION B
    BY <2>1, <2>2, Zenon
  <2>4. \A s \in A : s \subseteq in_use
    BY <2>1, <2>2, Zenon
  <2>5. \A s \in B : s \subseteq in_use
    BY <2>1, <2>2, Zenon
  <2>6. in_use \subseteq (UNION A) \cup (UNION B)
    BY <2>3, Zenon
  <2>7. UNION A \subseteq in_use /\ UNION B \subseteq in_use
    BY <2>4, <2>5, Zenon
  <2>8. in_use = (UNION A) \cup (UNION B)
    BY <2>6, <2>7
  <2> QED BY <2>8 DEF A, B
<1> QED BY <1>1, <1>2

(* The invariant holds for a new source.                                   *)
LEMMA SStart == ASSUME Sources!Init PROVE SInv
<1>1. /\ STypes
      /\ carving = [t \in Threads |-> Sources!Nothing] /\ chunks = {}
  BY MemorySourcesAssumption DEF Sources!Init, STypes, Sources!Addresses, Sources!Range, Sources!Nothing
<1>2. \A t \in Threads : carving[t] = Sources!Nothing /\ carving[t].at = 0 /\ carving[t].size = 0 /\ CarvedBy(t) = {}
  <2>1. \A t \in Threads : carving[t] = Sources!Nothing
    BY Zenon, <1>1
  <2>2. Sources!Nothing.at = 0 /\ Sources!Nothing.size = 0 /\ Sources!Range(0, 0) = {}
    BY DEF Sources!Nothing, Sources!Range
  <2> QED BY Zenon, <2>1, <2>2 DEF CarvedBy
<1>3. SMapped
  BY <1>1, <1>2 DEF SMapped, Sources!Init
<1>4. SBumped
  BY <1>1 DEF SBumped, Sources!Init
<1> QED BY <1>1, <1>3, <1>4 DEF SInv, SApart

(* MmapSource::carve with small pages keeps the invariant.                 *)
LEMMA SCarveSmall ==
    ASSUME SInv, NEW t \in Threads, NEW n \in Counts, Sources!CarveSmall(t, n)
    PROVE  SInv'
<1>1. PICK a \in Sources!Addresses : Sources!fallible_map(a, n * page_size) /\ chunks' = chunks \cup {Sources!Chunk(a, n * page_size)}
  BY DEF Sources!CarveSmall
<1>2. PICK c : c = Sources!Chunk(a, n * page_size)
  OBVIOUS
<1>3. /\ page_size = 1 /\ a \in Nat /\ n \in Nat \ {0} /\ kind = "mmap" /\ page_size \in Nat
      /\ n * page_size = n
  BY MemorySourcesAssumption DEF Sources!CarveSmall, SInv, STypes, Sources!Addresses
<1>4. /\ c.at = a /\ c.size = n /\ c \in [at : Nat, size : Nat] /\ Sources!PagesOfChunk(c) = Sources!Range(a, n * page_size)
      /\ a % 1 = 0
  BY <1>2, <1>3 DEF Sources!Chunk, Sources!PagesOfChunk
<1>5. Sources!PagesOfChunk(c) \cap in_use = {} /\ in_use' = in_use \cup Sources!PagesOfChunk(c) /\ Sources!PagesOfChunk(c) \subseteq Nat
  BY <1>1, <1>4 DEF Sources!fallible_map, Sources!Addresses
<1>6. UNCHANGED <<kind, page_size, orig, heap_size, handles, bump, carving>> /\ chunks' = chunks \cup {c}
  BY <1>1, <1>2 DEF Sources!CarveSmall, Sources!fixed
<1>7. STypes'
  BY Zenon, <1>4, <1>5, <1>6 DEF SInv, STypes
<1>8. SApart'
  <2>1. \A d \in chunks : Sources!PagesOfChunk(d) \cap Sources!PagesOfChunk(c) = {}
    BY Zenon, <1>3, <1>5 DEF SInv, SMapped
  <2> QED BY Zenon, <1>3, <1>4, <1>6, <2>1 DEF SInv, SApart
<1>9. \A u \in Threads : CarvedBy(u)' = CarvedBy(u)
  BY <1>6 DEF CarvedBy
<1>10. SMapped'
  <2>1. \A u \in Threads : CarvedBy(u) \cap Sources!PagesOfChunk(c) = {}
    BY Zenon, <1>3, <1>5 DEF SInv, SMapped
  <2> QED BY <1>3, <1>5, <1>6, <1>9, <2>1 DEF SInv, SMapped
<1>11. SBumped'
  BY <1>3, <1>6 DEF SBumped
<1> QED BY <1>7, <1>8, <1>10, <1>11 DEF SInv

(* The mapping with a page to spare keeps the invariant: fallible_map      *)
(* returns pages that nobody has.                                          *)
LEMMA SCarveMap ==
    ASSUME SInv, NEW t \in Threads, NEW n \in Counts, Sources!CarveMap(t, n)
    PROVE  SInv'
<1>1. PICK a \in Sources!Addresses :
        /\ Sources!fallible_map(a, n * page_size + page_size)
        /\ carving' = [carving EXCEPT ![t] =
                        [at |-> a, size |-> n * page_size + page_size, keep |-> n * page_size]]
  BY Zenon DEF Sources!CarveMap
<1>2. PICK r : r = [at |-> a, size |-> n * page_size + page_size, keep |-> n * page_size]
  BY Zenon
<1>3. a \in Nat /\ n \in Nat \ {0} /\ kind = "mmap" /\ page_size \in Nat /\ n * page_size \in Nat
  BY MemorySourcesAssumption DEF Sources!CarveMap, SInv, STypes, Sources!Addresses
<1>4. /\ r.at = a /\ r.size = n * page_size + page_size /\ r.keep = n * page_size
      /\ r \in [at : Nat, size : Nat, keep : Nat]
  BY SMTT(30), <1>2, <1>3
<1>5. /\ carving' = [carving EXCEPT ![t] = r] /\ carving \in [Threads -> [at : Nat, size : Nat, keep : Nat]]
      /\ UNCHANGED <<kind, page_size, orig, heap_size, handles, bump, chunks>>
  BY Zenon, <1>1, <1>2 DEF Sources!CarveMap, SInv, STypes, Sources!fixed
<1>6. carving'[t] = r /\ \A u \in Threads \ {t} : carving'[u] = carving[u]
  BY <1>5
<1>7. CarvedBy(t)' = Sources!Range(a, n * page_size + page_size) /\ \A u \in Threads \ {t} : CarvedBy(u)' = CarvedBy(u)
  BY <1>4, <1>6 DEF CarvedBy
<1>8. PICK new : new = CarvedBy(t)'
  OBVIOUS
<1>9. new \cap in_use = {} /\ in_use' = in_use \cup new /\ new \subseteq Nat
  BY <1>1, <1>7, <1>8 DEF Sources!fallible_map, Sources!Addresses
<1>10. STypes'
  BY Zenon, <1>4, <1>5, <1>9 DEF SInv, STypes
<1>11. SApart'
  BY Zenon, <1>5 DEF SInv, SApart, Sources!PagesOfChunk
<1>12. SMapped'
  <2>1. \A u \in Threads : CarvedBy(u) \cap new = {}
    BY Zenon, <1>3, <1>9 DEF SInv, SMapped
  <2>2. \A c \in chunks : Sources!PagesOfChunk(c) \cap new = {}
    BY Zenon, <1>3, <1>9 DEF SInv, SMapped
  <2>3. CarvedBy(t) = {}
    BY <1>3 DEF Sources!CarveMap, CarvedBy, Sources!Nothing, Sources!Range
  <2>4. r # Sources!Nothing
    BY <1>3, <1>4 DEF SInv, STypes, Sources!Nothing
  <2>5. (\A c \in chunks, u \in Threads : Sources!PagesOfChunk(c) \cap CarvedBy(u) = {})'
    BY Zenon, <1>3, <1>5, <1>7, <1>8, <2>2 DEF SInv, SMapped, Sources!PagesOfChunk
  <2>6. (\A v, u \in Threads : v # u => CarvedBy(v) \cap CarvedBy(u) = {})'
    BY <1>3, <1>7, <1>8, <2>1 DEF SInv, SMapped
  <2>7. (\A x \in in_use : (\E c \in chunks : x \in Sources!PagesOfChunk(c)) \/ (\E u \in Threads : x \in CarvedBy(u)))'
    BY <1>3, <1>5, <1>7, <1>8, <1>9, <2>3 DEF SInv, SMapped
  <2>8. (\A c \in chunks : Sources!PagesOfChunk(c) \subseteq in_use)' /\ (\A u \in Threads : CarvedBy(u) \subseteq in_use)'
    BY ZenonT(40), <1>3, <1>5, <1>7, <1>8, <1>9 DEF SInv, SMapped
  <2>9. (\A u \in Threads : carving[u] # Sources!Nothing =>
            \/ carving[u].size = carving[u].keep + page_size
            \/ carving[u].size = carving[u].keep + (page_size - (carving[u].at % page_size)))'
    BY Zenon, <1>3, <1>4, <1>5, <1>6 DEF SInv, SMapped
  <2> QED BY Zenon, <2>5, <2>6, <2>7, <2>8, <2>9 DEF SMapped
<1>13. SBumped'
  BY <1>3, <1>5 DEF SBumped
<1> QED BY <1>10, <1>11, <1>12, <1>13 DEF SInv

\* Trimming, as both ends have it: thread t's carve gives up the pages `less`,
\* keeps `rest`, and `done` is the chunk it ends with.
STrims(t, less, rest, done) ==
    /\ kind = "mmap" /\ less \cap rest = {} /\ CarvedBy(t) = less \cup rest
    /\ in_use' = in_use \ less
    /\ \/ CarvedBy(t)' = rest /\ done = {}
       \/ CarvedBy(t)' = {} /\ \E c \in done : done = {c} /\ Sources!PagesOfChunk(c) = rest
    /\ chunks' = chunks \cup done
    /\ \A u \in Threads \ {t} : CarvedBy(u)' = CarvedBy(u) /\ carving'[u] = carving[u]
    /\ UNCHANGED <<kind, page_size, orig, heap_size, handles, bump>>

(* Trimming a carve at either end keeps the invariant: only pages of that  *)
(* carve are unmapped.                                                     *)
LEMMA STrim ==
    ASSUME SInv, NEW t \in Threads, NEW less, NEW rest, NEW done, STrims(t, less, rest, done),
           done \subseteq [at : Nat, size : Nat],
           \A c \in done : c.at % page_size = 0,
           carving' \in [Threads -> [at : Nat, size : Nat, keep : Nat]],
           carving'[t] = Sources!Nothing \/
               carving'[t].size = carving'[t].keep + (page_size - (carving'[t].at % page_size))
    PROVE  SInv'
<1>1. /\ kind = "mmap" /\ kind' = "mmap" /\ page_size' = page_size
      /\ CarvedBy(t)' \subseteq rest /\ less \cap rest = {} /\ CarvedBy(t) = less \cup rest
      /\ in_use' = in_use \ less
      /\ \A u \in Threads \ {t} : CarvedBy(u)' = CarvedBy(u) /\ carving'[u] = carving[u]
      /\ \A c \in done : Sources!PagesOfChunk(c) = rest /\ CarvedBy(t)' = {}
      /\ \A c, d \in done : c = d
      /\ done = {} => CarvedBy(t)' = rest
      /\ chunks' = chunks \cup done
  BY Zenon DEF STrims
<1>2. STypes'
  BY <1>1, Zenon DEF SInv, STypes, STrims
<1>3. \A c \in chunks : Sources!PagesOfChunk(c) \cap CarvedBy(t) = {}
  BY Zenon, <1>1 DEF SInv, SMapped
<1>4. \A u \in Threads : u # t => CarvedBy(u) \cap CarvedBy(t) = {}
  BY Zenon, <1>1 DEF SInv, SMapped
<1>5. \A c \in chunks : Sources!PagesOfChunk(c) \cap rest = {} /\ Sources!PagesOfChunk(c) \cap less = {}
  BY <1>1, <1>3, Zenon
<1>6. \A u \in Threads : u # t => CarvedBy(u) \cap rest = {} /\ CarvedBy(u) \cap less = {}
  BY <1>1, <1>4, Zenon
<1>7. SApart'
  <2>1. \A c \in chunks' : c.at % page_size' = 0
    BY Zenon, <1>1 DEF SInv, SApart
  <2>2. ASSUME NEW c \in chunks', NEW d \in chunks', c # d
        PROVE  Sources!PagesOfChunk(c) \cap Sources!PagesOfChunk(d) = {}
    <3>1. CASE c \in chunks /\ d \in chunks
      BY Zenon, <2>2, <3>1 DEF SInv, SApart
    <3>2. CASE c \in done \/ d \in done
      BY <1>1, <1>5, <2>2, <3>2, Zenon
    <3> QED BY Zenon, <1>1, <3>1, <3>2
  <2> QED BY <2>1, <2>2 DEF SApart
<1>8. (\A c \in chunks, u \in Threads : Sources!PagesOfChunk(c) \cap CarvedBy(u) = {})'
  <2> SUFFICES ASSUME NEW c \in chunks', NEW u \in Threads
               PROVE  Sources!PagesOfChunk(c) \cap CarvedBy(u)' = {}
    BY Zenon DEF Sources!PagesOfChunk
  <2>1. CASE c \in done
    <3>1. Sources!PagesOfChunk(c) = rest /\ CarvedBy(t)' = {}
      BY Zenon, <1>1, <2>1
    <3>2. u # t => CarvedBy(u)' \cap rest = {}
      BY Zenon, <1>1, <1>6
    <3> QED BY <3>1, <3>2
  <2>2. CASE c \in chunks /\ u = t
    BY <1>1, <1>5, <2>2, Zenon
  <2>3. CASE c \in chunks /\ u # t
    BY Zenon, <1>1, <2>3 DEF SInv, SMapped
  <2> QED BY ZenonT(30), <1>1, <2>1, <2>2, <2>3
<1>9. (\A v, u \in Threads : v # u => CarvedBy(v) \cap CarvedBy(u) = {})'
  <2> SUFFICES ASSUME NEW v \in Threads, NEW u \in Threads, v # u
               PROVE  CarvedBy(v)' \cap CarvedBy(u)' = {}
    BY Zenon
  <2>1. CASE v = t \/ u = t
    BY <1>1, <1>6, <2>1, Zenon
  <2>2. CASE v # t /\ u # t
    BY <1>1, <2>2 DEF SInv, SMapped
  <2> QED BY Zenon, <2>1, <2>2
<1>10. (\A x \in in_use : (\E c \in chunks : x \in Sources!PagesOfChunk(c)) \/ (\E u \in Threads : x \in CarvedBy(u)))'
  <2> SUFFICES ASSUME NEW x \in in_use'
               PROVE  (\E c \in chunks' : x \in Sources!PagesOfChunk(c)) \/ (\E u \in Threads : x \in CarvedBy(u)')
    BY DEF Sources!PagesOfChunk
  <2>1. x \in in_use /\ x \notin less
    BY Zenon, <1>1
  <2>2. (\E c \in chunks : x \in Sources!PagesOfChunk(c)) \/ (\E u \in Threads : x \in CarvedBy(u))
    BY Zenon, <1>1, <2>1 DEF SInv, SMapped
  <2>3. CASE \E c \in chunks : x \in Sources!PagesOfChunk(c)
    BY <1>1, <2>3, Zenon
  <2>4. CASE \E u \in Threads \ {t} : x \in CarvedBy(u)
    BY <1>1, <2>4, Zenon
  <2>5. CASE x \in CarvedBy(t)
    BY <1>1, <2>1, <2>5, Zenon
  <2> QED BY <2>2, <2>3, <2>4, <2>5, Zenon
<1>11. (\A c \in chunks : Sources!PagesOfChunk(c) \subseteq in_use)'
  <2> SUFFICES ASSUME NEW c \in chunks' PROVE Sources!PagesOfChunk(c) \subseteq in_use'
    BY DEF Sources!PagesOfChunk
  <2>1. rest \subseteq in_use
    BY Zenon, <1>1 DEF SInv, SMapped
  <2>2. CASE c \in done
    BY <1>1, <2>1, <2>2, Zenon
  <2>3. CASE c \in chunks
    <3>1. Sources!PagesOfChunk(c) \subseteq in_use
      BY Zenon, <1>1, <2>3 DEF SInv, SMapped
    <3> QED BY <1>1, <1>5, <2>3, <3>1, Zenon
  <2> QED BY Zenon, <1>1, <2>2, <2>3
<1>12. (\A u \in Threads : CarvedBy(u) \subseteq in_use)'
  <2> SUFFICES ASSUME NEW u \in Threads PROVE CarvedBy(u)' \subseteq in_use'
    OBVIOUS
  <2>1. CarvedBy(u) \subseteq in_use
    BY Zenon, <1>1 DEF SInv, SMapped
  <2> QED BY <1>1, <1>6, <2>1, Zenon
<1>13. (\A u \in Threads : carving[u] # Sources!Nothing =>
            \/ carving[u].size = carving[u].keep + page_size
            \/ carving[u].size = carving[u].keep + (page_size - (carving[u].at % page_size)))'
  BY Zenon, <1>1 DEF SInv, SMapped
<1>14. SMapped'
  BY Zenon, <1>8, <1>9, <1>10, <1>11, <1>12, <1>13 DEF SMapped
<1>15. SBumped'
  BY Zenon, <1>1 DEF SBumped
<1> QED BY <1>2, <1>7, <1>14, <1>15 DEF SInv

(* Unmapping the end of a carve keeps the invariant.                       *)
LEMMA STrimEnd ==
    ASSUME SInv, NEW t \in Threads, Sources!TrimEnd(t)
    PROVE  SInv'
<1>1. PICK c : c = carving[t]
  OBVIOUS
<1>2. PICK rem1 : rem1 = c.at % page_size
  OBVIOUS
<1>3. /\ c.size = c.keep + page_size /\ rem1 # 0
      /\ in_use' = in_use \ Sources!Range(c.at + (page_size - rem1) + c.keep, rem1)
      /\ carving' = [carving EXCEPT ![t].size = @ - rem1]
      /\ UNCHANGED <<kind, page_size, orig, heap_size, handles, bump, chunks>>
  BY <1>1, <1>2 DEF Sources!TrimEnd, Sources!unmap, Sources!fixed
<1>4. /\ page_size \in Nat \ {0} /\ c \in [at : Nat, size : Nat, keep : Nat]
      /\ carving \in [Threads -> [at : Nat, size : Nat, keep : Nat]]
  BY <1>1 DEF SInv, STypes
<1>5. rem1 \in 1 .. page_size - 1
  BY <1>2, <1>3, <1>4, Division
<1>6. PICK r : r = [c EXCEPT !.size = @ - rem1]
  BY Zenon
<1>7. r \in [at : Nat, size : Nat, keep : Nat] /\ r.at = c.at /\ r.keep = c.keep /\ r.size = c.keep + (page_size - rem1)
  BY <1>3, <1>4, <1>5, <1>6
<1>8. carving' = [carving EXCEPT ![t] = r]
  BY Zenon, <1>1, <1>3, <1>6
<1>9. /\ carving' \in [Threads -> [at : Nat, size : Nat, keep : Nat]]
      /\ carving'[t] = r /\ \A u \in Threads \ {t} : carving'[u] = carving[u]
  BY <1>4, <1>7, <1>8
<1>10. kind = "mmap"
  <2> SUFFICES ASSUME kind = "creek" PROVE FALSE
    BY DEF SInv, STypes
  <2>1. c = Sources!Nothing
    BY <1>1 DEF SInv, SBumped
  <2> QED BY <1>3, <1>4, <2>1 DEF Sources!Nothing
<1>11. PICK less : less = Sources!Range(c.at + (page_size - rem1) + c.keep, rem1)
  OBVIOUS
<1>12. PICK rest : rest = Sources!Range(c.at, r.size)
  OBVIOUS
<1>13. less \cap rest = {} /\ CarvedBy(t) = less \cup rest
  <2>1. /\ c.at \in Nat /\ r.size \in Nat /\ rem1 \in Nat /\ c.size = r.size + rem1
        /\ c.at + (page_size - rem1) + c.keep = c.at + r.size
    BY <1>3, <1>4, <1>5, <1>7
  <2>2. /\ Sources!Range(c.at, r.size + rem1) = Sources!Range(c.at, r.size) \cup Sources!Range(c.at + r.size, rem1)
        /\ Sources!Range(c.at, r.size) \cap Sources!Range(c.at + r.size, rem1) = {}
    BY Zenon, <2>1, SplitRange
  <2>3. CarvedBy(t) = Sources!Range(c.at, r.size + rem1) /\ less = Sources!Range(c.at + r.size, rem1)
    BY Zenon, <1>1, <1>11, <2>1 DEF CarvedBy
  <2> QED BY <1>12, <2>2, <2>3, Zenon
<1>14. CarvedBy(t)' = rest /\ \A u \in Threads \ {t} : CarvedBy(u)' = CarvedBy(u)
  BY Zenon, <1>7, <1>9, <1>12 DEF CarvedBy
<1>15. STrims(t, less, rest, {})
  BY <1>3, <1>9, <1>10, <1>11, <1>13, <1>14 DEF STrims
<1>16. r.size = r.keep + (page_size - (r.at % page_size))
  BY <1>2, <1>7
<1> QED BY <1>9, <1>15, <1>16, STrim

(* Unmapping the beginning of a carve keeps the invariant: the chunk that  *)
(* is left is aligned.                                                     *)
LEMMA STrimBegin ==
    ASSUME SInv, NEW t \in Threads, Sources!TrimBegin(t)
    PROVE  SInv'
<1>1. PICK c : c = carving[t]
  OBVIOUS
<1>2. PICK rem2 : rem2 = page_size - (c.at % page_size)
  OBVIOUS
<1>3. /\ c # Sources!Nothing /\ c.size = c.keep + rem2
      /\ in_use' = in_use \ Sources!Range(c.at, rem2)
      /\ chunks' = chunks \cup {Sources!Chunk(c.at + rem2, c.keep)}
      /\ carving' = [carving EXCEPT ![t] = Sources!Nothing]
      /\ UNCHANGED <<kind, page_size, orig, heap_size, handles, bump>>
  BY Zenon, <1>1, <1>2 DEF Sources!TrimBegin, Sources!unmap, Sources!fixed
<1>4. /\ page_size \in Nat \ {0} /\ c \in [at : Nat, size : Nat, keep : Nat]
      /\ carving \in [Threads -> [at : Nat, size : Nat, keep : Nat]]
  BY <1>1 DEF SInv, STypes
<1>5. rem2 \in 1 .. page_size /\ (c.at + rem2) % page_size = 0
  <2>1. c.at \in Nat /\ c.at % page_size \in 0 .. page_size - 1
    BY Zenon, <1>4, Division
  <2>2. (c.at + (page_size - (c.at % page_size))) % page_size = 0
    BY <1>4, <2>1, NextMultiple
  <2> QED BY <1>2, <1>4, <2>1, <2>2
<1>6. Sources!Nothing \in [at : Nat, size : Nat, keep : Nat] /\ Sources!Nothing.at = 0 /\ Sources!Nothing.size = 0 /\ Sources!Range(0, 0) = {}
  BY DEF Sources!Nothing, Sources!Range
<1>7. /\ carving' \in [Threads -> [at : Nat, size : Nat, keep : Nat]]
      /\ carving'[t] = Sources!Nothing /\ \A u \in Threads \ {t} : carving'[u] = carving[u]
  BY <1>3, <1>4, <1>6
<1>8. kind = "mmap"
  <2> SUFFICES ASSUME kind = "creek" PROVE FALSE
    BY DEF SInv, STypes
  <2>1. c = Sources!Nothing
    BY <1>1 DEF SInv, SBumped
  <2> QED BY <1>3, <2>1
<1>9. PICK d : d = Sources!Chunk(c.at + rem2, c.keep)
  OBVIOUS
<1>10. d \in [at : Nat, size : Nat] /\ d.at = c.at + rem2 /\ d.size = c.keep
  BY <1>4, <1>5, <1>9 DEF Sources!Chunk
<1>11. PICK less : less = Sources!Range(c.at, rem2)
  OBVIOUS
<1>12. less \cap Sources!PagesOfChunk(d) = {} /\ CarvedBy(t) = less \cup Sources!PagesOfChunk(d)
  <2>1. c.at \in Nat /\ c.keep \in Nat /\ rem2 \in Nat /\ c.size = rem2 + c.keep
    BY <1>3, <1>4, <1>5
  <2>2. /\ Sources!Range(c.at, rem2 + c.keep) = Sources!Range(c.at, rem2) \cup Sources!Range(c.at + rem2, c.keep)
        /\ Sources!Range(c.at, rem2) \cap Sources!Range(c.at + rem2, c.keep) = {}
    BY Zenon, <2>1, SplitRange
  <2>3. CarvedBy(t) = Sources!Range(c.at, rem2 + c.keep) /\ Sources!PagesOfChunk(d) = Sources!Range(c.at + rem2, c.keep)
    BY <1>1, <1>10, <2>1 DEF CarvedBy, Sources!PagesOfChunk
  <2> QED BY <1>11, <2>2, <2>3, Zenon
<1>13. CarvedBy(t)' = {} /\ \A u \in Threads \ {t} : CarvedBy(u)' = CarvedBy(u)
  BY Zenon, <1>6, <1>7 DEF CarvedBy
<1>14. STrims(t, less, Sources!PagesOfChunk(d), {d})
  BY Zenon, <1>3, <1>7, <1>8, <1>9, <1>11, <1>12, <1>13 DEF STrims
<1>15. \A e \in {d} : e.at % page_size = 0
  BY <1>5, <1>10
<1> QED BY <1>7, <1>10, <1>14, <1>15, STrim

(* Unmapping a chunk keeps the invariant.                                  *)
LEMMA SUnmap ==
    ASSUME SInv, NEW c \in chunks, Sources!Unmap(c)
    PROVE  SInv'
<1>1. /\ kind = "mmap" /\ chunks' = chunks \ {c} /\ in_use' = in_use \ Sources!PagesOfChunk(c)
      /\ UNCHANGED <<kind, page_size, orig, heap_size, handles, bump, carving>>
  BY Zenon DEF Sources!Unmap, Sources!unmap, Sources!PagesOfChunk, Sources!fixed
<1>2. STypes'
  BY Zenon, <1>1 DEF SInv, STypes
<1>3. SApart'
  BY Zenon, <1>1 DEF SInv, SApart, Sources!PagesOfChunk
<1>4. \A u \in Threads : CarvedBy(u)' = CarvedBy(u)
  BY <1>1 DEF CarvedBy
<1>5. /\ \A d \in chunks, u \in Threads : Sources!PagesOfChunk(d) \cap CarvedBy(u) = {}
      /\ \A v, u \in Threads : v # u => CarvedBy(v) \cap CarvedBy(u) = {}
      /\ \A x \in in_use : (\E d \in chunks : x \in Sources!PagesOfChunk(d)) \/ (\E u \in Threads : x \in CarvedBy(u))
      /\ \A d \in chunks : Sources!PagesOfChunk(d) \subseteq in_use
      /\ \A u \in Threads : CarvedBy(u) \subseteq in_use
      /\ \A d \in chunks : d # c => Sources!PagesOfChunk(d) \cap Sources!PagesOfChunk(c) = {}
  BY Zenon, <1>1 DEF SInv, SMapped, SApart
<1>6. (\A d \in chunks, u \in Threads : Sources!PagesOfChunk(d) \cap CarvedBy(u) = {})'
  BY Zenon, <1>1, <1>4, <1>5 DEF Sources!PagesOfChunk
<1>7. (\A v, u \in Threads : v # u => CarvedBy(v) \cap CarvedBy(u) = {})'
  BY Zenon, <1>4, <1>5
<1>8. (\A x \in in_use : (\E d \in chunks : x \in Sources!PagesOfChunk(d)) \/ (\E u \in Threads : x \in CarvedBy(u)))'
  BY SMTT(30), <1>1, <1>4, <1>5 DEF Sources!PagesOfChunk
<1>9. (\A d \in chunks : Sources!PagesOfChunk(d) \subseteq in_use)'
  BY Zenon, <1>1, <1>5 DEF Sources!PagesOfChunk
<1>10. (\A u \in Threads : CarvedBy(u) \subseteq in_use)'
  BY <1>1, <1>4, <1>5
<1>11. SMapped'
  BY Zenon, <1>1, <1>6, <1>7, <1>8, <1>9, <1>10 DEF SInv, SMapped
<1>12. SBumped'
  BY Zenon, <1>1 DEF SBumped
<1> QED BY <1>2, <1>3, <1>11, <1>12 DEF SInv

(* Dropping a clone of the Creek keeps the invariant; the last one unmaps  *)
(* the heap.                                                               *)
LEMMA SDropCreek ==
    ASSUME SInv, NEW t \in Threads, Sources!DropCreek(t)
    PROVE  SInv'
<1>1. /\ kind = "creek" /\ handles' = handles \ {t}
      /\ UNCHANGED <<kind, page_size, orig, heap_size, bump, carving>>
      /\ \/ chunks' = chunks /\ in_use' = in_use /\ handles # {t}
         \/ chunks' = {} /\ in_use' \subseteq in_use /\ handles' = {}
  BY DEF Sources!DropCreek, Sources!unmap, Sources!fixed
<1>2. STypes'
  BY Zenon, <1>1 DEF SInv, STypes
<1>3. SApart'
  BY <1>1 DEF SInv, SApart
<1>4. SMapped'
  BY Zenon, <1>1 DEF SMapped
<1>5. Sources!slush_addr' = Sources!slush_addr /\ Sources!base' = Sources!base
  BY Zenon, <1>1 DEF Sources!slush_addr, Sources!base
<1>6. t \in handles
  BY DEF Sources!DropCreek
<1>7. SBumped'
  BY Zenon, <1>1, <1>5, <1>6 DEF SInv, SBumped, Sources!Range
<1> QED BY <1>2, <1>3, <1>4, <1>7 DEF SInv

(* Creek::carve keeps the invariant: fetch_add gives every caller pages of *)
(* its own, and the check against the heap's size refuses the ones beyond  *)
(* it.                                                                     *)
LEMMA SCarveCreek ==
    ASSUME SInv, NEW t \in Threads, NEW n \in Counts, Sources!CarveCreek(t, n)
    PROVE  SInv'
<1>1. /\ kind = "creek" /\ t \in handles /\ bump' = bump + n
      /\ UNCHANGED <<kind, page_size, orig, heap_size, handles, in_use, carving>>
  BY DEF Sources!CarveCreek, Sources!fixed
<1>2. /\ n \in Nat \ {0} /\ page_size \in Nat \ {0} /\ bump \in Nat /\ heap_size \in Nat
      /\ page_size > heap_size \/ heap_size % page_size = 0
  BY MemorySourcesAssumption DEF SInv, STypes
<1>3. /\ Sources!slush_addr \in Nat /\ Sources!base \in Nat /\ Sources!base = Sources!slush_addr + page_size /\ Sources!base % page_size = 0
      /\ Sources!slush_addr' = Sources!slush_addr /\ Sources!base' = Sources!base
  BY Zenon, <1>1, SBase DEF SInv, Sources!slush_addr, Sources!base
<1>4. PICK low \in Nat : low = page_size * bump
  BY <1>2
<1>5. PICK more \in Nat : more = page_size * n
  BY <1>2
<1>6. page_size * bump' = low + more /\ (bump + n) * page_size = low + more /\ bump * page_size = low /\ n * page_size = more
  BY <1>1, <1>2, <1>4, <1>5
<1>7. \A c \in chunks :
        /\ c.at \in Nat /\ c.size \in Nat /\ Sources!base <= c.at /\ c.at + c.size <= Sources!base + low
        /\ c.at + c.size <= Sources!slush_addr + heap_size
  BY Zenon, <1>1, <1>4 DEF SInv, SBumped, STypes
<1>8. PICK c : c = Sources!Chunk(Sources!base + low, more)
  OBVIOUS
<1>9. c.at = Sources!base + low /\ c.size = more /\ c \in [at : Nat, size : Nat]
  BY <1>3, <1>8 DEF Sources!Chunk
<1>10. chunks' = chunks \/ (low + more < heap_size /\ chunks' = chunks \cup {c})
  BY <1>6, <1>8 DEF Sources!CarveCreek
<1>11. c.at % page_size = 0
  <2>1. PICK q \in Nat : q = Sources!base \div page_size
    BY Zenon, <1>2, <1>3, Division
  <2>2. Sources!base = page_size * q
    <3>1. Sources!base = page_size * (Sources!base \div page_size) + (Sources!base % page_size) /\ page_size * q \in Nat
      BY <1>2, <1>3, Division
    <3> QED BY <1>3, <2>1, <3>1
  <2>3. Sources!base + low = page_size * (q + bump) /\ q + bump \in Nat
    BY <1>2, <1>4, <2>2
  <2>4. (page_size * (q + bump)) % page_size = 0
    BY <1>2, <2>3, Multiple
  <2> QED BY <1>9, <2>3, <2>4
<1>12. low + more < heap_size => c.at + c.size <= Sources!slush_addr + heap_size
  <2> SUFFICES ASSUME low + more < heap_size PROVE c.at + c.size <= Sources!slush_addr + heap_size
    OBVIOUS
  <2>1. more >= page_size
    <3>1. PICK k \in Nat : n = k + 1
      <4>1. n - 1 \in Nat /\ n = (n - 1) + 1
        BY <1>2
      <4> QED BY <4>1
    <3>2. page_size * n = page_size * k + page_size /\ page_size * k \in Nat
      BY <1>2, <3>1
    <3> QED BY <1>2, <1>5, <3>2
  <2>2. heap_size % page_size = 0
    BY <1>2, <2>1
  <2>3. bump + n \in Nat /\ page_size * (bump + n) = low + more
    BY <1>2, <1>6
  <2>4. low + more + page_size <= heap_size
    BY Zenon, <1>2, <2>2, <2>3, NextPage
  <2> QED BY <1>2, <1>3, <1>9, <2>4
<1>13. STypes'
  BY <1>1, <1>2, <1>9, <1>10 DEF SInv, STypes
<1>14. \A d \in chunks : Sources!PagesOfChunk(d) \cap Sources!PagesOfChunk(c) = {}
  BY <1>3, <1>7, <1>9 DEF Sources!PagesOfChunk, Sources!Range
<1>15. SApart'
  <2>1. \A d \in chunks' : d.at % page_size' = 0
    BY SMTT(30), <1>1, <1>10, <1>11 DEF SInv, SApart
  <2>2. \A d, e \in chunks : d # e => Sources!PagesOfChunk(d) \cap Sources!PagesOfChunk(e) = {}
    BY DEF SInv, SApart
  <2>3. \A d, e \in chunks' : d # e => Sources!PagesOfChunk(d) \cap Sources!PagesOfChunk(e) = {}
    BY <1>10, <1>14, <2>2
  <2> QED BY <2>1, <2>3 DEF SApart, Sources!PagesOfChunk
<1>16. SMapped'
  BY Zenon, <1>1 DEF SMapped
<1>17. \A d \in chunks' :
        /\ Sources!base <= d.at /\ d.at + d.size <= Sources!base + (low + more)
        /\ d.at + d.size <= Sources!slush_addr + heap_size
  <2> SUFFICES ASSUME NEW d \in chunks'
               PROVE  /\ Sources!base <= d.at /\ d.at + d.size <= Sources!base + (low + more)
                      /\ d.at + d.size <= Sources!slush_addr + heap_size
    OBVIOUS
  <2>1. CASE d \in chunks
    BY <1>3, <1>7, <2>1
  <2>2. CASE d = c /\ low + more < heap_size
    <3>1. Sources!base <= Sources!base + low /\ Sources!base + low + more <= Sources!base + (low + more)
      BY <1>3
    <3> QED BY <1>9, <1>12, <2>2, <3>1
  <2> QED BY <1>10, <2>1, <2>2
<1>18. SBumped'
  BY Zenon, <1>1, <1>3, <1>6, <1>17 DEF SInv, SBumped, Sources!Range
<1> QED BY ZenonT(30), <1>13, <1>15, <1>16, <1>18 DEF SInv

(* Every step of a source keeps the invariant.                             *)
LEMMA SStep == ASSUME SInv, [Sources!Next]_(Sources!vars) PROVE SInv'
<1>1. CASE UNCHANGED Sources!vars
  BY Zenon, <1>1 DEF Sources!vars, SInv, STypes, SApart, SMapped, SBumped, CarvedBy, Sources!PagesOfChunk, Sources!slush_addr, Sources!base, Sources!Range
<1>2. CASE Sources!Next
  BY Zenon, <1>2, SCarveSmall, SCarveMap, STrimEnd, STrimBegin, SUnmap, SDropCreek, SCarveCreek DEF Sources!Next
<1> QED BY <1>1, <1>2

(* What is mapped is, at every step of a source, a chunk's or a carve's    *)
(* that is being trimmed (MmapSource), or the heap whose pages below the   *)
(* counter are given out (Creek).                                          *)
THEOREM SInvariance == Sources!Spec => []SInv
<1>1. Sources!Init => SInv
  BY SStart
<1>2. SInv /\ [Sources!Next]_(Sources!vars) => SInv'
  BY SStep
<1> QED BY <1>1, <1>2, PTL DEF Sources!Spec

(* The pages that carve returns are mapped, aligned and given out once, and*)
(* an MmapSource leaves no page mapped that nobody has, for any number of  *)
(* threads and any page sizes.                                             *)
THEOREM ChunksAreSound == Sources!Spec => []ChunksSound
<1>1. SInv => ChunksSound
  BY SImplies DEF ChunksSound
<1> QED BY <1>1, SInvariance, PTL
=============================================================================
