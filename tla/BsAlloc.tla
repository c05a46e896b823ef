------------------------------ MODULE BsAlloc ------------------------------
(***************************************************************************)
(* bsalloc: a global allocator that keeps a few freed objects of two size  *)
(* classes in lock-free arrays and otherwise maps and unmaps.  A step is   *)
(* one atomic swap of a cache slot, or one system call.                    *)
(***************************************************************************)
EXTENDS Integers, FiniteSets

CONSTANTS
    Threads,
    Blocks,       \* the addresses MapAlloc can return
    CacheSize,    \* CACHE_SIZE of each of the two caches
    Starts,       \* bound: the slots that rng leads to
    Layouts       \* the sizes of the layouts asked for

Caches == {"small", "large"}
None == "null"

object_size(c) == IF c = "small" THEN 1024 ELSE 18 * 1024
ClassOf(size) == IF size < object_size("small") THEN "small"
                 ELSE IF size < object_size("large") THEN "large" ELSE "direct"
PATIENCE(c) == CacheSize[c] \div 4
Slots(c) == 0 .. CacheSize[c] - 1

VARIABLES
    mapped,   \* the size each block is mapped with, 0 if it is not
    cache,    \* the pointers in the caches
    user,     \* the blocks the program has, with the size of their layout
    th        \* what each thread is doing

vars == <<mapped, cache, user, th>>

Idle == [name |-> "idle"]
Go(t, r) == th' = [th EXCEPT ![t] = r]

\* The two loops walk the slots from a random one, with a stride made from it.
Walk(name, size, b, slot, then) ==
    [name |-> name, size |-> size, class |-> ClassOf(size), block |-> b, slot |-> slot,
     stride |-> slot * 2 + 1, left |-> PATIENCE(ClassOf(size)), then |-> then]
NextSlot(o) == (o.slot + o.stride) % CacheSize[o.class]

Init ==
    /\ mapped = [b \in Blocks |-> 0]
    /\ cache = [c \in Caches |-> [s \in Slots(c) |-> None]]
    /\ user = {}
    /\ th = [t \in Threads |-> Idle]

\* Where an allocation begins; a realloc remembers what it replaces.
BeginAlloc(t, size, old) ==
    IF ClassOf(size) = "direct" THEN Go(t, [name |-> "map", size |-> size, bytes |-> size, then |-> old])
    ELSE \E slot \in Starts : Go(t, Walk("alloc", size, None, slot, old))

BeginFree(t, u) ==
    IF ClassOf(u[2]) = "direct" THEN Go(t, [name |-> "unmap", block |-> u[1]])
    ELSE \E slot \in Starts : Go(t, Walk("free", u[2], u[1], slot, <<>>))

(* alloc: a cache by the size, or MapAlloc directly.                       *)
Alloc(t) ==
    /\ th[t] = Idle
    /\ \E size \in Layouts : BeginAlloc(t, size, <<>>)
    /\ UNCHANGED <<mapped, cache, user>>

(* realloc: alloc, copy, dealloc.                                          *)
Realloc(t) ==
    /\ th[t] = Idle
    /\ \E u \in user :
        /\ user' = user \ {u}
        /\ \E size \in Layouts : BeginAlloc(t, size, u)
    /\ UNCHANGED <<mapped, cache>>

(* free: the class comes from the layout's size again.                     *)
Free(t) ==
    /\ th[t] = Idle
    /\ \E u \in user : user' = user \ {u} /\ BeginFree(t, u)
    /\ UNCHANGED <<mapped, cache>>

\* A block is allocated: a realloc goes on to free the old one.
Got(t, b, size, old) ==
    /\ user' = user \cup {<<b, size>>}
    /\ IF old = <<>> THEN Go(t, Idle) ELSE BeginFree(t, old)

\* Mutant: the slot is loaded, not swapped.
SwapOutRead(t) ==
    LET o == th[t] IN
    /\ o.name = "alloc" /\ o.left > 0
    /\ LET p == cache[o.class][o.slot] IN
        IF p = None
        THEN Go(t, [o EXCEPT !.slot = NextSlot(o), !.left = @ - 1]) /\ UNCHANGED user
        ELSE Got(t, p, o.size, o.then)
    /\ UNCHANGED <<mapped, cache>>

(* Cache::alloc: take what is in the slot, if there is anything.           *)
SwapOut(t) ==
    LET o == th[t] IN
    /\ o.name = "alloc" /\ o.left > 0
    /\ cache' = [cache EXCEPT ![o.class][o.slot] = None]
    /\ LET p == cache[o.class][o.slot] IN
        IF p = None
        THEN Go(t, [o EXCEPT !.slot = NextSlot(o), !.left = @ - 1]) /\ UNCHANGED user
        ELSE Got(t, p, o.size, o.then)
    /\ UNCHANGED mapped

GiveUp(t) ==
    /\ th[t].name = "alloc" /\ th[t].left = 0
    /\ Go(t, [name |-> "map", size |-> th[t].size, bytes |-> object_size(th[t].class),
              then |-> th[t].then])
    /\ UNCHANGED <<mapped, cache, user>>

(* MapAlloc::alloc, with the layout of the class or the one asked for.     *)
Map(t) ==
    LET o == th[t] IN
    /\ o.name = "map"
    /\ \E b \in Blocks :
        /\ mapped[b] = 0
        /\ mapped' = [mapped EXCEPT ![b] = o.bytes]
        /\ Got(t, b, o.size, o.then)
    /\ UNCHANGED cache

(* Cache::free: put the block into the slot and go on with what was there. *)
SwapIn(t) ==
    LET o == th[t] IN
    /\ o.name = "free" /\ o.left > 0
    /\ cache' = [cache EXCEPT ![o.class][o.slot] = o.block]
    /\ LET p == cache[o.class][o.slot] IN
        IF p = None THEN Go(t, Idle)
        ELSE Go(t, [o EXCEPT !.block = p, !.slot = NextSlot(o), !.left = @ - 1])
    /\ UNCHANGED <<mapped, user>>

Unmap(t) ==
    LET o == th[t] IN
    /\ \/ o.name = "unmap"
       \/ o.name = "free" /\ o.left = 0
    /\ mapped' = [mapped EXCEPT ![o.block] = 0]
    /\ Go(t, Idle)
    /\ UNCHANGED <<cache, user>>

Next ==
    \E t \in Threads : \/ Alloc(t) \/ Realloc(t) \/ Free(t) \/ SwapOut(t) \/ GiveUp(t)
                       \/ Map(t) \/ SwapIn(t) \/ Unmap(t)

Spec == Init /\ [][Next]_vars
-----------------------------------------------------------------------------
\* What a thread frees, and what its realloc replaces.
Freed(t) == IF th[t].name \in {"free", "unmap"} THEN {th[t].block} ELSE {}
Replaced(t) == IF th[t].name \in {"alloc", "map"} /\ th[t].then # <<>> THEN {th[t].then[1]} ELSE {}

(* Every mapped block is in one cache slot, in one thread's hands or the   *)
(* program's, and no other block is: the swaps of concurrent allocs and    *)
(* frees neither lose a block nor give it out twice.  A block never comes  *)
(* to a class it is too small for, although free tells the class from the  *)
(* layout's size anew.                                                     *)
BlocksInPlace ==
    \A b \in Blocks :
        LET slots == {cs \in UNION {{c} \X Slots(c) : c \in Caches} : cache[cs[1]][cs[2]] = b}
            hands == {h \in Threads \X {1, 2} : b \in IF h[2] = 1 THEN Freed(h[1]) ELSE Replaced(h[1])}
            progs == {u \in user : u[1] = b}
        IN  /\ Cardinality(slots) + Cardinality(hands) + Cardinality(progs)
                 = IF mapped[b] > 0 THEN 1 ELSE 0
            /\ \A cs \in slots : mapped[b] = object_size(cs[1])
            /\ \A u \in progs : mapped[b] >= u[2]
=============================================================================
