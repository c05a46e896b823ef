----------------------------- MODULE RustAlloc ------------------------------
(***************************************************************************)
(* ElfMalloc of elfmalloc/rust_alloc.rs, the allocator that is told the    *)
(* Layout when an object is freed: which class a Layout belongs to, and the*)
(* pages of the medium classes, which go between the cache that each handle*)
(* has for a class (PageFrontend) and the pool of all (PageSource).  Small *)
(* objects are slags, modelled elsewhere, and have no page here, as large  *)
(* ones, which are mapped and unmapped each on its own.                    *)
(***************************************************************************)
EXTENDS SlagMetadata

CONSTANTS
    Handles,         \* clones of one ElfMalloc; each is used by one thread at a time
    Groups,          \* bound: how often four pages can be carved
    Asked,           \* the Layouts asked for, as pairs of size and alignment
    MaxGiven,        \* bound on the objects at once
    MaxOverhead      \* max_overhead of a PageFrontend

MultipleOf == 16
small_page == 16 * 1024                         \* page_size of GLOBAL_HANDLE
large_page == 8 * 1024 * 1024                   \* max_size
npages == 4
Pages == 1 .. npages * Groups

VARIABLES
    keys,            \* max_key of the small and of the medium classes, and the latter
    live,            \* the handles in use
    local,           \* the pages of each handle's PageFrontend of each class
    pool,            \* the pages of the PageSource
    gone,            \* how many of a page's bytes, from its start, are not mapped
    given,           \* the objects of the program, with their Layout, class and page
    op               \* what each handle is doing, and with which page

vars == <<keys, live, local, pool, gone, given, op>>
-----------------------------------------------------------------------------
(* ElfMallocBuilder::build: the classes.                                   *)
BuiltKeys ==
    LET small == ((small_page \div 4) \div MultipleOf) * MultipleOf
        next_size_class == next_power_of_two(small + 1)
        n_classes == log2_up(large_page) - log2_up(next_size_class)
    IN  [small |-> small, large |-> next_size_class * 2 ^ (n_classes - 1),
         medium |-> {next_size_class * 2 ^ k : k \in 0 .. n_classes - 1}]

(* case_analyze                                                            *)
Tier(size) ==
    IF size <= keys.small THEN "small" ELSE IF size <= keys.large THEN "medium" ELSE "large"
IsMedium(l) == Tier(l[1]) = "medium"

SmallSize(l) == IF l[2] > WordSize THEN next_power_of_two(l[1]) ELSE l[1]
LargerSize(l) == IF IsMedium(l) THEN next_power_of_two(l[1]) ELSE l[1]

(* The class alloc takes an object from, and the one dealloc gives it to.  *)
AllocClass(l) ==
    IF Tier(l[1]) = "small" THEN round_up_to(SmallSize(l), MultipleOf) ELSE LargerSize(l)

DeallocClass(l) ==
    IF Tier(l[1]) = "small"
    THEN round_up_to(IF l[2] > WordSize THEN SmallSize(l) ELSE round_up_to(l[1], MultipleOf), MultipleOf)
    ELSE LargerSize(l)

usable_size(l) == IF Tier(l[1]) = "small" THEN SmallSize(l) ELSE LargerSize(l)
-----------------------------------------------------------------------------
Classes == UNION {DOMAIN local[h] : h \in Handles}
Idle == [at |-> "idle", page |-> 0, layout |-> <<0, 0>>, rest |-> {}]
Goto(h, o) == op' = [op EXCEPT ![h] = o]
Object(p, l) == [page |-> p, layout |-> l, class |-> AllocClass(l)]

Init ==
    /\ \E h \in Handles : live = {h}
    /\ keys = BuiltKeys
    /\ local = [h \in Handles |-> [c \in {AllocClass(l) : l \in {k \in Asked : IsMedium(k)}} |-> {}]]
    /\ pool = {}
    /\ gone = [p \in Pages |-> large_page]
    /\ given = {}
    /\ op = [h \in Handles |-> Idle]

(* Clone: a Lazy clones its parameters and not its value, so the new handle*)
(* shares the pool and has caches of its own.                              *)
Clone(h) ==
    /\ live # {} /\ h \notin live
    /\ live' = live \cup {h}
    /\ UNCHANGED <<local, pool, gone, given, op>>

(* alloc.  A medium object is a page of the handle's cache, or else ...    *)
Alloc(h, l) ==
    /\ h \in live /\ op[h] = Idle /\ Cardinality(given) < MaxGiven
    /\ IF ~IsMedium(l)
       THEN given' = given \cup {Object(0, l)} /\ UNCHANGED <<local, op>>
       ELSE LET c == AllocClass(l) IN
            IF local[h][c] # {}
            THEN \E p \in local[h][c] :
                    /\ local' = [local EXCEPT ![h][c] = @ \ {p}]
                    /\ given' = given \cup {Object(p, l)}
                    /\ UNCHANGED op
            ELSE Goto(h, [Idle EXCEPT !.at = "source", !.layout = l]) /\ UNCHANGED <<local, given>>
    /\ UNCHANGED <<live, pool, gone>>

(* ... PageSource::alloc: one of the pool, or the first of four new ones.  *)
(* When none can be carved, the caller gets Exhausted.                     *)
SourceAlloc(h) ==
    /\ op[h].at = "source"
    /\ \/ \E p \in pool :
            /\ pool' = pool \ {p}
            /\ given' = given \cup {Object(p, op[h].layout)}
            /\ Goto(h, Idle)
            /\ UNCHANGED gone
       \/ /\ pool = {}
          /\ \E g \in 0 .. Groups - 1 :
                LET new == npages * g + 1 .. npages * g + npages IN
                /\ \A p \in new : gone[p] = large_page
                /\ gone' = [p \in Pages |-> IF p \in new THEN 0 ELSE gone[p]]
                /\ Goto(h, [op[h] EXCEPT !.at = "carved", !.page = npages * g + 1,
                                         !.rest = new \ {npages * g + 1}])
          /\ UNCHANGED <<pool, given>>
       \/ pool = {} /\ Goto(h, Idle) /\ UNCHANGED <<pool, given, gone>>
    /\ UNCHANGED <<live, local>>

(* The others are pushed one by one.                                       *)
PushFresh(h) ==
    /\ op[h].at = "carved"
    /\ IF op[h].rest = {}
       THEN /\ given' = given \cup {Object(op[h].page, op[h].layout)}
            /\ Goto(h, Idle)
            /\ UNCHANGED pool
       ELSE LET p == CHOOSE q \in op[h].rest : \A r \in op[h].rest : q <= r IN
            /\ pool' = pool \cup {p}
            /\ Goto(h, [op[h] EXCEPT !.rest = @ \ {p}])
            /\ UNCHANGED given
    /\ UNCHANGED <<live, local, gone>>
-----------------------------------------------------------------------------
\* Mutant: no return after the page has gone to the parent.
DeallocTwice(h, o) ==
    LET c == DeallocClass(o.layout) IN
    /\ h \in live /\ op[h] = Idle
    /\ given' = given \ {o}
    /\ IF ~IsMedium(o.layout) THEN UNCHANGED <<local, op>>
       ELSE /\ local' = [local EXCEPT ![h][c] = @ \cup {o.page}]
            /\ IF Cardinality(local[h][c]) >= MaxOverhead
               THEN Goto(h, [Idle EXCEPT !.at = "return", !.page = o.page])
               ELSE UNCHANGED op
    /\ UNCHANGED <<live, pool, gone>>

(* dealloc, in any handle.  A medium object goes to the handle's cache, if *)
(* that has room and the push succeeds, or else ...                        *)
Dealloc(h, o) ==
    LET c == DeallocClass(o.layout) IN
    /\ h \in live /\ op[h] = Idle
    /\ given' = given \ {o}
    /\ IF ~IsMedium(o.layout) THEN UNCHANGED <<local, op>>
       ELSE \/ /\ Cardinality(local[h][c]) < MaxOverhead
               /\ local' = [local EXCEPT ![h][c] = @ \cup {o.page}]
               /\ UNCHANGED op
            \/ Goto(h, [Idle EXCEPT !.at = "return", !.page = o.page]) /\ UNCHANGED local
    /\ UNCHANGED <<live, pool, gone>>

(* ... to PageSource::free, which unmaps it or, having uncommitted what is *)
(* above the cutoff, pushes it: size_guess may be off by pushes and pops   *)
(* under way, so either may happen.                                        *)
SourceFree(h) ==
    /\ op[h].at = "return"
    /\ \/ /\ gone' = [gone EXCEPT ![op[h].page] = large_page]
          /\ Goto(h, Idle)
       \/ /\ Goto(h, [op[h] EXCEPT !.at = "push"])
          /\ UNCHANGED gone
    /\ UNCHANGED <<live, local, pool, given>>

SourcePush(h) ==
    /\ op[h].at = "push"
    /\ pool' = pool \cup {op[h].page}
    /\ Goto(h, Idle)
    /\ UNCHANGED <<live, local, gone, given>>

(* destroy, when an OwnedElfMalloc is dropped: its caches unmap as much of *)
(* each page as their objects have; the pool goes with the last handle.    *)
Drop(h) ==
    /\ h \in live /\ op[h] = Idle
    /\ live' = live \ {h}
    /\ local' = [local EXCEPT ![h] = [c \in Classes |-> {}]]
    /\ gone' = [p \in Pages |->
                    IF \E c \in Classes : p \in local[h][c]
                    THEN CHOOSE c \in Classes : p \in local[h][c]
                    ELSE IF p \in pool /\ live = {h} THEN large_page ELSE gone[p]]
    /\ pool' = IF live = {h} THEN {} ELSE pool
    /\ UNCHANGED <<given, op>>

Next ==
    /\ \E h \in Handles :
        \/ Clone(h) \/ Drop(h)
        \/ \E l \in Asked : Alloc(h, l)
        \/ SourceAlloc(h) \/ PushFresh(h)
        \/ \E o \in given : Dealloc(h, o)
        \/ SourceFree(h) \/ SourcePush(h)
    /\ UNCHANGED keys

Spec == Init /\ [][Next]_vars
-----------------------------------------------------------------------------
\* In how many places a page is.
Places(p) ==
    Cardinality({o \in given : o.page = p})
    + Cardinality({x \in Handles \X Classes : p \in local[x[1]][x[2]]})
    + Cardinality({h \in Handles : op[h].page = p \/ p \in op[h].rest})
    + (IF p \in pool THEN 1 ELSE 0)

(* A page of the medium classes is an object, or in one cache, or in the   *)
(* pool, or on its way, and only while all of it is mapped; every other    *)
(* page has been unmapped, at least as far as the class it was last cached *)
(* for reached.  With the last handle the caches and the pool are gone.    *)
PagesInPlace ==
    /\ \A p \in Pages : Places(p) = IF gone[p] = 0 THEN 1 ELSE 0
    /\ live = {} => \A p \in Pages : gone[p] # 0 \/ \E o \in given : o.page = p

(* dealloc, from the Layout, finds the class from which alloc, from the    *)
(* same Layout, took the object; the class has room for usable_size, and a *)
(* medium one fits a page.                                                 *)
SameClass ==
    \A o \in given :
        /\ DeallocClass(o.layout) = o.class
        /\ o.layout[1] <= usable_size(o.layout) /\ usable_size(o.layout) <= o.class
        /\ IsMedium(o.layout) => o.class \in keys.medium /\ o.class < large_page
        /\ o.class % o.layout[2] = 0
=============================================================================
