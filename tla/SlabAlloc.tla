----------------------------- MODULE SlabAlloc -----------------------------
(***************************************************************************)
(* The slab allocator (slab-alloc/src/lib.rs, stack.rs, aligned.rs,        *)
(* large.rs, init.rs, util.rs): objects of one layout, cut from slabs that *)
(* a backing allocator provides and that are kept on a freelist, the       *)
(* partial ones before the full ones.  A slab is full when all its objects *)
(* are available and empty when none is.  Sizes and addresses are in a     *)
(* scaled unit; the objects are constructed by an InitInitSystem.          *)
(***************************************************************************)
EXTENDS PtrHashMap, LinkedList
LOCAL INSTANCE SequencesExt
LOCAL INSTANCE FiniteSetsExt

CONSTANTS PAGE_SIZE, OBJECTS_PER_SLAB, DEFAULT_MAP_SIZE,
          HdrSize,      \* size of a SlabHeader, a multiple of WordSize
          WordSize,     \* size of a usize
          ObjLayouts,   \* the layouts the allocator may be built for
          MaxSlabSize,  \* bound on the slab sizes choose_size looks at
          MemPages,     \* bound on the pages of the backing allocator
          MaxSlabs      \* bound on the slabs it provides at a time

PowersOfTwo == {2 ^ k : k \in 0 .. 16}
IsPowerOfTwo(n) == n \in PowersOfTwo

\* What the constants are to be.
SlabSound ==
    /\ BUCKET_SIZE \in Nat \ {0}
    /\ IsPowerOfTwo(PAGE_SIZE) /\ IsPowerOfTwo(DEFAULT_MAP_SIZE)
    /\ OBJECTS_PER_SLAB \in Nat \ {0} /\ MaxSlabSize \in Nat /\ MemPages \in Nat
    /\ MaxSlabs \in Nat
    /\ WordSize \in Nat \ {0} /\ HdrSize % WordSize = 0
    /\ \A l \in ObjLayouts : IsPowerOfTwo(l.align) /\ l.size % l.align = 0

RoundUp(n, align) == ((n + align - 1) \div align) * align
RoundDown(n, align) == (n \div align) * align

-----------------------------------------------------------------------------
(* Building an allocator.                                                  *)

\* The low bit of a pointer carries the status of its object.
MinAlign == 2

\* Mutant: the size is not rounded up.
SatisfyMinAlignOnly(l) == [l EXCEPT !.align = Max({l.align, MinAlign})]

SatisfyMinAlign(l) ==
    IF MinAlign <= l.align THEN l
    ELSE [size |-> RoundUp(l.size, MinAlign), align |-> MinAlign]

MaxColor(unused, align) == RoundDown(unused, align)

(* Layout::for_slab_size: as many objects as fit after the header and a    *)
(* stack with one word for each of them; num_obj is 0 for its None.        *)
ForSlabSize(l, slab_size) ==
    LET Begin(n) == RoundUp(HdrSize + n * WordSize, l.align)
        n == Max({k \in 0 .. slab_size : k = 0 \/ Begin(k) + k * l.size <= slab_size})
        unused == slab_size - Begin(n) - n * l.size
    IN  [slab_size |-> slab_size, size |-> l.size, align |-> l.align,
         num_obj |-> n, array_begin |-> Begin(n), unused |-> unused,
         max_color |-> MaxColor(unused, l.align)]

(* choose_size: of the sizes before the first with too many objects, the   *)
(* last with the least unused space per object; else that first one.       *)
ChooseSize(sizes, l) ==
    LET Fit == {ForSlabSize(l, s) : s \in sizes}
        Over == {f \in Fit : f.num_obj > OBJECTS_PER_SLAB}
        Tried == {f \in Fit : /\ f.num_obj > 0
                              /\ \A o \in Over : f.slab_size < o.slab_size}
        Best == {f \in Tried : \A g \in Tried :
                    f.unused * g.num_obj <= g.unused * f.num_obj}
    IN  IF Tried = {} THEN Min({o.slab_size : o \in Over})
        ELSE Max({f.slab_size : f \in Best})

\* The iterators step before they yield: the first size is two pages here,
AlignedSizes == {s \in PAGE_SIZE + 1 .. MaxSlabSize : IsPowerOfTwo(s)}

\* and one page more than the object's whole pages here.
LargeSizes(l) ==
    {s \in 1 .. MaxSlabSize : s > RoundDown(l.size, PAGE_SIZE) /\ s % PAGE_SIZE = 0}

NextPowerOfTwo(n) == Min({p \in PowersOfTwo : p >= n})

(* build_backing, where get_aligned does (aligned) or does not provide the *)
(* size chosen for aligned slabs.                                          *)
BuildBacking(layout, aligned) ==
    LET l == SatisfyMinAlign(layout)
        sizes == IF aligned THEN AlignedSizes ELSE LargeSizes(l)
        kind == IF aligned THEN "aligned"
                ELSE IF l.size < PAGE_SIZE THEN "page" ELSE "object"
        key_align == IF kind = "page" THEN PAGE_SIZE ELSE NextPowerOfTwo(l.size)
    IN  [kind |-> kind, key_align |-> key_align,
         stack |-> ForSlabSize(l, ChooseSize(sizes, l))]

-----------------------------------------------------------------------------
VARIABLES
    sys,    \* what build_backing fixed
    a,      \* the fields of the SizedSlabAlloc and of its slab system
    live,   \* the objects the program holds
    built,  \* the addresses where a constructed object is
    phase   \* "open", "dropped", "panicked", or "undefined" behaviour

vars == <<sys, a, live, built, phase>>

L == sys.stack
Slabs == DOMAIN a.stack

(* InitInitSystem::pack, unpack_status and unpack_ptr.                     *)
Pack(ptr, initialized) == IF initialized /\ ptr % 2 = 0 THEN ptr + 1 ELSE ptr
UnpackStatus(packed) == packed % 2 = 1
UnpackPtr(packed) == RoundDown(packed, 2)

IsFull(s, slab) == Len(s.stack[slab]) = L.num_obj
IsEmpty(s, slab) == s.stack[slab] = <<>>

NthObj(slab, color, n) == slab + L.array_begin + color + n * L.size

\* ColorSettings::next_color: the color of the slab after this one.
NextColor(color) == IF color = L.max_color THEN 0 ELSE color + L.align

(* The keys a large slab has in the hash table: its pages or its objects.  *)
Keys(slab, color) ==
    CASE sys.kind = "aligned" -> <<>>
      [] sys.kind = "page" -> [i \in 1 .. L.slab_size \div PAGE_SIZE |->
                                  slab + (i - 1) * PAGE_SIZE]
      [] sys.kind = "object" -> [i \in 1 .. L.num_obj |-> NthObj(slab, color, i - 1)]

PtrToSlab(s, ptr) ==
    CASE sys.kind = "aligned" -> RoundDown(ptr, L.slab_size)
      [] sys.kind = "page" -> Get(s.map, RoundDown(ptr, PAGE_SIZE))
      [] sys.kind = "object" -> Get(s.map, ptr)

(* External: the blocks the backing allocator may return.                  *)
Block(slab) == slab .. slab + L.slab_size - 1

FreeBlocks ==
    {b \in PAGE_SIZE .. (MemPages + 1) * PAGE_SIZE - L.slab_size :
        /\ Cardinality(Slabs) < MaxSlabs
        /\ b % (IF sys.kind = "aligned" THEN L.slab_size ELSE PAGE_SIZE) = 0
        /\ \A slab \in Slabs : Block(slab) \cap Block(b) = {}}

(* alloc_slab, of the allocator and of its slab system.                    *)
AllocSlab(s, slab) ==
    LET color == s.cur_color
        objs == [i \in 1 .. L.num_obj |-> Pack(NthObj(slab, color, i - 1), FALSE)]
        m == FoldLeft(LAMBDA t, k : Insert(t, k, slab), s.map, Keys(slab, color))
        with == DOMAIN s.stack \cup {slab}
    IN  [s EXCEPT !.cur_color = NextColor(color),
                  !.stack = [b \in with |-> IF b = slab THEN objs ELSE s.stack[b]],
                  !.color = [b \in with |-> IF b = slab THEN color ELSE s.color[b]],
                  !.map = m,
                  !.freelist = InsertBack(AddNode(@, slab), slab),
                  !.total_slabs = @ + 1,
                  !.num_full = @ + 1]

(* dealloc_slab of the slab system, for the slabs one after the other.     *)
DeallocSlabs(s, slabs) ==
    LET keys == FlattenSeq([i \in DOMAIN slabs |-> Keys(slabs[i], s.color[slabs[i]])])
        rest == DOMAIN s.stack \ Range(slabs)
    IN  [s EXCEPT !.map = FoldLeft(Delete, @, keys),
                  !.stack = [b \in rest |-> s.stack[b]],
                  !.color = [b \in rest |-> s.color[b]],
                  !.freelist = DropNodes(@, Range(slabs))]

\* The constructed objects that dealloc_slab drops when s becomes t.
Dropped(s, t) ==
    {UnpackPtr(e) : e \in {x \in UNION {Range(s.stack[b]) :
                              b \in DOMAIN s.stack \ DOMAIN t.stack} : UnpackStatus(x)}}
-----------------------------------------------------------------------------
Init ==
    /\ \E l \in ObjLayouts, aligned \in BOOLEAN : sys = BuildBacking(l, aligned)
    /\ a = [freelist |-> NewList, total_slabs |-> 0, num_full |-> 0, refcnt |-> 0,
            min_full |-> 0, stack |-> <<>>, color |-> <<>>, cur_color |-> 0,
            map |-> NewMap(DEFAULT_MAP_SIZE, sys.key_align)]
    /\ live = {} /\ built = {} /\ phase = "open"

\* Mutant: the minimum is not updated.
TakeFullUncounted(s) == [s EXCEPT !.num_full = @ - 1]

(* The start of alloc on a full slab: update_min of the working set.       *)
TakeFull(s) ==
    [s EXCEPT !.num_full = @ - 1,
              !.min_full = IF s.num_full - 1 < @ THEN s.num_full - 1 ELSE @]

(* alloc, from a freelist that is not empty: the object on top of the      *)
(* stack of the first slab, constructed if it is not.                      *)
AllocFrom(s) ==
    LET slab == s.freelist.head
        t == IF IsFull(s, slab) THEN TakeFull(s) ELSE s
        packed == Last(t.stack[slab])
        u == [t EXCEPT !.stack[slab] = Front(@), !.refcnt = @ + 1]
    IN  /\ a' = IF IsEmpty(u, slab) THEN [u EXCEPT !.freelist = RemoveFront(@)] ELSE u
        /\ live' = live \cup {UnpackPtr(packed)}
        /\ built' = IF UnpackStatus(packed) THEN built
                    ELSE built \cup {UnpackPtr(packed)}
        /\ UNCHANGED <<sys, phase>>

Alloc ==
    /\ phase = "open"
    /\ a.freelist.size # 0
    /\ AllocFrom(a)

AllocFresh ==
    /\ phase = "open"
    /\ a.freelist.size = 0
    /\ \E slab \in FreeBlocks : AllocFrom(AllocSlab(a, slab))

\* The color is consumed before the backing allocator is asked.
AllocExhausted ==
    /\ phase = "open"
    /\ a.freelist.size = 0
    /\ a' = [a EXCEPT !.cur_color = NextColor(@)]
    /\ UNCHANGED <<sys, live, built, phase>>

(* The place of the slab in the freelist after one of its objects is freed. *)
Refile(s, slab, was_empty) ==
    CASE was_empty /\ IsFull(s, slab) ->
            [s EXCEPT !.freelist = InsertBack(@, slab), !.num_full = @ + 1]
      [] ~ was_empty /\ IsFull(s, slab) ->
            [s EXCEPT !.freelist = MoveToBack(@, slab), !.num_full = @ + 1]
      [] was_empty /\ ~ IsFull(s, slab) ->
            [s EXCEPT !.freelist = InsertFront(@, slab)]
      [] OTHER -> s

(* garbage_collect_slabs once a working period has elapsed: the slabs that *)
(* were full all through it leave from the back of the freelist.           *)
Collect(s) ==
    LET Back[k \in 0 .. s.min_full] ==
            IF k = 0 THEN s.freelist ELSE RemoveBack(Back[k - 1])
        gone == [k \in 1 .. s.min_full |-> Back[k - 1].tail]
    IN  [DeallocSlabs([s EXCEPT !.freelist = Back[s.min_full]], gone) EXCEPT
            !.total_slabs = @ - s.min_full,
            !.num_full = @ - s.min_full,
            !.min_full = s.num_full - s.min_full]

\* The stack push of dealloc, which marks the object constructed.
Push(s, slab, ptr) == [s EXCEPT !.stack[slab] = Append(@, Pack(ptr, TRUE))]

(* dealloc; elapsed is the answer of the clock.                            *)
Dealloc(ptr, elapsed) ==
    /\ phase = "open"
    /\ LET slab == PtrToSlab(a, ptr)
           s == Refile(Push(a, slab, ptr), slab, IsEmpty(a, slab))
           t == IF IsFull(s, slab) /\ elapsed THEN Collect(s) ELSE s
       IN  /\ a' = [t EXCEPT !.refcnt = @ - 1]
           /\ built' = built \ Dropped(s, t)
    /\ live' = live \ {ptr}
    /\ UNCHANGED <<sys, phase>>

\* The slabs of the freelist go back to the backing allocator.
Teardown ==
    LET n == a.freelist.size
        Rest[k \in 0 .. n] == IF k = 0 THEN a.freelist ELSE RemoveFront(Rest[k - 1])
        gone == [k \in 1 .. n |-> Rest[k - 1].head]
        s == DeallocSlabs([a EXCEPT !.freelist = Rest[n]], gone)
    IN  /\ a' = s
        /\ built' = built \ Dropped(a, s)

(* Drop with no object outstanding.                                        *)
Drop ==
    /\ phase = "open"
    /\ a.refcnt = 0
    /\ Teardown
    /\ phase' = "dropped"
    /\ UNCHANGED <<sys, live>>

(* Drop with objects outstanding: a panic, after which the slabs are left. *)
DropPanics ==
    /\ phase = "open"
    /\ a.refcnt # 0
    /\ phase' = "panicked"
    /\ UNCHANGED <<sys, a, live, built>>

(* Drop with objects outstanding while the thread unwinds: the freelist is *)
(* torn down all the same.  A partial slab has fewer entries on its stack  *)
(* than dealloc_slab pops, and what those pops read is undefined.          *)
DropUnwinding ==
    /\ phase = "open"
    /\ a.refcnt # 0
    /\ IF \A slab \in Range(Order(a.freelist)) : IsFull(a, slab)
       THEN Teardown /\ phase' = "dropped"
       ELSE phase' = "undefined" /\ UNCHANGED <<a, built>>
    /\ UNCHANGED <<sys, live>>

Next ==
    \/ Alloc
    \/ AllocFresh
    \/ AllocExhausted
    \/ \E ptr \in live, elapsed \in BOOLEAN : Dealloc(ptr, elapsed)
    \/ Drop
    \/ DropPanics
    \/ DropUnwinding

Spec == Init /\ [][Next]_vars

-----------------------------------------------------------------------------
(* However the links were changed, the freelist holds every slab with an   *)
(* available object once, read from either end, "partial slabs first,      *)
(* followed by full slabs"; a slab outside of it has the null links that   *)
(* the list's assertions ask for; and num_full, total_slabs and refcnt     *)
(* count what they say.  It is what lets alloc look at the first slab only *)
(* and the collection take slabs from the back.                            *)
FreelistOrder ==
    phase = "open" =>
        /\ WellLinked(a.freelist)
        /\ LET list == Order(a.freelist)
           IN  /\ IsInjective(list)
               /\ Range(list) = {slab \in Slabs : ~ IsEmpty(a, slab)}
               /\ \A i, j \in DOMAIN list :
                     i < j /\ IsFull(a, list[i]) => IsFull(a, list[j])
        /\ a.num_full = Cardinality({slab \in Slabs : IsFull(a, slab)})
        /\ a.total_slabs = Cardinality(Slabs)
        /\ a.refcnt = Cardinality(live)

(* Whenever a working period ends, the slabs garbage_collect_slabs takes   *)
(* from the back are full: the minimum it kept never exceeds the number of *)
(* full slabs, though alloc has used full slabs and dealloc has refilled   *)
(* others since.                                                           *)
CollectsOnlyFull ==
    phase = "open" =>
        LET list == Reverse(Order(a.freelist))
        IN  \A i \in 1 .. a.min_full : i <= Len(list) /\ IsFull(a, list[i])

(* dealloc finds the slab of every object the program holds, by the mask   *)
(* or in the hash table, however the table grew and shrank as slabs came   *)
(* and went; and the table has no entry but those of the slabs.            *)
FindsSlab ==
    phase = "open" =>
        /\ \A ptr \in live : LET slab == PtrToSlab(a, ptr)
                             IN  slab \in Slabs /\ ptr \in Block(slab)
        /\ \A slab \in Slabs : \A k \in Range(Keys(slab, a.color[slab])) :
              Get(a.map, k) = slab
        /\ a.map.size = Cardinality(UNION {Range(Keys(slab, a.color[slab])) : slab \in Slabs})

(* The objects of a slab, held or available, are at every moment exactly   *)
(* the num_obj addresses it was cut into: each is on the stack once or     *)
(* held, never both, they do not overlap, are aligned as the layout asks,  *)
(* and lie between the stack and the end of the slab, whatever its color.  *)
(* An object is constructed once in the life of its slab and dropped once  *)
(* when the slab goes: the status packed in a pointer says whether there   *)
(* is an object behind it, every object handed out is constructed, and     *)
(* none is left once the allocator is dropped in order.                    *)
ObjectsFit ==
    /\ phase = "open" =>
        /\ live \subseteq built
        /\ \A slab \in Slabs :
            LET free == {UnpackPtr(e) : e \in Range(a.stack[slab])}
                objs == free \cup (live \cap Block(slab))
            IN  /\ Cardinality(free) = Len(a.stack[slab])
                /\ free \cap live = {}
                /\ Cardinality(objs) = L.num_obj
                /\ \A o \in objs : /\ o % L.align = 0
                                   /\ o >= slab + HdrSize + L.num_obj * WordSize
                                   /\ o + L.size <= slab + L.slab_size
                /\ \A o, q \in objs : o < q => o + L.size <= q
                /\ \A e \in Range(a.stack[slab]) :
                      UnpackStatus(e) <=> UnpackPtr(e) \in built
    /\ phase = "dropped" /\ live = {} => built = {} /\ Slabs = {}
=============================================================================
