------------------------------ MODULE ElfHeap -------------------------------
(***************************************************************************)
(* ElfMalloc (elfmalloc/general.rs) above its two PageAllocs (slag.rs): the*)
(* size classes, the pages that go from one class to another through the   *)
(* clean and dirty pipes, objects mapped on their own, and how free and    *)
(* realloc find out from an address alone what is there: by the AllocType  *)
(* at the 2 MiB boundary below it and the metadata of the slag around it.  *)
(* Addresses and sizes are the code's, in bytes.                           *)
(***************************************************************************)
EXTENDS SlagMetadata

CONSTANTS
    Units,           \* bound: the address space is units 1 .. Units of PAGE bytes
    Offsets,         \* bound: where in a unit a large mapping begins
    UsedPages,       \* bound: the small pages of a unit that are taken from clean
    Requests,        \* the pairs of size and alignment the program asks for
    MaxObjects,      \* bound on the objects at once
    TargetOverhead   \* target_overhead of a PageAlloc

PAGE == 2 * 1024 * 1024
SMALL_PAGE == 256 * 1024
CUTOFF == SMALL_PAGE \div 4
MULTIPLE == 16
os_page == 4096
-----------------------------------------------------------------------------
\* TieredSizeClasses, started from 8 with 25 classes: 8, then multiples of 16,
\* then powers of two.
start_from == 8
n_classes == 25
round_up(n) == round_up_to(n, MULTIPLE)

n_small_classes ==
    LET below == CUTOFF \div MULTIPLE - start_from \div MULTIPLE
    IN  IF below < n_classes \div 2 THEN below ELSE n_classes \div 2
small_start == round_up(start_from)
small_max == n_small_classes * MULTIPLE + small_start - MULTIPLE
medium_start == next_power_of_two(small_max + 1)
max_key == medium_start * 2 ^ (n_classes - n_small_classes - 1)

\* Mutant: the size is rounded down to its class.
MultiplesGetDown(n) == small_start + ((n - small_start) \div MULTIPLE) * MULTIPLE

MultiplesGet(n) == small_start + ((round_up(n) - small_start) \div MULTIPLE) * MULTIPLE
PowersOfTwoGet(n) == medium_start * 2 ^ (log2_up(n) - log2_up(medium_start))

(* get_raw: the class of a size.                                           *)
get_raw(n) ==
    IF n <= 8 THEN 8 ELSE IF n <= small_max THEN MultiplesGet(n) ELSE PowersOfTwoGet(n)

KindOf(class) == IF class < CUTOFF THEN "small" ELSE "big"
PageOf(kind) == IF kind = "small" THEN SMALL_PAGE ELSE PAGE

\* Mutant: the types in another order.
TypeCodeBigFirst(ty) == CASE ty = "big" -> 0 [] ty = "small" -> 1 [] ty = "large" -> 2

(* AllocType, as it is in memory: untouched and uncommitted memory is 0.   *)
TypeCode(ty) == CASE ty = "small" -> 0 [] ty = "big" -> 1 [] ty = "large" -> 2

(* alloc: what size is asked of the classes for an alignment.              *)
AskedFor(size, align) ==
    IF is_power_of_two(size) \/ align <= WordSize THEN size ELSE next_power_of_two(size)

ClassesFor(requests) ==
    {get_raw(AskedFor(r[1], r[2])) : r \in {q \in requests : AskedFor(q[1], q[2]) <= max_key}}
-----------------------------------------------------------------------------
VARIABLES
    metas,           \* the metadata of each class in use
    regions,         \* what is mapped: pairs of first address and end
    cell,            \* what is at the beginning of each small page
    clean, dirty,    \* the pipes of the two PageAllocs
    slags,           \* the pages in use, with their class
    work,            \* pages on their way to a class or back
    objects          \* the program's objects, with their home: slag or mapping

vars == <<metas, regions, cell, clean, dirty, slags, work, objects>>
Classes == DOMAIN metas
Kinds == {"small", "big"}

Zero == [ty |-> 0, size |-> 0, base |-> 0]
Cells == {u * PAGE + p * SMALL_PAGE : u \in 1 .. Units, p \in 0 .. (PAGE \div SMALL_PAGE) - 1}

Disjoint(a, b) == a[2] <= b[1] \/ b[2] <= a[1]
Inside(a, b) == b[1] <= a[1] /\ a[2] <= b[2]
CanMap(lo, size) ==
    /\ lo + size <= (Units + 1) * PAGE
    /\ \A r \in regions : Disjoint(<<lo, lo + size>>, r)

round_to_page(a) == a - (a % PAGE)
get_type(item) == cell[round_to_page(item - 1)].ty
find(item, page_size) == item - (item % page_size)

(* get_page_size; 0 is None.  Only what is aligned to the cutoff can be    *)
(* something else than a small object.                                     *)
get_page_size(item) ==
    IF item % CUTOFF # 0 \/ get_type(item) = TypeCode("small") THEN SMALL_PAGE
    ELSE IF get_type(item) = TypeCode("big") THEN PAGE ELSE 0

(* elfmalloc_get_layout and large_alloc::get_size.                         *)
get_layout(item) ==
    IF get_type(item) = TypeCode("large")
    THEN <<cell[round_to_page(item - 1)].size - PAGE, os_page>>
    ELSE LET page == IF get_type(item) = TypeCode("big") THEN PAGE ELSE SMALL_PAGE
             size == cell[find(item, page)].size
         IN  <<size, IF is_power_of_two(size) THEN size ELSE WordSize>>

(* new_internal: the metadata of every class; none has a slag yet.         *)
Init ==
    /\ metas = [c \in ClassesFor(Requests) |-> compute_metadata(c, PageOf(KindOf(c)), PageOf(KindOf(c)))]
    /\ regions = {}
    /\ cell = [a \in Cells |-> Zero]
    /\ clean = [k \in Kinds |-> {}] /\ dirty = [k \in Kinds |-> {}]
    /\ slags = {}
    /\ work = {}
    /\ objects = {}
-----------------------------------------------------------------------------
\* Slags that have room for another object: the first or the last.
Spots(class) ==
    UNION {{[ptr |-> s.page + metas[class].objects_offset + i * metas[class].object_size, home |-> s] :
                i \in {0, metas[class].n_objects - 1}} : s \in {z \in slags : z.class = class}}
FreeSpots(class) == {f \in Spots(class) : \A o \in objects : o.ptr # f.ptr}

(* PageAlloc::alloc for a class that needs a slag: a dirty page, a clean   *)
(* one, or fresh ones from the lowest free place.                          *)
TakePage(class) ==
    LET k == KindOf(class) IN
    /\ FreeSpots(class) = {}
    /\ \A w \in work : w.class # class
    /\ \/ /\ dirty[k] # {}
          /\ \E p \in dirty[k] :
                /\ dirty' = [dirty EXCEPT ![k] = @ \ {p}]
                /\ work' = work \cup {[page |-> p, class |-> class, do |-> "init"]}
          /\ UNCHANGED <<regions, cell, clean>>
       \/ /\ dirty[k] = {} /\ clean[k] # {}
          /\ \E p \in clean[k] :
                /\ k = "small" => (p % PAGE) \div SMALL_PAGE \in UsedPages
                /\ clean' = [clean EXCEPT ![k] = @ \ {p}]
                /\ work' = work \cup {[page |-> p, class |-> class, do |-> "init"]}
          /\ UNCHANGED <<regions, cell, dirty>>
       \/ /\ dirty[k] = {} /\ clean[k] = {}
          /\ \E u \in 1 .. Units :
                LET p == u * PAGE
                    pages_per == PAGE \div PageOf(k)
                    npages == IF pages_per > 2 THEN pages_per ELSE 2
                    bytes == npages * PageOf(k)
                IN  /\ CanMap(p, bytes)
                    /\ \A v \in 1 .. u - 1 : ~CanMap(v * PAGE, bytes)
                    /\ regions' = regions \cup {<<p, p + bytes>>}
                    /\ cell' = [cell EXCEPT ![p].ty = TypeCode(k)]
                    /\ clean' = [clean EXCEPT ![k] = {p + i * PageOf(k) : i \in 1 .. npages - 1}]
                    /\ work' = work \cup {[page |-> p, class |-> class, do |-> "init"]}
          /\ UNCHANGED dirty
    /\ UNCHANGED <<slags, objects>>

(* Slag::init writes the type and the metadata.                            *)
InitSlag(w) ==
    /\ w.do = "init"
    /\ cell' = [cell EXCEPT ![w.page] = [ty |-> TypeCode(KindOf(w.class)),
                                         size |-> metas[w.class].object_size, base |-> 0]]
    /\ slags' = slags \cup {[page |-> w.page, class |-> w.class]}
    /\ work' = work \ {w}
    /\ UNCHANGED <<regions, clean, dirty, objects>>

(* A slag all of whose objects are free is given back: PageAlloc::free     *)
(* uncommits the whole page if too many are dirty, and otherwise at most   *)
(* what is behind its first system page ...                                *)
FreePage(s) ==
    LET k == KindOf(s.class) IN
    /\ \A o \in objects : o.home # s
    /\ slags' = slags \ {s}
    /\ IF Cardinality(dirty[k]) >= TargetOverhead
       THEN /\ cell' = [cell EXCEPT ![s.page] = Zero]
            /\ work' = work \cup {[page |-> s.page, class |-> s.class, do |-> "clean"]}
       ELSE /\ work' = work \cup {[page |-> s.page, class |-> s.class, do |-> "dirty"]}
            /\ UNCHANGED cell
    /\ UNCHANGED <<regions, clean, dirty, objects>>

(* ... and pushes it.                                                      *)
PushPage(w) ==
    LET k == KindOf(w.class) IN
    /\ \/ w.do = "clean" /\ clean' = [clean EXCEPT ![k] = @ \cup {w.page}] /\ UNCHANGED dirty
       \/ w.do = "dirty" /\ dirty' = [dirty EXCEPT ![k] = @ \cup {w.page}] /\ UNCHANGED clean
    /\ work' = work \ {w}
    /\ UNCHANGED <<regions, cell, slags, objects>>
-----------------------------------------------------------------------------
\* large_alloc::alloc: how much is mapped for a size.
RegionSize(size) == size + PAGE
Carved(size) == round_up_to(RegionSize(size), CUTOFF)

Object(ptr, r, home) ==
    [ptr |-> ptr, size |-> r[1], align |-> r[2], home |-> home, live |-> TRUE]

\* An object for the request, of that many bytes, while obj is what remains.
AllocObject(r, bytes, others) ==
    \/ /\ bytes <= max_key
       /\ \E f \in FreeSpots(get_raw(bytes)) :
            objects' = others \cup {Object(f.ptr, r, f.home)}
       /\ UNCHANGED <<regions, cell>>
    \/ /\ bytes > max_key
       /\ \E u \in 1 .. Units, off \in Offsets :
            LET mem == u * PAGE + off
                res == mem + PAGE
            IN  /\ CanMap(mem, Carved(bytes))
                /\ regions' = regions \cup {<<mem, mem + Carved(bytes)>>}
                /\ cell' = [cell EXCEPT ![round_to_page(res - 1)] =
                                [ty |-> TypeCode("large"), size |-> RegionSize(bytes), base |-> mem]]
                /\ objects' = others \cup {Object(res, r, [page |-> mem, class |-> 0])}

(* Alloc::alloc and c_malloc of alloc_impl.rs.                             *)
Alloc(r) ==
    /\ Cardinality(objects) < MaxObjects
    /\ AllocObject(r, AskedFor(r[1], r[2]), objects)
    /\ UNCHANGED <<clean, dirty, slags, work>>

(* realloc: what is there may be enough; otherwise a new object, and the   *)
(* old one is freed once it has been copied.                               *)
Realloc(o, r) ==
    LET old == get_layout(o.ptr)
        bytes == IF r[2] > WordSize THEN next_power_of_two(r[1]) ELSE r[1]
    IN  /\ o.live
        /\ IF old[2] >= r[2] /\ old[1] >= r[1]
           THEN /\ objects' = (objects \ {o}) \cup {Object(o.ptr, r, o.home)}
                /\ UNCHANGED <<regions, cell>>
           ELSE /\ Cardinality(objects) < MaxObjects
                /\ AllocObject(r, bytes, (objects \ {o}) \cup {[o EXCEPT !.live = FALSE]})
        /\ UNCHANGED <<clean, dirty, slags, work>>

(* large_alloc::free unmaps the size in the AllocInfo, to whole system     *)
(* pages; the rest of what was carved stays mapped.                        *)
FreeLarge(o) ==
    LET at == cell[round_to_page(o.ptr - 1)]
        end == at.base + round_up_to(at.size, os_page)
    IN  /\ regions' = {r \in {IF Inside(<<at.base, end>>, q) THEN <<end, q[2]>> ELSE q : q \in regions} :
                            r[1] < r[2]}
        /\ cell' = [a \in Cells |-> IF at.base <= a /\ a < end THEN Zero ELSE cell[a]]

(* free: the address says what it is.                                      *)
Free(o) ==
    /\ objects' = objects \ {o}
    /\ IF get_page_size(o.ptr) = 0 THEN FreeLarge(o) ELSE UNCHANGED <<regions, cell>>
    /\ UNCHANGED <<clean, dirty, slags, work>>

Next ==
    /\ \/ \E c \in Classes : TakePage(c)
       \/ \E w \in work : InitSlag(w) \/ PushPage(w)
       \/ \E s \in slags : FreePage(s)
       \/ \E r \in Requests : Alloc(r) \/ \E o \in objects : Realloc(o, r)
       \/ \E o \in objects : Free(o)
    /\ UNCHANGED metas

Spec == Init /\ [][Next]_vars
-----------------------------------------------------------------------------
Extent(o) == <<o.ptr, o.ptr + o.size>>

(* "For every pointer returned from a call to alloc, rounding that pointer *)
(* down to a 2MiB boundary yields the location of an AllocType"            *)
(* (general.rs:713), and the right one: free and realloc find the slag and *)
(* the class the object came from, or its own mapping, however pages have  *)
(* been uncommitted and passed between classes since, and although a small *)
(* page's type is kept in another page.                                    *)
TypeLookup ==
    \A o \in objects :
        IF o.home.class = 0
        THEN get_page_size(o.ptr) = 0 /\ cell[round_to_page(o.ptr - 1)].base = o.home.page
        ELSE /\ get_page_size(o.ptr) = PageOf(KindOf(o.home.class))
             /\ find(o.ptr, get_page_size(o.ptr)) = o.home.page
             /\ get_raw(cell[o.home.page].size) = o.home.class
             /\ get_type(o.ptr) = TypeCode(KindOf(o.home.class))

(* Every object has the memory it was asked for, mapped and nobody else's, *)
(* with the alignment that was asked for, and get_layout reports no more   *)
(* than there is.                                                          *)
RoomForAll ==
    \A o \in objects :
        LET whole == <<o.ptr, o.ptr + get_layout(o.ptr)[1]>> IN
        /\ o.ptr % o.align = 0 /\ o.ptr % get_layout(o.ptr)[2] = 0
        /\ Inside(Extent(o), whole)
        /\ \E r \in regions : Inside(whole, r)
        /\ \A q \in objects \ {o} : Disjoint(whole, Extent(q))
        /\ \A a \in Cells : (cell[a] # Zero) => Disjoint(whole, <<a, a + slag_size>>)
=============================================================================
