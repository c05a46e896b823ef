--------------------------- MODULE MemorySources ---------------------------
(***************************************************************************)
(* The sources of fresh pages (elfmalloc/src/sources.rs): MmapSource, which*)
(* maps more than it needs and trims both ends to get aligned memory, and  *)
(* Creek, which carves one large mapping with a shared bump counter.  An   *)
(* address is the number of a system page; a step is a system call or an   *)
(* access to the bump counter.                                             *)
(***************************************************************************)
EXTENDS Integers, FiniteSets

CONSTANTS
    Threads,
    Last,        \* bound: system pages 1 .. Last can be mapped; 0 is null
    PageSizes,   \* the page sizes of a source, in system pages
    Counts,      \* the npages asked for
    HeapSizes,   \* the sizes a Creek maps
    MaxBump      \* bound on the bump counter

Addresses == 1 .. Last
Range(a, n) == a .. a + n - 1

VARIABLES
    kind,        \* which source this is
    page_size,
    orig,        \* where the Creek's heap is mapped ...
    heap_size,   \* ... and how large it is (map_info)
    handles,     \* the threads that have a clone of the Creek
    bump,
    in_use,      \* the system pages that are mapped
    chunks,      \* what carve has returned and nobody has unmapped
    carving      \* what each thread's carve has mapped so far

vars == <<kind, page_size, orig, heap_size, handles, bump, in_use, chunks, carving>>
fixed == <<kind, page_size, orig, heap_size>>

Chunk(a, n) == [at |-> a, size |-> n]
PagesOfChunk(c) == Range(c.at, c.size)
Nothing == [at |-> 0, size |-> 0, keep |-> 0]

fallible_map(a, n) ==
    /\ Range(a, n) \subseteq Addresses \ in_use
    /\ in_use' = in_use \cup Range(a, n)
unmap(a, n) == in_use' = in_use \ Range(a, n)
-----------------------------------------------------------------------------
\* Creek::new: the first aligned address of the heap holds the bump counter,
\* the pages begin one page further.
slush_addr == IF orig % page_size # 0 THEN orig + (page_size - (orig % page_size)) ELSE orig
base == slush_addr + page_size

Init ==
    /\ kind \in {"mmap", "creek"}
    /\ page_size \in PageSizes
    /\ heap_size \in HeapSizes
    /\ orig \in {a \in Addresses : Range(a, heap_size) \subseteq Addresses}
    /\ handles = Threads
    /\ bump = 0
    /\ in_use = IF kind = "creek" THEN Range(orig, heap_size) ELSE {}
    /\ chunks = {}
    /\ carving = [t \in Threads |-> Nothing]

(* MmapSource::carve with pages no larger than the system's: one mapping.  *)
CarveSmall(t, n) ==
    /\ kind = "mmap" /\ page_size <= 1
    /\ \E a \in Addresses :
        /\ fallible_map(a, n * page_size)
        /\ chunks' = chunks \cup {Chunk(a, n * page_size)}
    /\ UNCHANGED <<fixed, handles, bump, carving>>

(* Otherwise a page more is mapped ...                                     *)
CarveMap(t, n) ==
    /\ kind = "mmap" /\ page_size > 1
    /\ carving[t] = Nothing
    /\ \E a \in Addresses :
        /\ fallible_map(a, n * page_size + page_size)
        /\ carving' = [carving EXCEPT ![t] =
                        [at |-> a, size |-> n * page_size + page_size, keep |-> n * page_size]]
    /\ UNCHANGED <<fixed, handles, bump, chunks>>

(* ... and what is too much at the end is unmapped,                        *)
TrimEnd(t) ==
    LET c == carving[t]
        rem1 == c.at % page_size
        res == c.at + (page_size - rem1)
    IN  /\ c.size = c.keep + page_size
        /\ rem1 # 0
        /\ unmap(res + c.keep, rem1)
        /\ carving' = [carving EXCEPT ![t].size = @ - rem1]
        /\ UNCHANGED <<fixed, handles, bump, chunks>>

(* then what is too much at the beginning, a whole page if the mapping was *)
(* aligned.                                                                *)
TrimBegin(t) ==
    LET c == carving[t]
        rem2 == page_size - (c.at % page_size)
    IN  /\ c # Nothing
        /\ c.size = c.keep + rem2
        /\ unmap(c.at, rem2)
        /\ chunks' = chunks \cup {Chunk(c.at + rem2, c.keep)}
        /\ carving' = [carving EXCEPT ![t] = Nothing]
        /\ UNCHANGED <<fixed, handles, bump>>

\* Mutant: the pages asked for are left out of the comparison.
CarveCreekFar(t, n) ==
    /\ kind = "creek" /\ t \in handles
    /\ bump + n <= MaxBump
    /\ bump' = bump + n
    /\ chunks' = IF bump * page_size < heap_size
                 THEN chunks \cup {Chunk(base + bump * page_size, n * page_size)} ELSE chunks
    /\ UNCHANGED <<fixed, handles, in_use, carving>>

(* Creek::carve: the counter is advanced, whether or not there is room.    *)
CarveCreek(t, n) ==
    /\ kind = "creek" /\ t \in handles
    /\ bump + n <= MaxBump
    /\ bump' = bump + n
    /\ chunks' = IF (bump + n) * page_size < heap_size
                 THEN chunks \cup {Chunk(base + bump * page_size, n * page_size)} ELSE chunks
    /\ UNCHANGED <<fixed, handles, in_use, carving>>

(* Chunks of an MmapSource are unmapped by whoever has them.               *)
Unmap(c) ==
    /\ kind = "mmap"
    /\ chunks' = chunks \ {c}
    /\ unmap(c.at, c.size)
    /\ UNCHANGED <<fixed, handles, bump, carving>>

(* The last clone of a Creek unmaps the heap (MapAddr::drop).              *)
DropCreek(t) ==
    /\ kind = "creek" /\ t \in handles
    /\ handles' = handles \ {t}
    /\ IF handles = {t} THEN unmap(orig, heap_size) /\ chunks' = {}
                        ELSE UNCHANGED <<in_use, chunks>>
    /\ UNCHANGED <<fixed, bump, carving>>

Next ==
    \/ \E t \in Threads : TrimEnd(t) \/ TrimBegin(t) \/ DropCreek(t)
    \/ \E t \in Threads, n \in Counts : CarveSmall(t, n) \/ CarveMap(t, n) \/ CarveCreek(t, n)
    \/ \E c \in chunks : Unmap(c)

Spec == Init /\ [][Next]_vars
-----------------------------------------------------------------------------
(* What carve returns is mapped, aligned to the page size and nobody       *)
(* else's, also when threads carve at once and the address space is        *)
(* fragmented ("each of these pages is aligned to page_size",              *)
(* sources.rs:22).  A Creek whose heap is not aligned itself can exceed it *)
(* by less than a page, for carve does not count the bytes skipped at its  *)
(* beginning.                                                              *)
ChunksSound ==
    /\ \A c \in chunks :
        /\ c.at % page_size = 0
        /\ PagesOfChunk(c) \subseteq
            in_use \cup (IF kind = "creek" THEN Range(orig + heap_size, slush_addr - orig) ELSE {})
    /\ \A c, d \in chunks : c # d => PagesOfChunk(c) \cap PagesOfChunk(d) = {}

(* The trimming leaves nothing mapped that nobody will unmap.              *)
NothingLeaks ==
    kind = "mmap" =>
        in_use = (UNION {PagesOfChunk(c) : c \in chunks}) \cup
                 (UNION {Range(carving[t].at, carving[t].size) : t \in Threads})
=============================================================================
