---------------------------- MODULE SourcesPart ----------------------------
(***************************************************************************)
(* The sources of pages (MemorySources) as one of the parts of MCMemory:   *)
(* their constants and variables, what they assume, and what is checked of *)
(* them.                                                                   *)
(***************************************************************************)
EXTENDS MemoryBase, Integers

CONSTANTS Last, PageSizes, Counts, HeapSizes, MaxBump

VARIABLES kind, page_size, orig, heap_size, handles, bump, in_use, chunks, carving

Sources == INSTANCE MemorySources

\* Creek::new makes the page size a power of two, and maps a heap whose size
\* is one as well: the smaller divides the larger.
ASSUME MemorySourcesAssumption ==
    /\ Last \in Nat
    /\ PageSizes \subseteq Nat \ {0} /\ Counts \subseteq Nat \ {0} /\ HeapSizes \subseteq Nat
    /\ \A h \in HeapSizes, p \in PageSizes : p > h \/ h % p = 0

sourceVars == <<kind, page_size, orig, heap_size, handles, bump, in_use, chunks, carving>>

(* What the sources carve is mapped, aligned and given out once, and what  *)
(* they do not return is unmapped (MmapSource::carve and Creek::carve).    *)
ChunksSound == part = "sources" => Sources!ChunksSound /\ Sources!NothingLeaks
=============================================================================
