---------------------------- MODULE BsAllocPart ----------------------------
(***************************************************************************)
(* bsalloc (BsAlloc) as one of the parts of MCMemory: its constants and    *)
(* variables, what it assumes, and what is checked of it.                  *)
(***************************************************************************)
EXTENDS MemoryBase, Integers

CONSTANTS Blocks, CacheSize, Starts, Layouts

VARIABLES mapped, cache, user, th

Bs == INSTANCE BsAlloc

\* The caches are not empty, the first slot is one of the cache's, and None is
\* the null pointer.
ASSUME BsAllocAssumption ==
    /\ Bs!None \notin Blocks
    /\ CacheSize \in [Bs!Caches -> Nat \ {0}]
    /\ \A c \in Bs!Caches : Starts \subseteq Bs!Slots(c)
    /\ Layouts \subseteq Nat

bsVars == <<mapped, cache, user, th>>

(* bsalloc's blocks are in one place each, and large enough                *)
(* (Cache::alloc and Cache::free).                                         *)
BlocksInPlace == part = "bs" => Bs!BlocksInPlace
=============================================================================
