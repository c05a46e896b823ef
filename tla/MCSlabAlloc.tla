---------------------------- MODULE MCSlabAlloc ----------------------------
(***************************************************************************)
(* Instances of the Yang-Crummey queue, and beside it, in behaviours of    *)
(* their own, of SlabAlloc: objects smaller than a page, one of them with  *)
(* an alignment below the minimum, and objects larger than a page.         *)
(***************************************************************************)
EXTENDS YangCrummeyQueue
LOCAL INSTANCE TLC

CONSTANTS PAGE_SIZE, OBJECTS_PER_SLAB, DEFAULT_MAP_SIZE, BUCKET_SIZE, HdrSize, WordSize,
          ObjLayouts, MaxSlabSize, MemPages, MaxSlabs   \* SlabAlloc

VARIABLES part, sys, a, live, built, phase

MCObjLayouts ==
    {[size |-> 9, align |-> 1], [size |-> 12, align |-> 4], [size |-> 18, align |-> 2]}

slab == <<sys, a, live, built, phase>>

Slab == INSTANCE SlabAlloc

ASSUME SlabAssumption == Slab!SlabSound

\* The items of the queue are interchangeable.
Symmetry == Permutations(Items)

MCInit ==
    /\ part \in {"slabs", "queue"}
    /\ Init /\ Slab!Init
    /\ part = "slabs" => owned[CHOOSE c \in Pushers : TRUE] = Items
    /\ part = "queue" => sys = Slab!BuildBacking(CHOOSE l \in ObjLayouts : TRUE, TRUE)

MCNext ==
    /\ \/ part = "slabs" /\ Slab!Next /\ UNCHANGED vars
       \/ part = "queue" /\ Next /\ UNCHANGED slab
    /\ UNCHANGED part

MCSpec == MCInit /\ [][MCNext]_<<part, vars, slab>>
-----------------------------------------------------------------------------
(* alloc and the collection may look at the ends of the freelist only.     *)
FreelistOrder == Slab!FreelistOrder

(* garbage_collect_slabs takes full slabs only.                            *)
CollectsOnlyFull == Slab!CollectsOnlyFull

(* dealloc finds the slab of every object.                                 *)
FindsSlab == Slab!FindsSlab

(* The objects of a slab are in one place each, fit into it, and are       *)
(* constructed and dropped once.                                           *)
ObjectsFit == Slab!ObjectsFit
=============================================================================
