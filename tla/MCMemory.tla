----------------------------- MODULE MCMemory ------------------------------
(***************************************************************************)
(* The components between the system's memory and the program, side by     *)
(* side: each behaviour is one of ElfHeap, of the C functions, of          *)
(* RustAlloc, of MapAlloc, of the memory sources or of bsalloc, with the   *)
(* variables of the others at rest.                                        *)
(***************************************************************************)
EXTENDS ElfHeap, MallocBindPart, SourcesPart, BsAllocPart

CONSTANTS
    Handles, Groups, Asked, MaxGiven, MaxOverhead,     \* RustAlloc
    Objects, PageSize, NPages, Sizes, Platforms        \* MapAlloc

ASSUME MapAllocAssumption ==
    /\ PageSize \in Nat \ {0}
    /\ Sizes \subseteq Nat \ {0}
    /\ Platforms \subseteq {"linux", "macos", "windows"}

ASSUME ElfHeapAssumption ==
    /\ Units \in Nat /\ TargetOverhead \in Nat
    /\ \A r \in Requests : is_power_of_two(r[2]) /\ r[1] % r[2] = 0

VARIABLES
    keys, live, local, pool, gone, given, op,
    platform, config, page, obj, move

MCRequests == {<<184, 8>>, <<192, 64>>, <<65536, 4096>>, <<1114112, 1>>}
MCAsked == {<<48, 16>>, <<5000, 8>>, <<3000000, 8>>, <<5000000, 8>>}
MCCacheSize == [c \in {"small", "large"} |-> IF c = "small" THEN 8 ELSE 4]

Rust == INSTANCE RustAlloc
Map == INSTANCE MapAlloc

rustVars == <<keys, live, local, pool, gone, given, op>>
mapVars == <<platform, config, page, obj, move>>

MemoryInit ==
    /\ part \in {"heap", "c", "rust", "map", "sources", "bs"}
    /\ Init /\ C!Init /\ Rust!Init /\ Map!Init /\ Sources!Init /\ Bs!Init
    /\ part # "c" => os = "linux"
    /\ part # "rust" => live = {CHOOSE h \in Handles : TRUE}
    /\ part # "map" => platform = "linux" /\ config = [perms |-> {}, commit |-> FALSE]
    /\ part # "sources" => kind = "mmap" /\ page_size = 1 /\ orig = 1

MemoryNext ==
    /\ \/ part = "heap" /\ Next /\ UNCHANGED <<cVars, rustVars, mapVars, sourceVars, bsVars>>
       \/ part = "c" /\ C!Next /\ UNCHANGED <<vars, rustVars, mapVars, sourceVars, bsVars>>
       \/ part = "rust" /\ Rust!Next /\ UNCHANGED <<vars, cVars, mapVars, sourceVars, bsVars>>
       \/ part = "map" /\ Map!Next /\ UNCHANGED <<vars, cVars, rustVars, sourceVars, bsVars>>
       \/ part = "sources" /\ Sources!Next /\ UNCHANGED <<vars, cVars, rustVars, mapVars, bsVars>>
       \/ part = "bs" /\ Bs!Next /\ UNCHANGED <<vars, cVars, rustVars, mapVars, sourceVars>>
    /\ UNCHANGED part

MemorySpec ==
    MemoryInit /\ [][MemoryNext]_<<part, vars, cVars, rustVars, mapVars, sourceVars, bsVars>>
-----------------------------------------------------------------------------
(* PageFrontend and PageSource keep every page in one place, and dealloc   *)
(* finds alloc's class again from the Layout (rust_alloc.rs).              *)
RustAllocSound == part = "rust" => Rust!PagesInPlace /\ Rust!SameClass

(* MapAlloc keeps exactly the pages of live objects mapped; realloc and    *)
(* the resizing in place keep contents and permissions.                    *)
MapAllocSound == part = "map" => Map!MappedIsLive /\ Map!ContentsKept /\ Map!PermsKept
=============================================================================
