------------------------------ MODULE MapAlloc ------------------------------
(***************************************************************************)
(* MapAlloc (mmap-alloc/src/lib.rs): objects of whole pages straight from  *)
(* the operating system, on Linux, macOS or Windows, with the permissions  *)
(* and the commit option of its builder.  The pages are the state; a call  *)
(* to the system is a step, and the program writes, commits, uncommits,    *)
(* resizes and frees its objects in between.                               *)
(***************************************************************************)
EXTENDS Integers, FiniteSets

CONSTANTS
    PageSize,   \* in the units of a layout's size
    NPages,     \* bound: the pages of the address space
    Sizes,      \* the sizes asked for
    Objects,    \* the program's names for its objects
    Platforms

Pages == 0 .. NPages - 1
Perms == SUBSET {"read", "write", "exec"}
None == [ptr |-> -1]
NoMove == [o |-> "none", ptr |-> -1, size |-> 0, at |-> "none"]
Any == -1   \* what the program knows of a page it may not rely on

VARIABLES
    platform,   \* where the program runs
    config,     \* the builder's permissions and commit option
    page,       \* each page: the first page of the mapping it belongs to, what
                \* may be done with it, whether it can be accessed at all, and
                \* what is in it: zeros, or what the program wrote
    obj,        \* the program's objects: address, layout size, and what it
                \* knows to be in each page
    move        \* the realloc that copies, if one is under way

vars == <<platform, config, page, obj, move>>
-----------------------------------------------------------------------------
next_multiple(size, unit) == IF size % unit = 0 THEN size ELSE size + (unit - (size % unit))

PagesOf(size) == next_multiple(size, PageSize) \div PageSize
Span(ptr, size) == ptr .. ptr + PagesOf(size) - 1

\* The pages of S become what f says.
Become(S, f(_)) == page' = [a \in Pages |-> IF a \in S THEN f(a) ELSE page[a]]

NoPage == [base |-> -1, perm |-> {}, committed |-> FALSE, content |-> 0]
Free(S) == \A a \in S : a \in Pages /\ page[a] = NoPage

(* get_perm: Windows has no write permission without read.                 *)
get_perm(want) == IF platform = "windows" /\ "write" \in want THEN want \cup {"read"} ELSE want

(* mmap, VirtualAlloc: pages somewhere, full of zeros.  On Windows they    *)
(* are usable only if they are committed.                                  *)
NewPage(ptr) == [base |-> ptr, perm |-> get_perm(config.perms),
                 committed |-> config.commit \/ platform # "windows", content |-> 0]
map(ptr, size) ==
    /\ Free(Span(ptr, size))
    /\ Become(Span(ptr, size), LAMBDA a : NewPage(ptr))

(* munmap takes the pages of the range; VirtualFree takes the mapping that *)
(* begins at ptr, whatever the size.                                       *)
unmap(ptr, size) ==
    LET S == IF platform = "windows" THEN {a \in Pages : page[a].base = ptr} ELSE Span(ptr, size)
    IN  Become(S, LAMBDA a : NoPage)

(* mprotect, VirtualProtect.                                               *)
protect(ptr, size, want) ==
    Become(Span(ptr, size), LAMBDA a : [page[a] EXCEPT !.perm = get_perm(want)])

Live == {o \in Objects : obj[o] # None}
\* An object outside a realloc.
Settled(o) == o \in Live /\ move.o # o
Object(ptr, size, image) == [ptr |-> ptr, size |-> size, image |-> image]
-----------------------------------------------------------------------------
Init ==
    /\ platform \in Platforms
    /\ config \in [perms : Perms, commit : BOOLEAN]
    /\ platform = "macos" => ~config.commit
    /\ page = [a \in Pages |-> NoPage]
    /\ obj = [o \in Objects |-> None]
    /\ move = NoMove

(* alloc and alloc_zeroed; no room is ENOMEM, without effect.              *)
Alloc(o, size) ==
    /\ obj[o] = None
    /\ \E ptr \in Pages :
        /\ map(ptr, size)
        /\ obj' = [obj EXCEPT ![o] = Object(ptr, size, [i \in 0 .. PagesOf(size) - 1 |-> 0])]
    /\ UNCHANGED <<platform, config, move>>

(* usable_size: the sizes whose layouts fit an object of this size.        *)
usable_size(size) ==
    LET max_size == next_multiple(size, PageSize) IN (max_size - PageSize + 1) .. max_size

(* dealloc, with the size of any layout that fits.                         *)
Dealloc(o) ==
    /\ Settled(o)
    /\ \E size \in usable_size(obj[o].size) : unmap(obj[o].ptr, size)
    /\ obj' = [obj EXCEPT ![o] = None]
    /\ UNCHANGED <<platform, config, move>>

Write(o) ==
    /\ Settled(o)
    /\ \E i \in DOMAIN obj[o].image :
        LET a == obj[o].ptr + i IN
        /\ "write" \in page[a].perm /\ page[a].committed
        /\ page' = [page EXCEPT ![a].content = 1]
        /\ obj' = [obj EXCEPT ![o].image[i] = 1]
    /\ UNCHANGED <<platform, config, move>>

(* commit, on Windows only.                                                *)
Commit(o) ==
    /\ platform = "windows"
    /\ Settled(o)
    /\ Become(Span(obj[o].ptr, obj[o].size),
              LAMBDA a : [page[a] EXCEPT !.committed = TRUE, !.perm = get_perm(config.perms)])
    /\ UNCHANGED <<platform, config, obj, move>>

(* uncommit: the pages are zero afterwards (Linux), may be so (macOS), or  *)
(* are zero once they are committed again (Windows).                       *)
Uncommit(o) ==
    /\ Settled(o)
    /\ LET S == Span(obj[o].ptr, obj[o].size) IN
        \E Z \in IF platform = "macos" THEN SUBSET S ELSE {S} :
            Become(Z, LAMBDA a : [page[a] EXCEPT !.content = 0,
                                                 !.committed = platform # "windows"])
    /\ obj' = [obj EXCEPT ![o].image = [i \in DOMAIN @ |-> Any]]
    /\ UNCHANGED <<platform, config, move>>
-----------------------------------------------------------------------------
\* What the program knows of an object of n pages that had this image.
Resized(image, n) ==
    [i \in 0 .. n - 1 |-> IF i \in DOMAIN image THEN image[i] ELSE Any]

\* mremap to ptr: the pages move with all they have, new ones are zero.
remap(o, ptr, size) ==
    LET old == obj[o].ptr
        k == PagesOf(obj[o].size)
    IN  /\ page' = [a \in Pages |->
                    IF a \in Span(ptr, size)
                    THEN [page[old] EXCEPT !.base = ptr,
                            !.content = IF a - ptr < k THEN page[old + a - ptr].content ELSE 0]
                    ELSE IF a \in Span(old, obj[o].size) THEN NoPage ELSE page[a]]
        /\ obj' = [obj EXCEPT ![o] = Object(ptr, size, Resized(@.image, PagesOf(size)))]

Fits(o, size) == Free(Span(obj[o].ptr, size) \ Span(obj[o].ptr, obj[o].size))

(* A new size of as many pages: nothing is done.                           *)
SamePages(o, size) ==
    /\ Settled(o)
    /\ PagesOf(size) = PagesOf(obj[o].size)
    /\ obj' = [obj EXCEPT ![o].size = size]
    /\ UNCHANGED <<platform, config, page, move>>

(* resize_in_place on Linux, for grow_in_place and shrink_in_place.        *)
ResizeInPlace(o, size) ==
    /\ platform = "linux"
    /\ Settled(o)
    /\ PagesOf(size) # PagesOf(obj[o].size)
    /\ Fits(o, size)
    /\ remap(o, obj[o].ptr, size)
    /\ UNCHANGED <<platform, config, move>>

(* realloc on Linux: mremap may move the object if it does not fit.        *)
ReallocLinux(o, size) ==
    /\ platform = "linux"
    /\ Settled(o)
    /\ PagesOf(size) # PagesOf(obj[o].size)
    /\ ~Fits(o, size)
    /\ \E ptr \in Pages : Free(Span(ptr, size)) /\ remap(o, ptr, size)
    /\ UNCHANGED <<platform, config, move>>

(* shrink_in_place on macOS, and realloc to fewer pages: the tail of the   *)
(* mapping is unmapped.                                                    *)
ShrinkMacos(o, size) ==
    /\ platform = "macos"
    /\ Settled(o)
    /\ PagesOf(size) < PagesOf(obj[o].size)
    /\ unmap(obj[o].ptr + PagesOf(size),
             next_multiple(obj[o].size, PageSize) - next_multiple(size, PageSize))
    /\ obj' = [obj EXCEPT ![o] = Object(@.ptr, size, Resized(@.image, PagesOf(size)))]
    /\ UNCHANGED <<platform, config, move>>
-----------------------------------------------------------------------------
(* realloc on macOS and Windows otherwise: allocate, copy, free; memory    *)
(* that cannot be read or written is made so for the copy.                 *)
Realloc(o, size) ==
    /\ platform # "linux"
    /\ move = NoMove
    /\ o \in Live
    /\ IF platform = "macos" THEN PagesOf(size) > PagesOf(obj[o].size)
                             ELSE PagesOf(size) # PagesOf(obj[o].size)
    /\ \E ptr \in Pages :
        /\ map(ptr, size)
        /\ move' = [o |-> o, ptr |-> ptr, size |-> size, at |-> "fix_old"]
    /\ UNCHANGED <<platform, config, obj>>

Moving(at) == move.at = at
Advance(at) == move' = [move EXCEPT !.at = at]

FixOldPerms ==
    /\ Moving("fix_old")
    /\ Advance("fix_new")
    /\ IF "read" \in config.perms THEN UNCHANGED page
       ELSE protect(obj[move.o].ptr, obj[move.o].size, config.perms \cup {"read"})
    /\ UNCHANGED <<platform, config, obj>>

FixNewPerms ==
    /\ Moving("fix_new")
    /\ Advance("copy")
    /\ IF "write" \in config.perms THEN UNCHANGED page
       ELSE protect(move.ptr, move.size, config.perms \cup {"write"})
    /\ UNCHANGED <<platform, config, obj>>

\* The new pages that have a counterpart among the old ones.
Copied == {a \in Span(move.ptr, move.size) : a - move.ptr < PagesOf(obj[move.o].size)}
Source(a) == obj[move.o].ptr + a - move.ptr

Copy ==
    /\ Moving("copy")
    /\ Advance("dealloc")
    /\ Become(Copied, LAMBDA a : [page[a] EXCEPT !.content = page[Source(a)].content])
    /\ UNCHANGED <<platform, config, obj>>

DeallocOld ==
    /\ Moving("dealloc")
    /\ Advance("restore")
    /\ unmap(obj[move.o].ptr, obj[move.o].size)
    /\ obj' = [obj EXCEPT ![move.o] = Object(move.ptr, move.size, Resized(@.image, PagesOf(move.size)))]
    /\ UNCHANGED <<platform, config>>

\* Mutant: the permissions of the copy stay.
RestorePermsNot ==
    /\ Moving("restore")
    /\ move' = NoMove
    /\ UNCHANGED <<platform, config, page, obj>>

RestorePerms ==
    /\ Moving("restore")
    /\ move' = NoMove
    /\ IF "write" \in config.perms THEN UNCHANGED page
       ELSE protect(move.ptr, move.size, config.perms)
    /\ UNCHANGED <<platform, config, obj>>

Next ==
    \/ \E o \in Objects, size \in Sizes :
        \/ Alloc(o, size) \/ SamePages(o, size) \/ ResizeInPlace(o, size)
        \/ ReallocLinux(o, size) \/ ShrinkMacos(o, size) \/ Realloc(o, size)
    \/ \E o \in Objects : Dealloc(o) \/ Write(o) \/ Commit(o) \/ Uncommit(o)
    \/ FixOldPerms \/ FixNewPerms \/ Copy \/ DeallocOld \/ RestorePerms

Spec == Init /\ [][Next]_vars
-----------------------------------------------------------------------------
\* The new pages of a realloc.
MoveSpan == IF move = NoMove THEN {} ELSE Span(move.ptr, move.size)

(* The mapped pages are those of the live objects, each of one object, and *)
(* of the copy a realloc is making: freeing with the layout's size, not a  *)
(* multiple of the page size, frees every page, after any resizing.        *)
MappedIsLive ==
    /\ {a \in Pages : page[a] # NoPage}
         = MoveSpan \cup UNION {Span(obj[o].ptr, obj[o].size) : o \in Live}
    /\ \A o, q \in Live :
        o # q => Span(obj[o].ptr, obj[o].size) \cap Span(obj[q].ptr, obj[q].size) = {}

(* An object keeps what was written to it through realloc and until it is  *)
(* uncommitted, and alloc_zeroed, which is alloc, returns zeros.           *)
ContentsKept ==
    \A o \in Live : \A i \in DOMAIN obj[o].image :
        obj[o].image[i] # Any => page[obj[o].ptr + i].content = obj[o].image[i]

(* The pages of an object have the configured permissions, "precisely that *)
(* configuration" if the platform has it and else one "no more restrictive"*)
(* (lib.rs:57-62), also after a realloc that had to lift them; and the     *)
(* copy reads and writes only what it may.  Left out is memory that        *)
(* Windows has not committed, which realloc copies all the same.           *)
PermsKept ==
    /\ \A o \in Live : Settled(o) =>
        \A a \in Span(obj[o].ptr, obj[o].size) : page[a].perm = get_perm(config.perms)
    /\ Moving("copy") => \A a \in Copied :
        "write" \in page[a].perm /\ "read" \in page[Source(a)].perm
=============================================================================
