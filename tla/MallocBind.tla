----------------------------- MODULE MallocBind -----------------------------
(***************************************************************************)
(* The C allocation functions over a Rust allocator (malloc-bind/lib.rs):  *)
(* the provided methods of Malloc, with a LayoutFinder that keeps a table. *)
(* Threads call them at the same time, and the allocator below gives an    *)
(* address out again as soon as it is free.                                *)
(***************************************************************************)
EXTENDS Integers, FiniteSets

CONSTANTS
    Threads,
    Ptrs,            \* addresses the allocator may return
    Amounts, Aligns, \* arguments of the calls, 0 and unsuitable ones among them
    pagesize         \* of the system

Systems == {"linux", "macos", "windows"}
WORD_SIZE == 8
None == <<0, 0>>

VARIABLES
    os,              \* the target: it decides what some functions do
    heap,            \* the allocator: the Layout of each live object
    finder,          \* the LayoutFinder's table
    owned,           \* objects of the program, with the size and alignment asked for
    call             \* what each thread is doing

vars == <<os, heap, finder, owned, call>>

MIN_ALIGN == IF os = "linux" THEN 8 ELSE 16
is_power_of_two(n) == n \in {2 ^ k : k \in 0 .. 30}

roundup(n, multiple) ==
    IF n = 0 THEN multiple
    ELSE IF n % multiple = 0 THEN n ELSE n + multiple - (n % multiple)

Layout(size, align) == <<roundup(size, align), align>>

Idle == [at |-> "idle", ptr |-> 0, layout |-> None, need |-> None, old |-> None, fail |-> FALSE]

Init ==
    /\ os \in Systems
    /\ heap = [p \in Ptrs |-> None]
    /\ finder = [p \in Ptrs |-> None]
    /\ owned = {}
    /\ call = [t \in Threads |-> Idle]

Goto(t, c) == call' = [call EXCEPT ![t] = c]
-----------------------------------------------------------------------------
(* (&mut slf).alloc, then insert_layout: the end of all functions that     *)
(* allocate.  The allocator may be exhausted: the caller gets an error.    *)
AllocThenInsert(t, layout, need) ==
    /\ \E p \in Ptrs :
        /\ heap[p] = None /\ p % layout[2] = 0
        /\ heap' = [heap EXCEPT ![p] = layout]
        /\ Goto(t, [Idle EXCEPT !.at = "insert", !.ptr = p, !.layout = layout, !.need = need])
    /\ UNCHANGED <<os, finder, owned>>

c_malloc(t, size) ==
    /\ ~(os = "linux" /\ size = 0)
    /\ AllocThenInsert(t, Layout(size, MIN_ALIGN), <<size, MIN_ALIGN>>)

c_calloc(t, nmemb, size) ==
    /\ ~(os = "linux" /\ (nmemb = 0 \/ size = 0))
    /\ AllocThenInsert(t, Layout(nmemb * size, MIN_ALIGN), <<nmemb * size, MIN_ALIGN>>)

c_valloc(t, size) ==
    /\ os # "windows"
    /\ ~(os = "linux" /\ size = 0)
    /\ AllocThenInsert(t, Layout(size, pagesize), <<size, pagesize>>)

c_pvalloc(t, size) ==
    /\ os = "linux" /\ size # 0
    /\ AllocThenInsert(t, Layout(size, pagesize), <<roundup(size, pagesize), pagesize>>)

c_posix_memalign(t, align, size) ==
    /\ os # "windows"
    /\ align > WORD_SIZE /\ is_power_of_two(align)
    /\ ~(os = "linux" /\ size = 0)
    /\ AllocThenInsert(t, Layout(size, align), <<size, align>>)

c_memalign(t, align, size) ==
    /\ os = "linux"
    /\ is_power_of_two(align) /\ size # 0
    /\ AllocThenInsert(t, Layout(size, align), <<size, align>>)

c_aligned_alloc(t, align, size) ==
    /\ is_power_of_two(align) /\ size % align = 0
    /\ c_memalign(t, align, size)

c__aligned_malloc(t, align, size) ==
    /\ os = "windows"
    /\ is_power_of_two(align) /\ size # 0
    /\ AllocThenInsert(t, Layout(size, align), <<size, align>>)

insert_layout(t) ==
    /\ call[t].at = "insert"
    /\ finder' = [finder EXCEPT ![call[t].ptr] = call[t].layout]
    /\ owned' = owned \cup {[ptr |-> call[t].ptr, need |-> call[t].need]}
    /\ Goto(t, Idle)
    /\ UNCHANGED <<os, heap>>
-----------------------------------------------------------------------------
(* c_free, and c_cfree: get_layout, delete_layout, dealloc.                *)
c_free(t, o) ==
    /\ o \in owned
    /\ owned' = owned \ {o}
    /\ Goto(t, [Idle EXCEPT !.at = "delete", !.ptr = o.ptr, !.layout = finder[o.ptr]])
    /\ UNCHANGED <<os, heap, finder>>

\* Mutant: dealloc comes first, as the documentation of delete_layout has it.
FreeDeleteLayoutLate(t) ==
    /\ call[t].at \in {"delete", "deleted"}
    /\ IF call[t].at = "delete"
       THEN /\ heap' = [heap EXCEPT ![call[t].ptr] = None]
            /\ Goto(t, [call[t] EXCEPT !.at = "deleted"])
            /\ UNCHANGED <<os, finder, owned>>
       ELSE /\ finder' = [finder EXCEPT ![call[t].ptr] = None]
            /\ Goto(t, Idle)
            /\ UNCHANGED <<os, heap, owned>>

FreeDeleteLayout(t) ==
    /\ call[t].at = "delete"
    /\ finder' = [finder EXCEPT ![call[t].ptr] = None]
    /\ Goto(t, [call[t] EXCEPT !.at = "dealloc"])
    /\ UNCHANGED <<os, heap, owned>>

dealloc(t) ==
    /\ call[t].at = "dealloc"
    /\ heap' = [heap EXCEPT ![call[t].ptr] = None]
    /\ Goto(t, Idle)
    /\ UNCHANGED <<os, finder, owned>>

(* c_realloc, and c_reallocf (fail): no pointer is c_malloc, and size 0 is *)
(* c_free except on a Mac.  get_layout ...                                 *)
c_realloc(t, o, size, f) ==
    /\ o \in owned
    /\ f => os = "macos"
    /\ IF os # "macos" /\ size = 0
       THEN c_free(t, o)
       ELSE /\ owned' = owned \ {o}
            /\ Goto(t, [at |-> "realloc", ptr |-> o.ptr, layout |-> finder[o.ptr],
                        need |-> <<size, MIN_ALIGN>>, old |-> o.need, fail |-> f])
            /\ UNCHANGED <<os, heap, finder>>

(* ... the allocator's realloc, which leaves the object, moves it, or fails*)
realloc(t) ==
    LET c == call[t]
        new == Layout(c.need[1], MIN_ALIGN)
    IN  /\ c.at = "realloc"
        /\ \/ \E q \in Ptrs :
                /\ heap[q] = None \/ q = c.ptr
                /\ q % new[2] = 0
                /\ heap' = [p \in Ptrs |-> IF p = q THEN new ELSE IF p = c.ptr THEN None ELSE heap[p]]
                /\ Goto(t, [c EXCEPT !.at = "moved", !.ptr = q, !.layout = new])
                /\ UNCHANGED owned
           \/ /\ ~c.fail
              /\ owned' = owned \cup {[ptr |-> c.ptr, need |-> c.old]}
              /\ Goto(t, Idle)
              /\ UNCHANGED heap
           \/ /\ c.fail
              /\ Goto(t, [Idle EXCEPT !.at = "delete", !.ptr = c.ptr, !.layout = finder[c.ptr]])
              /\ UNCHANGED <<heap, owned>>
        /\ UNCHANGED <<os, finder>>

(* ... and both delete_layout and insert_layout of what it returned.       *)
ReallocDeleteLayout(t) ==
    /\ call[t].at = "moved"
    /\ finder' = [finder EXCEPT ![call[t].ptr] = None]
    /\ Goto(t, [Idle EXCEPT !.at = "insert", !.ptr = call[t].ptr,
                            !.layout = call[t].layout, !.need = call[t].need])
    /\ UNCHANGED <<os, heap, owned>>

Call(t) ==
    /\ call[t].at = "idle"
    /\ \/ \E size \in Amounts :
            \/ c_malloc(t, size) \/ c_valloc(t, size) \/ c_pvalloc(t, size)
            \/ \E n \in Amounts : c_calloc(t, n, size)
            \/ \E a \in Aligns :
                \/ c_posix_memalign(t, a, size) \/ c_memalign(t, a, size)
                \/ c_aligned_alloc(t, a, size) \/ c__aligned_malloc(t, a, size)
            \/ \E o \in owned, f \in BOOLEAN : c_realloc(t, o, size, f)
       \/ \E o \in owned : c_free(t, o)

Next ==
    \E t \in Threads :
        \/ Call(t) \/ insert_layout(t)
        \/ FreeDeleteLayout(t) \/ dealloc(t)
        \/ realloc(t) \/ ReallocDeleteLayout(t)

Spec == Init /\ [][Next]_vars
-----------------------------------------------------------------------------
(* The Layout that free and realloc look up is the one the object was      *)
(* allocated with, although another thread may get an address that is being*)
(* freed, or left by realloc, and enter it in the table before the call is *)
(* over: dealloc and realloc are always given the allocator's own Layout,  *)
(* and nothing the program or a call does not hold is live.                *)
LayoutKnown ==
    /\ \A o \in owned : finder[o.ptr] = heap[o.ptr]
    /\ \A t \in Threads :
        call[t].at \in {"dealloc", "realloc"} => call[t].layout = heap[call[t].ptr]
    /\ \A p \in Ptrs :
        heap[p] # None <=> \/ \E o \in owned : o.ptr = p
                           \/ \E t \in Threads : call[t].at # "idle" /\ call[t].ptr = p

(* What a function returns is as large and as aligned as the caller asked  *)
(* it to be on that system, also after a realloc that failed, and no two   *)
(* objects have one address.                                               *)
RequestMet ==
    \A o \in owned :
        /\ heap[o.ptr][1] >= o.need[1] /\ heap[o.ptr][1] > 0
        /\ o.ptr % o.need[2] = 0 /\ heap[o.ptr][1] % heap[o.ptr][2] = 0
        /\ \A q \in owned \ {o} : q.ptr # o.ptr
=============================================================================
