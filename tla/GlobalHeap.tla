----------------------------- MODULE GlobalHeap -----------------------------
(***************************************************************************)
(* The global instance of elfmalloc (mod global of elfmalloc/general.rs)   *)
(* and the thread-local slots it lives in (alloc-tls/src/lib.rs).  Every   *)
(* thread has a slot with its handle on the heap and one with a sender to  *)
(* the background thread.  Creating a handle, registering a destructor or  *)
(* setting up the channel calls malloc again, so a thread has a stack of   *)
(* calls; its slots are destroyed in any order when it exits, and it may   *)
(* still allocate and free between and after the two destructors.          *)
(***************************************************************************)
EXTENDS Integers, Sequences, FiniteSets

CONSTANTS
    Threads,
    Program,     \* bound: the objects the program can have at once ...
    Library,     \* ... and those of library code
    MaxDepth,    \* bound on the nesting of calls
    MaxTemps     \* bound on the handles made for one call

Objects == Program \cup Library

ASSUME GlobalHeapAssumption ==
    /\ IsFiniteSet(Threads)
    /\ Threads \cap (Objects \cup {"none", "ready", "temp"}) = {}
    /\ "temp" \notin Objects
    /\ MaxDepth \in Nat /\ MaxTemps \in Nat

VARIABLES
    phase,       \* each thread: "run", "exit" while destructors run, or "gone"
    heap, chan,  \* the states of LOCAL_ELF_HEAP and LOCAL_DESTRUCTOR_CHAN
    ptr,         \* is TLSSlot::ptr of LOCAL_ELF_HEAP set?
    dtors,       \* the slots whose destructor is registered
    elf_heap,    \* lazy_static ELF_HEAP: "none", the thread at it, or "ready" ...
    dchan,       \* ... and DESTRUCTOR_CHAN
    bg,          \* the background thread: "none", "starting" or "ready"
    queue,       \* the Husks sent to it
    handle,      \* the handle made for each thread's slot: "none", "live", "dropped"
    temps,       \* how many live handles with_local_or_clone has made
    obj,         \* the objects: what they are and who may free them
    stack        \* the calls each thread is in, the innermost first

vars == <<phase, heap, chan, ptr, dtors, elf_heap, dchan, bg, queue, handle, temps, obj, stack>>
slots == <<heap, chan, ptr, dtors>>
lazies == <<elf_heap, dchan, bg>>

\* An object is for the program, for the library code at one place of a call,
\* for a call that is at it, or for the background thread to free.
For(who) == <<who, "">>
NoObject == [kind |-> "none", for |-> For("none")]
Large(w) == [kind |-> "large", for |-> w]
Slag(w) == [kind |-> "slag", for |-> w]

Frame(pc, op, arg, own) == [pc |-> pc, op |-> op, arg |-> arg, own |-> own]
Top(t) == Head(stack[t])
At(t, pc) == stack[t] # <<>> /\ Top(t).pc = pc
Go(t, f) == stack' = [stack EXCEPT ![t] = <<f>> \o Tail(@)]
GoTo(t, pc) == Go(t, [Top(t) EXCEPT !.pc = pc])
Return(t) == stack' = [stack EXCEPT ![t] = Tail(@)]
Push(t, f) == stack' = [stack EXCEPT ![t] = <<f>> \o @]

Init ==
    /\ phase = [t \in Threads |-> "run"]
    /\ heap = [t \in Threads |-> "uninitialized"]
    /\ chan = [t \in Threads |-> "uninitialized"]
    /\ ptr = [t \in Threads |-> FALSE]
    /\ dtors = [t \in Threads |-> {}]
    /\ elf_heap = "none" /\ dchan = "none" /\ bg = "none"
    /\ queue = <<>>
    /\ handle = [t \in Threads |-> "none"]
    /\ temps = 0
    /\ obj = [o \in Objects |-> NoObject]
    /\ stack = [t \in Threads |-> <<>>]
-----------------------------------------------------------------------------
\* Where code runs that itself allocates, and frees what it allocated.
CallsMalloc == {"init_heap", "clone", "register", "init_chan", "register_chan"}

\* Who calls: the program, or the library code inside another call.
Caller(t) == IF stack[t] = <<>> THEN For("program") ELSE <<t, Top(t).pc>>
MayCall(t) ==
    /\ phase[t] # "gone"
    /\ stack[t] # <<>> => Top(t).pc \in CallsMalloc /\ Len(stack[t]) < MaxDepth

\* Mutant: the slot is not marked before it is initialised.
EnterUnmarked(t, op, o) ==
    IF ptr[t] THEN Push(t, Frame("local", op, o, FALSE)) /\ UNCHANGED heap
    ELSE IF heap[t] = "uninitialized"
    THEN Push(t, Frame("once_heap", op, o, TRUE)) /\ UNCHANGED heap
    ELSE Push(t, Frame("fallback", op, o, FALSE)) /\ UNCHANGED heap

(* alloc_tls_fast_with and with_slow: the handle, initialised if it has    *)
(* never been, or None.                                                    *)
Enter(t, op, o) ==
    IF ptr[t] THEN Push(t, Frame("local", op, o, FALSE)) /\ UNCHANGED heap
    ELSE IF heap[t] = "uninitialized"
    THEN /\ Push(t, Frame("once_heap", op, o, TRUE))
         /\ heap' = [heap EXCEPT ![t] = "initializing"]
    ELSE Push(t, Frame("fallback", op, o, FALSE)) /\ UNCHANGED heap

(* alloc, free and realloc of mod global; library code only allocates, and *)
(* frees what it has allocated during the same call.                       *)
Call(t) ==
    /\ MayCall(t)
    /\ \E o \in IF stack[t] = <<>> THEN Program ELSE Library, op \in {"alloc", "free", "realloc"} :
        /\ IF op = "alloc" THEN obj[o] = NoObject
                           ELSE obj[o].for = Caller(t) /\ obj[o].kind # "none"
        /\ op = "realloc" => stack[t] = <<>> /\ temps < MaxTemps
        /\ obj' = [obj EXCEPT ![o].for = For("call")]
        /\ Enter(t, op, o)
    /\ UNCHANGED <<phase, chan, ptr, dtors, lazies, queue, handle, temps>>
-----------------------------------------------------------------------------
(* new_handle dereferences ELF_HEAP, which the first thread creates while  *)
(* the others wait, and clones it.                                         *)
OnceHeap(t) ==
    /\ At(t, "once_heap")
    /\ \/ elf_heap = "ready" /\ GoTo(t, "clone") /\ UNCHANGED elf_heap
       \/ elf_heap = "none" /\ GoTo(t, "init_heap") /\ elf_heap' = t
    /\ UNCHANGED <<phase, slots, dchan, bg, queue, handle, temps, obj>>

InitHeap(t) ==
    /\ At(t, "init_heap")
    /\ elf_heap' = "ready"
    /\ GoTo(t, "clone")
    /\ UNCHANGED <<phase, slots, dchan, bg, queue, handle, temps, obj>>

(* The clone goes into the slot, or is used for one call.                  *)
CloneHeap(t) ==
    /\ At(t, "clone")
    /\ IF Top(t).own
       THEN /\ handle' = [handle EXCEPT ![t] = "live"]
            /\ heap' = [heap EXCEPT ![t] = "initialized"]
            /\ ptr' = [ptr EXCEPT ![t] = TRUE]
            /\ GoTo(t, "register")
            /\ UNCHANGED temps
       ELSE temps' = temps + 1 /\ GoTo(t, "local") /\ UNCHANGED <<handle, heap, ptr>>
    /\ UNCHANGED <<phase, chan, dtors, lazies, queue, obj>>

\* Mutant: the destructor is not registered.
RegisterHeapNot(t) ==
    /\ At(t, "register")
    /\ Go(t, [Top(t) EXCEPT !.pc = "local", !.own = FALSE])
    /\ UNCHANGED <<phase, slots, lazies, queue, handle, temps, obj>>

RegisterHeap(t) ==
    /\ At(t, "register")
    /\ dtors' = [dtors EXCEPT ![t] = @ \cup {"heap"}]
    /\ Go(t, [Top(t) EXCEPT !.pc = "local", !.own = FALSE])
    /\ UNCHANGED <<phase, heap, chan, ptr, lazies, queue, handle, temps, obj>>

\* What an allocation returns to its caller, which is one call further out.
Owner(t) == IF Len(stack[t]) = 1 THEN For("program") ELSE <<t, stack[t][2].pc>>

(* The operation on a handle.  A handle made for this call is dropped.     *)
Local(t) ==
    LET f == Top(t) IN
    /\ At(t, "local")
    /\ \E new \in IF f.op = "free" THEN {NoObject} ELSE {Slag(Owner(t)), Large(Owner(t))} :
        obj' = [obj EXCEPT ![f.arg] = new]
    /\ IF ptr[t] THEN Return(t) ELSE Go(t, Frame("with_chan", "array", "temp", FALSE))
    /\ UNCHANGED <<phase, slots, lazies, queue, handle, temps>>

(* Without a handle: alloc maps, free unmaps or leaves it to the background*)
(* thread, realloc makes a handle.                                         *)
Fallback(t) ==
    LET f == Top(t) IN
    /\ At(t, "fallback")
    /\ \/ f.op = "alloc" /\ obj' = [obj EXCEPT ![f.arg] = Large(Owner(t))] /\ Return(t)
       \/ /\ f.op = "free" /\ obj[f.arg].kind = "large"
          /\ obj' = [obj EXCEPT ![f.arg] = NoObject] /\ Return(t)
       \/ /\ f.op = "free" /\ obj[f.arg].kind = "slag"
          /\ obj' = [obj EXCEPT ![f.arg].for = For("background")]
          /\ Go(t, Frame("once_chan", "ptr", f.arg, FALSE))
       \/ f.op = "realloc" /\ GoTo(t, "once_heap") /\ UNCHANGED obj
    /\ UNCHANGED <<phase, slots, lazies, queue, handle, temps>>
-----------------------------------------------------------------------------
(* GlobalAllocator::drop: the thread's own sender, or a clone of the       *)
(* global one.                                                             *)
WithChan(t) ==
    /\ At(t, "with_chan")
    /\ \/ chan[t] = "initialized" /\ GoTo(t, "send") /\ UNCHANGED chan
       \/ /\ chan[t] = "uninitialized" /\ chan' = [chan EXCEPT ![t] = "initializing"]
          /\ Go(t, [Top(t) EXCEPT !.pc = "once_chan", !.own = TRUE])
       \/ chan[t] = "dropped" /\ GoTo(t, "once_chan") /\ UNCHANGED chan
    /\ UNCHANGED <<phase, heap, ptr, dtors, lazies, queue, handle, temps, obj>>

(* DESTRUCTOR_CHAN, whose creation spawns the background thread.           *)
OnceChan(t) ==
    /\ At(t, "once_chan")
    /\ \/ dchan = "ready" /\ GoTo(t, "clone_chan") /\ UNCHANGED dchan
       \/ dchan = "none" /\ GoTo(t, "init_chan") /\ dchan' = t
    /\ UNCHANGED <<phase, slots, elf_heap, bg, queue, handle, temps, obj>>

InitChan(t) ==
    /\ At(t, "init_chan")
    /\ dchan' = "ready" /\ bg' = "starting"
    /\ GoTo(t, "clone_chan")
    /\ UNCHANGED <<phase, slots, elf_heap, queue, handle, temps, obj>>

CloneChan(t) ==
    /\ At(t, "clone_chan")
    /\ IF Top(t).own THEN chan' = [chan EXCEPT ![t] = "initialized"] /\ GoTo(t, "register_chan")
                     ELSE GoTo(t, "send") /\ UNCHANGED chan
    /\ UNCHANGED <<phase, heap, ptr, dtors, lazies, queue, handle, temps, obj>>

RegisterChan(t) ==
    /\ At(t, "register_chan")
    /\ dtors' = [dtors EXCEPT ![t] = @ \cup {"chan"}]
    /\ GoTo(t, "send")
    /\ UNCHANGED <<phase, heap, chan, ptr, lazies, queue, handle, temps, obj>>

Send(t) ==
    /\ At(t, "send")
    /\ queue' = Append(queue, [husk |-> Top(t).op, what |-> Top(t).arg])
    /\ Return(t)
    /\ UNCHANGED <<phase, slots, lazies, handle, temps, obj>>
-----------------------------------------------------------------------------
Exit(t) ==
    /\ phase[t] = "run" /\ stack[t] = <<>>
    /\ phase' = [phase EXCEPT ![t] = "exit"]
    /\ UNCHANGED <<slots, lazies, queue, handle, temps, obj, stack>>

\* Mutant: the pointer of the fast path is not reset.
DropHeapSlotKeepsPtr(t) ==
    /\ heap' = [heap EXCEPT ![t] = "dropped"]
    /\ UNCHANGED ptr

(* TLSSlot::drop: the slot is marked before its value is dropped.          *)
DropHeapSlot(t) ==
    /\ heap' = [heap EXCEPT ![t] = "dropped"]
    /\ ptr' = [ptr EXCEPT ![t] = FALSE]

RunDtor(t) ==
    /\ phase[t] = "exit" /\ stack[t] = <<>>
    /\ \E s \in dtors[t] :
        /\ dtors' = [dtors EXCEPT ![t] = @ \ {s}]
        /\ IF s = "heap"
           THEN /\ DropHeapSlot(t)
                /\ Push(t, Frame("with_chan", "array", t, FALSE))
                /\ UNCHANGED chan
           ELSE chan' = [chan EXCEPT ![t] = "dropped"] /\ UNCHANGED <<heap, ptr, stack>>
    /\ UNCHANGED <<phase, lazies, queue, handle, temps, obj>>

Gone(t) ==
    /\ phase[t] = "exit" /\ stack[t] = <<>> /\ dtors[t] = {}
    /\ phase' = [phase EXCEPT ![t] = "gone"]
    /\ UNCHANGED <<slots, lazies, queue, handle, temps, obj, stack>>
-----------------------------------------------------------------------------
(* The background thread makes its handle and serves the Husks.  ELF_HEAP  *)
(* exists by then: only threads that have had a handle send.               *)
BgStart ==
    /\ bg = "starting" /\ elf_heap = "ready"
    /\ bg' = "ready"
    /\ UNCHANGED <<phase, slots, elf_heap, dchan, queue, handle, temps, obj, stack>>

BgReceive ==
    /\ bg = "ready" /\ queue # <<>>
    /\ queue' = Tail(queue)
    /\ LET m == Head(queue) IN
        \/ /\ m.husk = "array" /\ m.what = "temp"
           /\ temps' = temps - 1 /\ UNCHANGED <<handle, obj>>
        \/ /\ m.husk = "array" /\ m.what # "temp"
           /\ handle' = [handle EXCEPT ![m.what] = "dropped"] /\ UNCHANGED <<temps, obj>>
        \/ /\ m.husk = "ptr"
           /\ obj' = [obj EXCEPT ![m.what] = NoObject] /\ UNCHANGED <<temps, handle>>
    /\ UNCHANGED <<phase, slots, lazies, stack>>

\* What a thread does once it has made a call or begun to exit.
Step(t) ==
    \/ OnceHeap(t) \/ InitHeap(t) \/ CloneHeap(t) \/ RegisterHeap(t) \/ Local(t) \/ Fallback(t)
    \/ WithChan(t) \/ OnceChan(t) \/ InitChan(t) \/ CloneChan(t) \/ RegisterChan(t) \/ Send(t)
    \/ RunDtor(t)

Next ==
    \/ \E t \in Threads : Call(t) \/ Step(t) \/ Exit(t) \/ Gone(t)
    \/ BgStart \/ BgReceive

Spec == Init /\ [][Next]_vars

(* The program need not call or exit, but what has begun goes on: threads  *)
(* are scheduled, and library code, which may call malloc, returns.        *)
FairSpec ==
    /\ Spec
    /\ \A t \in Threads :
        /\ WF_vars(Step(t))
        /\ SF_vars(InitHeap(t) \/ CloneHeap(t) \/ RegisterHeap(t) \/ InitChan(t) \/ RegisterChan(t))
    /\ WF_vars(BgStart) /\ WF_vars(BgReceive)
-----------------------------------------------------------------------------
Count(s, Test(_)) == Cardinality({i \in DOMAIN s : Test(s[i])})

\* Where the handle of t is: its slot, a drop that has not sent it, the queue.
Places(t) ==
    (IF heap[t] = "initialized" THEN 1 ELSE 0)
    + Count(stack[t], LAMBDA f : f.op = "array" /\ f.arg = t)
    + Count(queue, LAMBDA m : m.husk = "array" /\ m.what = t)

(* A handle is dropped once, by the background thread, and is in one place *)
(* until then; a thread reaches it only while it is in the slot, also when *)
(* the program allocates after the slot's destructor.                      *)
HandleInOnePlace ==
    /\ \A t \in Threads :
        /\ Places(t) = (IF handle[t] = "live" THEN 1 ELSE 0)
        /\ At(t, "local") /\ ptr[t] => heap[t] = "initialized"
    /\ temps = Count(queue, LAMBDA m : m.what = "temp")
               + Cardinality({t \in Threads : \E i \in DOMAIN stack[t] :
                    LET f == stack[t][i] IN
                    f.arg = "temp" \/ (f.pc = "local" /\ f.op = "realloc" /\ ~ptr[t])})

(* No thread waits for a lazy_static it is creating itself, although that  *)
(* creation allocates and frees through the same functions ("Recursive     *)
(* malloc calls", general.rs:81).                                          *)
OnceNotReentered ==
    \A t \in Threads :
        /\ At(t, "once_heap") => elf_heap # t
        /\ At(t, "once_chan") => dchan # t

(* Whatever order the destructors of an exiting thread run in, its handle  *)
(* is dropped in the end, and what it frees afterwards is freed.           *)
Reclaimed ==
    /\ \A t \in Threads : phase[t] = "gone" ~> handle[t] # "live"
    /\ \A o \in Objects : obj[o].for = For("background") ~> obj[o].for # For("background")
=============================================================================
