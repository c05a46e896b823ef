-------------------------- MODULE GlobalHeapProofs --------------------------
(***************************************************************************)
(* That the global instance survives its own recursive calls: what is      *)
(* being created is not waited for by its creator, and each handle is in   *)
(* one place and dropped once.                                             *)
(***************************************************************************)
EXTENDS GlobalHeap, FiniteSetTheorems, TLAPS

\* The bottom frame of a stack.
Last(s) == s[Len(s)]

\* The places of a call, for the heap or the channel, and what its frame has.
Calls == {"alloc", "free", "realloc"}
ForHeap == {"once_heap", "init_heap", "clone", "register", "local", "fallback"}
ForChan == {"with_chan", "once_chan", "init_chan", "clone_chan", "register_chan", "send"}
Args == Objects \cup Threads \cup {"temp"}
Frames == [pc : ForHeap \cup ForChan, op : Calls \cup {"array", "ptr"}, arg : Args, own : BOOLEAN]
\* What an object may be marked with, an object, and what is sent.
Marks == (Threads \cup {"none", "program", "call", "background"}) \X (CallsMalloc \cup {""})
Things == [kind : {"none", "large", "slag"}, for : Marks]
Husks == [husk : {"array"}, what : Threads \cup {"temp"}] \cup [husk : {"ptr"}, what : Objects]

\* The types of the variables that the rest is about.
Types ==
    /\ heap \in [Threads -> {"uninitialized", "initializing", "initialized", "dropped"}]
    /\ chan \in [Threads -> {"uninitialized", "initializing", "initialized", "dropped"}]
    /\ ptr \in [Threads -> BOOLEAN]
    /\ dtors \in [Threads -> SUBSET {"heap", "chan"}]
    /\ queue \in Seq(Husks)
    /\ handle \in [Threads -> {"none", "live", "dropped"}]
    /\ temps \in Int
    /\ obj \in [Objects -> Things]
    /\ stack \in [Threads -> Seq(Frames)]

\* The outermost call of a thread, by the place it has come to.
Outer(t, f) ==
    /\ f.pc \in {"once_heap", "init_heap", "clone"} =>
        \/ f.own = TRUE /\ heap[t] = "initializing"
        \/ f.own = FALSE /\ heap[t] = "dropped" /\ f.op = "realloc"
    /\ f.pc = "init_heap" => f.own = TRUE /\ elf_heap = t
    /\ f.pc = "clone" => elf_heap = "ready"
    /\ f.pc = "fallback" => f.own = FALSE
    /\ f.pc = "register" => heap[t] = "initialized"
    /\ f.pc = "local" => heap[t] = "initialized" \/ (heap[t] = "dropped" /\ f.op = "realloc")
    /\ f.pc \in ForChan \cup {"fallback"} => heap[t] = "dropped"
    /\ IF f.pc \in ForHeap THEN f.op \in Calls ELSE f.op \in {"array", "ptr"}
    /\ f.op = "array" => f.arg \in {t, "temp"}
    /\ f.op # "array" => f.arg \in Objects

\* A call inside it, which does not call again.
Inner(n, f) ==
    /\ f.pc \in CallsMalloc
    /\ n.pc = IF f.pc = "register" THEN "local" ELSE "fallback"
    /\ n.op \in {"alloc", "free"}
    /\ n.arg \in Objects
    /\ n.arg # f.arg
    /\ n.pc = "fallback" /\ n.op = "free" => obj[n.arg].kind = "large"

\* A thread is in no call, in one, or in one and a call inside it: whatever
\* MaxDepth allows, calls of malloc nest once.
Shape(t) ==
    \/ stack[t] = <<>> /\ heap[t] # "initializing"
    \/ \E f \in Frames : stack[t] = <<f>> /\ Outer(t, f)
    \/ \E n, f \in Frames : stack[t] = <<n, f>> /\ Outer(t, f) /\ Inner(n, f)

\* A thread's slots and the lazy statics.
Slot(t) ==
    /\ ptr[t] <=> heap[t] = "initialized"
    /\ heap[t] \in {"initialized", "dropped"} => elf_heap = "ready"
    /\ heap[t] \in {"uninitialized", "initializing"} => handle[t] = "none"
    /\ "heap" \in dtors[t] => heap[t] = "initialized"
    /\ elf_heap = t => stack[t] # <<>> /\ Last(stack[t]).pc = "init_heap"
    /\ dchan = t => stack[t] # <<>> /\ Last(stack[t]).pc = "init_chan"

\* The objects a thread's calls are at, and those it has sent.
Held(t) == {o \in Objects : \E i \in DOMAIN stack[t] : stack[t][i].arg = o}
Sent == {o \in Objects : \E i \in DOMAIN queue : queue[i].what = o}

\* An object is in one call or one message at most.
InOnePlace ==
    /\ \A t, u \in Threads : t # u => Held(t) \cap Held(u) = {}
    /\ \A t \in Threads : Held(t) \cap Sent = {}
    /\ \A i, j \in DOMAIN queue : queue[i].what = queue[j].what /\ queue[i].what \in Objects => i = j

\* What the objects of a call are marked with.
Mark(f) == For(IF f.op = "ptr" THEN "background" ELSE "call")
Marked(t) ==
    \A i \in DOMAIN stack[t] :
        stack[t][i].op # "array" => obj[stack[t][i].arg].for = Mark(stack[t][i])

\* The objects of library code are large, except while a destructor is being
\* registered, when the thread has its handle: they can be freed without one.
Owners ==
    /\ \A t \in Threads : Marked(t)
    /\ \A o \in Sent : obj[o].for = For("background")
    /\ \A o \in Objects, t \in Threads, pc \in CallsMalloc \ {"register"} :
        obj[o].for = <<t, pc>> => obj[o].kind = "large"

\* The part of the invariant about calls, slots and objects.
Good == Types /\ (\A t \in Threads : Shape(t) /\ Slot(t)) /\ InOnePlace /\ Owners

\* What the operations on the stack do with one call, and with two.
Sole(t, f) ==
    /\ stack[t] = <<f>> /\ Outer(t, f)
    /\ Top(t) = f /\ Last(stack[t]) = f
    /\ Owner(t) = For("program")
    /\ \A g \in Frames : Go(t, g) => stack' = [stack EXCEPT ![t] = <<g>>]
    /\ \A g \in Frames : Push(t, g) => stack' = [stack EXCEPT ![t] = <<g, f>>]
    /\ Return(t) => stack' = [stack EXCEPT ![t] = <<>>]

Pair(t, n, f) ==
    /\ stack[t] = <<n, f>> /\ Outer(t, f) /\ Inner(n, f)
    /\ Top(t) = n /\ Last(stack[t]) = f
    /\ Owner(t) = <<t, f.pc>>
    /\ Return(t) => stack' = [stack EXCEPT ![t] = <<f>>]
-----------------------------------------------------------------------------
(* Stacks of one and of two calls: what Head, Tail and \o, which Top, Go,  *)
(* Push and Return are made of, do with them.                              *)
LEMMA Tuples ==
    ASSUME NEW f \in Frames, NEW n \in Frames
    PROVE  /\ Len(<<f>>) = 1 /\ <<f>> # <<>> /\ <<f>>[1] = f /\ DOMAIN <<f>> = {1}
           /\ Len(<<n, f>>) = 2 /\ <<n, f>> # <<>> /\ <<n, f>>[1] = n /\ <<n, f>>[2] = f
           /\ DOMAIN <<n, f>> = {1, 2} /\ DOMAIN <<>> = {}
           /\ Head(<<f>>) = f /\ Tail(<<f>>) = <<>>
           /\ Head(<<n, f>>) = n /\ Tail(<<n, f>>) = <<f>>
           /\ <<n>> \o <<>> = <<n>> /\ <<n>> \o <<f>> = <<n, f>>
           /\ <<>> \in Seq(Frames) /\ <<f>> \in Seq(Frames) /\ <<n, f>> \in Seq(Frames)
<1> DEFINE c == <<n>> \o <<f>>
           d == <<n, f>>
<1>1. c = d
  <2>1. c \in Seq(Frames) /\ d \in Seq(Frames)
    OBVIOUS
  <2>2. Len(c) = 2 /\ Len(d) = 2
    OBVIOUS
  <2>3. c[1] = n /\ c[2] = f /\ d[1] = n /\ d[2] = f
    OBVIOUS
  <2>4. ASSUME NEW s \in Seq(Frames), NEW r \in Seq(Frames), Len(s) = Len(r),
               \A i \in 1 .. Len(s) : s[i] = r[i]
        PROVE  s = r
    BY <2>4
  <2> HIDE DEF c, d
  <2>5. \A i \in 1 .. Len(c) : c[i] = d[i]
    BY <2>2, <2>3
  <2> QED
    BY Zenon, <2>1, <2>2, <2>4, <2>5
<1>2. Len(<<f>>) = 1 /\ <<f>> # <<>> /\ <<f>>[1] = f /\ DOMAIN <<f>> = {1} /\ DOMAIN <<>> = {}
  OBVIOUS
<1>3. Len(<<n, f>>) = 2 /\ <<n, f>> # <<>> /\ <<n, f>>[1] = n /\ <<n, f>>[2] = f
  BY Zenon
<1>4. Head(<<f>>) = f /\ Tail(<<f>>) = <<>>
  OBVIOUS
<1>5. Head(<<n, f>>) = n /\ Tail(<<n, f>>) = <<f>>
  OBVIOUS
<1>6. <<n>> \o <<>> = <<n>>
  OBVIOUS
<1>7. <<>> \in Seq(Frames) /\ <<f>> \in Seq(Frames) /\ <<n, f>> \in Seq(Frames)
  OBVIOUS
<1>8. DOMAIN <<n, f>> = {1, 2}
  OBVIOUS
<1> QED
  BY Zenon, <1>1, <1>2, <1>3, <1>4, <1>5, <1>6, <1>7, <1>8 DEF c, d

(* A thread that is in a call (alloc, free or realloc of mod global, or a  *)
(* drop) is in one, or in one inside another; the objects of its calls are *)
(* marked as being in a call or as left to the background thread.          *)
LEMMA InACall ==
    ASSUME NEW t \in Threads, Shape(t)
    PROVE  /\ stack[t] # <<>> => \/ \E f \in Frames : Sole(t, f)
                                 \/ \E n, f \in Frames : Pair(t, n, f)
           /\ \A i \in DOMAIN stack[t] : stack[t][i].op # "array" => stack[t][i].arg \in Objects
           /\ Marked(t) => \A o \in Held(t) :
                o \in Objects /\ obj[o].for \in {For("call"), For("background")}
<1>1. ASSUME NEW f \in Frames, stack[t] = <<f>>, Outer(t, f)
      PROVE  Sole(t, f)
  <2>0. stack[t][1] = f
    BY <1>1
  <2>1. Top(t) = f /\ Len(stack[t]) = 1 /\ Tail(stack[t]) = <<>>
    BY Zenon, <1>1, Tuples DEF Top
  <2>2. ASSUME NEW g \in Frames
        PROVE  <<g>> \o Tail(stack[t]) = <<g>> /\ <<g>> \o stack[t] = <<g, f>>
    <3>1. <<g>> \o <<>> = <<g>> /\ <<g>> \o <<f>> = <<g, f>>
      BY Zenon, Tuples
    <3> QED
      BY Zenon, <1>1, <2>1, <3>1
  <2>3. Owner(t) = For("program")
    BY Zenon, <2>1 DEF Owner
  <2>4. \A g \in Frames : Go(t, g) => stack' = [stack EXCEPT ![t] = <<g>>]
    BY Zenon, <2>2 DEF Go
  <2>5. \A g \in Frames : Push(t, g) => stack' = [stack EXCEPT ![t] = <<g, f>>]
    BY Zenon, <2>2 DEF Push
  <2>6. Return(t) => stack' = [stack EXCEPT ![t] = <<>>]
    BY Zenon, <2>1 DEF Return
  <2> QED
    BY Zenon, <1>1, <2>0, <2>1, <2>3, <2>4, <2>5, <2>6 DEF Sole, Last
<1>2. ASSUME NEW n \in Frames, NEW f \in Frames, stack[t] = <<n, f>>, Outer(t, f), Inner(n, f)
      PROVE  Pair(t, n, f)
  <2>1. Top(t) = n /\ Len(stack[t]) = 2 /\ Tail(stack[t]) = <<f>> /\ stack[t][2] = f
    <3>1. Head(<<n, f>>) = n /\ Len(<<n, f>>) = 2 /\ Tail(<<n, f>>) = <<f>> /\ <<n, f>>[2] = f
      BY Zenon, Tuples
    <3> QED
      BY Zenon, <1>2, <3>1 DEF Top
  <2>2. Len(stack[t]) # 1
    BY <2>1
  <2>3. Owner(t) = <<t, f.pc>>
    BY Zenon, <2>1, <2>2 DEF Owner
  <2>4. Return(t) => stack' = [stack EXCEPT ![t] = <<f>>]
    BY Zenon, <2>1 DEF Return
  <2> QED
    BY Zenon, <1>2, <2>1, <2>3, <2>4 DEF Pair, Last
<1>3. ASSUME Marked(t), NEW o \in Held(t)
      PROVE  o \in Objects /\ obj[o].for \in {For("call"), For("background")}
  <2>1. o \in Objects /\ \E i \in DOMAIN stack[t] : stack[t][i].arg = o
    BY Zenon, <1>3 DEF Held
  <2>2. PICK i \in DOMAIN stack[t] : stack[t][i].arg = o
    BY Zenon, <2>1
  <2>3. stack[t][i].op # "array"
    <3>1. stack[t] # <<>>
      BY <2>2
    <3>2. ASSUME NEW f \in Frames, stack[t] = <<f>>, Outer(t, f)
          PROVE  stack[t][i].op # "array"
      BY <2>1, <2>2, <3>2, GlobalHeapAssumption, Tuples DEF Outer
    <3>3. ASSUME NEW n \in Frames, NEW f \in Frames, stack[t] = <<n, f>>, Outer(t, f), Inner(n, f)
          PROVE  stack[t][i].op # "array"
      BY <2>1, <2>2, <3>3, GlobalHeapAssumption, Tuples DEF Outer, Inner
    <3> QED
      BY Zenon, <3>1, <3>2, <3>3 DEF Shape
  <2> QED
    BY Zenon, <1>3, <2>1, <2>2, <2>3 DEF Marked, Mark
<1>4. ASSUME NEW i \in DOMAIN stack[t], stack[t][i].op # "array"
      PROVE  stack[t][i].arg \in Objects
  <2>1. ASSUME NEW f \in Frames, stack[t] = <<f>>, Outer(t, f)
        PROVE  stack[t][i].arg \in Objects
    BY <1>4, <2>1, Tuples DEF Outer
  <2>2. ASSUME NEW n \in Frames, NEW f \in Frames, stack[t] = <<n, f>>, Outer(t, f), Inner(n, f)
        PROVE  stack[t][i].arg \in Objects
    <3>1. i \in {1, 2} /\ stack[t][1] = n /\ stack[t][2] = f
      BY <1>4, <2>2, Tuples
    <3> QED
      BY Zenon, <1>4, <2>2, <3>1 DEF Outer, Inner
  <2>3. stack[t] # <<>>
    BY <1>4
  <2> QED
    BY Zenon, <2>1, <2>2, <2>3 DEF Shape
<1> QED
  BY Zenon, <1>1, <1>2, <1>3, <1>4 DEF Shape

\* A thread is at dropping its handle, or has a handle for one call.
Drops(t) == stack[t] # <<>> /\ Last(stack[t]).op = "array" /\ Last(stack[t]).arg = t
Lends(t) ==
    LET f == Last(stack[t]) IN
    /\ stack[t] # <<>>
    /\ f.arg = "temp" \/ (f.pc = "local" /\ f.op = "realloc" /\ ~ptr[t])

\* Where the handle of t is, once more, and how many there are for one call.
Queued(t) == {i \in DOMAIN queue : queue[i].husk = "array" /\ queue[i].what = t}
Home(t) ==
    /\ \A i, j \in Queued(t) : i = j
    /\ heap[t] = "initialized" => ~Drops(t) /\ Queued(t) = {}
    /\ Drops(t) => Queued(t) = {}
    /\ handle[t] = "live" <=> heap[t] = "initialized" \/ Drops(t) \/ Queued(t) # {}
LentQueued == {i \in DOMAIN queue : queue[i].what = "temp"}
Lenders == {t \in Threads : Lends(t)}
Lent == temps = Cardinality(LentQueued) + Cardinality(Lenders)

\* The inductive invariant.
IInv == Good /\ (\A t \in Threads : Home(t)) /\ Lent

\* What a step of t does to the objects ...
MovesObjects(t) ==
    \/ UNCHANGED <<obj, queue>> /\ Held(t)' = Held(t)
    \/ /\ obj' = obj /\ Held(t)' = {}
       /\ \E h \in Husks :
            /\ queue' = Append(queue, h)
            /\ h.what \in Objects => h.what \in Held(t) /\ obj[h.what].for = For("background")
    \/ /\ queue' = queue
       /\ \E o \in Objects, r \in Things :
            /\ obj' = [obj EXCEPT ![o] = r]
            /\ o \in Held(t) \/ obj[o].for \notin {For("call"), For("background")}
            /\ Held(t)' \subseteq Held(t) \cup {o}
            /\ \A u \in Threads, pc \in CallsMalloc \ {"register"} :
                r.for = <<u, pc>> => r.kind = "large"

\* ... and to the handles: nothing, make one, begin to drop it, make one for
\* a call, or send.
SameHandle(t) ==
    UNCHANGED handle /\ (heap'[t] = "initialized" <=> heap[t] = "initialized")
MovesHandles(t) ==
    \/ /\ UNCHANGED <<queue, temps>> /\ SameHandle(t)
       /\ (Drops(t)' <=> Drops(t)) /\ (Lends(t)' <=> Lends(t))
    \/ /\ UNCHANGED <<queue, temps>>
       /\ handle[t] = "none" /\ handle' = [handle EXCEPT ![t] = "live"]
       /\ heap[t] # "initialized" /\ heap'[t] = "initialized"
       /\ ~Drops(t)' /\ ~Drops(t) /\ ~Lends(t)' /\ ~Lends(t)
    \/ /\ UNCHANGED <<queue, temps, handle>>
       /\ heap[t] = "initialized" /\ heap'[t] # "initialized"
       /\ Drops(t)' /\ ~Drops(t) /\ ~Lends(t)' /\ ~Lends(t)
    \/ /\ UNCHANGED queue /\ temps' = temps + 1 /\ SameHandle(t)
       /\ ~Drops(t)' /\ ~Drops(t) /\ Lends(t)' /\ ~Lends(t)
    \/ /\ UNCHANGED temps /\ SameHandle(t) /\ ~Drops(t)' /\ ~Lends(t)'
       /\ \E h \in Husks :
            /\ queue' = Append(queue, h)
            /\ \/ h.what = t /\ h.husk = "array" /\ Drops(t) /\ ~Lends(t)
               \/ h.what = "temp" /\ ~Drops(t) /\ Lends(t)
               \/ h.what \in Objects /\ h.husk = "ptr" /\ ~Drops(t) /\ ~Lends(t)

\* A step of thread t leaves the others their slots, stacks and objects, and
\* of the lazy statics takes one that nobody has, or finishes its own.
Alone(t) ==
    /\ \A u \in Threads \ {t} :
        /\ stack'[u] = stack[u] /\ heap'[u] = heap[u] /\ ptr'[u] = ptr[u]
        /\ dtors'[u] = dtors[u] /\ handle'[u] = handle[u]
        /\ \A o \in Held(u) : obj'[o] = obj[o]
    /\ \/ elf_heap' = elf_heap
       \/ elf_heap = "none" /\ elf_heap' = t
       \/ elf_heap = t /\ elf_heap' = "ready"
    /\ dchan' \in {dchan, t, "ready"}

(* A step of a thread keeps the types and the shape of its calls and       *)
(* slots, leaves the other threads alone, and moves objects and handles    *)
(* from one place to one other. A call made by library code never comes to *)
(* once_heap or once_chan: with_slow finds the slot initializing or        *)
(* dropped, or the fast path finds its pointer, because the slot is marked *)
(* before new_handle is called.                                            *)
LEMMA ThreadStep ==
    ASSUME Good, NEW t \in Threads, Call(t) \/ Step(t) \/ Exit(t) \/ Gone(t)
    PROVE  /\ Types' /\ Shape(t)' /\ Slot(t)' /\ Alone(t)
           /\ Marked(t)' /\ MovesObjects(t) /\ MovesHandles(t)
<1> DEFINE Effect == Marked(t)' /\ MovesObjects(t) /\ MovesHandles(t)
           Goal == Types' /\ Shape(t)' /\ Slot(t)' /\ Alone(t) /\ Effect
<1> USE DEF Types
<1>0. Types /\ Shape(t) /\ Slot(t)
  BY Zenon DEF Good
<1>t. /\ heap \in [Threads -> {"uninitialized", "initializing", "initialized", "dropped"}]
      /\ handle \in [Threads -> {"none", "live", "dropped"}]
      /\ temps \in Int
      /\ obj \in [Objects -> Things]
  BY Zenon, <1>0
<1>h. ASSUME NEW u \in Threads, NEW o \in Held(u)
      PROVE  o \in Objects /\ obj[o].for \in {For("call"), For("background")}
  BY Zenon, <1>h, InACall DEF Good, Owners
<1>e. ASSUME stack' = [stack EXCEPT ![t] = <<>>]
      PROVE  /\ stack' \in [Threads -> Seq(Frames)] /\ stack'[t] = <<>>
             /\ \A u \in Threads \ {t} : stack'[u] = stack[u]
             /\ heap'[t] # "initializing" => Shape(t)'
  <2>1. /\ stack' \in [Threads -> Seq(Frames)] /\ stack'[t] = <<>>
        /\ \A u \in Threads \ {t} : stack'[u] = stack[u]
    <3>1. <<>> \in Seq(Frames)
      OBVIOUS
    <3> QED
      BY <1>0, <1>e, <3>1
  <2> QED
    BY Zenon, <2>1 DEF Shape
<1>s. ASSUME NEW g \in Frames, stack' = [stack EXCEPT ![t] = <<g>>]
      PROVE  /\ stack' \in [Threads -> Seq(Frames)] /\ stack'[t] # <<>> /\ Last(stack'[t]) = g
             /\ \A u \in Threads \ {t} : stack'[u] = stack[u]
             /\ Outer(t, g)' => Shape(t)'
  <2>1. stack'[t] = <<g>> /\ \A u \in Threads \ {t} : stack'[u] = stack[u]
    BY <1>0, <1>s
  <2>2. stack' \in [Threads -> Seq(Frames)]
    BY <1>0, <1>s, Tuples
  <2>3. stack'[t] # <<>> /\ Last(stack'[t]) = g
    BY Zenon, <2>1, Tuples DEF Last
  <2> QED
    BY Zenon, <2>1, <2>2, <2>3 DEF Shape
<1>p. ASSUME NEW g \in Frames, NEW f \in Frames, stack' = [stack EXCEPT ![t] = <<g, f>>]
      PROVE  /\ stack' \in [Threads -> Seq(Frames)] /\ stack'[t] # <<>> /\ Last(stack'[t]) = f
             /\ \A u \in Threads \ {t} : stack'[u] = stack[u]
             /\ Outer(t, f)' /\ Inner(g, f)' => Shape(t)'
  <2>1. stack'[t] = <<g, f>> /\ \A u \in Threads \ {t} : stack'[u] = stack[u]
    BY <1>0, <1>p
  <2>2. stack' \in [Threads -> Seq(Frames)]
    BY <1>0, <1>p, Tuples
  <2>3. stack'[t] # <<>> /\ Last(stack'[t]) = f
    BY ZenonT(40), <2>1, Tuples DEF Last
  <2> QED
    BY Zenon, <2>1, <2>2, <2>3 DEF Shape
\* A step that is taken in an outermost call only.
<1>a. ASSUME NEW pc, At(t, pc), pc \notin {"local", "fallback"}
      PROVE  \E f \in Frames : Sole(t, f) /\ f.pc = pc
  BY Zenon, <1>0, <1>a, InACall DEF At, Pair, Inner, Sole
<1>b. ASSUME NEW f \in Frames, Sole(t, f)
      PROVE  /\ Outer(t, f) /\ Top(t) = f
             /\ elf_heap = t => f.pc = "init_heap"
             /\ dchan = t => f.pc = "init_chan"
             /\ ptr[t] <=> heap[t] = "initialized"
             /\ t \notin {"none", "ready"}
             /\ heap[t] \in {"initialized", "dropped"} => elf_heap = "ready"
  BY Zenon, <1>0, <1>b, GlobalHeapAssumption DEF Sole, Slot
<1>g. ASSUME NEW f \in Frames, Sole(t, f), NEW pc \in ForHeap \cup ForChan, GoTo(t, pc)
      PROVE  \E g \in Frames : /\ stack' = [stack EXCEPT ![t] = <<g>>]
                               /\ g.pc = pc /\ g.op = f.op /\ g.arg = f.arg /\ g.own = f.own
  <2> DEFINE g == [f EXCEPT !.pc = pc]
  <2>1. g \in Frames /\ g.pc = pc /\ g.op = f.op /\ g.arg = f.arg /\ g.own = f.own
    BY Zenon DEF Frames
  <2>2. Go(t, g)
    BY Zenon, <1>g DEF GoTo, Sole
  <2> QED
    BY Zenon, <1>g, <2>1, <2>2 DEF Sole
<1>e2. ASSUME stack' = [stack EXCEPT ![t] = <<>>]
       PROVE  Held(t)' = {} /\ Marked(t)' /\ ~Drops(t)' /\ ~Lends(t)'
  <2>1. stack'[t] = <<>>
    BY Zenon, <1>e, <1>e2
  <2>2. DOMAIN stack'[t] = {}
    BY <2>1
  <2> QED
    BY Zenon, <2>1, <2>2 DEF Held, Marked, Drops, Lends
<1>s2. ASSUME NEW g \in Frames, stack' = [stack EXCEPT ![t] = <<g>>]
       PROVE  /\ Held(t)' = {g.arg} \cap Objects
              /\ (g.op # "array" => obj'[g.arg].for = Mark(g)) => Marked(t)'
              /\ Drops(t)' <=> g.op = "array" /\ g.arg = t
              /\ Lends(t)' <=> g.arg = "temp" \/ (g.pc = "local" /\ g.op = "realloc" /\ ~ptr'[t])
  <2>1. stack'[t] = <<g>>
    BY <1>0, <1>s2
  <2>2. DOMAIN stack'[t] = {1} /\ stack'[t][1] = g
    BY <2>1, Tuples
  <2>3. stack'[t] # <<>> /\ Last(stack'[t]) = g
    BY Zenon, <1>s, <1>s2
  <2>4. Held(t)' = {g.arg} \cap Objects
    BY Zenon, <2>2 DEF Held
  <2>5. (g.op # "array" => obj'[g.arg].for = Mark(g)) => Marked(t)'
    BY Zenon, <2>2 DEF Marked, Mark
  <2> QED
    BY Zenon, <2>3, <2>4, <2>5 DEF Drops, Lends
<1>p2. ASSUME NEW n \in Frames, NEW f \in Frames, stack' = [stack EXCEPT ![t] = <<n, f>>]
       PROVE  /\ Held(t)' = {n.arg, f.arg} \cap Objects
              /\ /\ n.op # "array" => obj'[n.arg].for = Mark(n)
                 /\ f.op # "array" => obj'[f.arg].for = Mark(f)
                 => Marked(t)'
              /\ Drops(t)' <=> f.op = "array" /\ f.arg = t
              /\ Lends(t)' <=> f.arg = "temp" \/ (f.pc = "local" /\ f.op = "realloc" /\ ~ptr'[t])
  <2>1. stack'[t] = <<n, f>>
    BY <1>0, <1>p2
  <2>2. DOMAIN stack'[t] = {1, 2} /\ stack'[t][1] = n /\ stack'[t][2] = f
    BY <2>1, Tuples
  <2>3. stack'[t] # <<>> /\ Last(stack'[t]) = f
    BY Zenon, <1>p, <1>p2
  <2>4. Held(t)' = {n.arg, f.arg} \cap Objects
    BY Zenon, <2>2 DEF Held
  <2>5. /\ n.op # "array" => obj'[n.arg].for = Mark(n)
        /\ f.op # "array" => obj'[f.arg].for = Mark(f)
        => Marked(t)'
    BY Zenon, <2>2 DEF Marked, Mark
  <2> QED
    BY Zenon, <2>3, <2>4, <2>5 DEF Drops, Lends
<1>s0. ASSUME NEW f \in Frames, Sole(t, f)
       PROVE  /\ Held(t) = {f.arg} \cap Objects
              /\ f.op # "array" => obj[f.arg].for = Mark(f)
              /\ Drops(t) <=> f.op = "array" /\ f.arg = t
              /\ Lends(t) <=> f.arg = "temp" \/ (f.pc = "local" /\ f.op = "realloc" /\ ~ptr[t])
  <2>1. stack[t] = <<f>> /\ Last(stack[t]) = f /\ Marked(t)
    BY Zenon, <1>s0 DEF Sole, Good, Owners
  <2>2. DOMAIN stack[t] = {1} /\ stack[t][1] = f /\ stack[t] # <<>>
    BY <2>1, Tuples
  <2>3. Held(t) = {f.arg} \cap Objects
    BY Zenon, <2>2 DEF Held
  <2>4. f.op # "array" => obj[f.arg].for = Mark(f)
    BY Zenon, <2>1, <2>2 DEF Marked
  <2> QED
    BY Zenon, <2>1, <2>2, <2>3, <2>4 DEF Drops, Lends
<1>p0. ASSUME NEW n \in Frames, NEW f \in Frames, Pair(t, n, f)
       PROVE  /\ Held(t) = {n.arg, f.arg} \cap Objects
              /\ f.op # "array" => obj[f.arg].for = Mark(f)
              /\ Drops(t) <=> f.op = "array" /\ f.arg = t
              /\ Lends(t) <=> f.arg = "temp" \/ (f.pc = "local" /\ f.op = "realloc" /\ ~ptr[t])
  <2>1. stack[t] = <<n, f>> /\ Last(stack[t]) = f /\ Marked(t)
    BY Zenon, <1>p0 DEF Pair, Good, Owners
  <2>2. DOMAIN stack[t] = {1, 2} /\ stack[t][1] = n /\ stack[t][2] = f /\ stack[t] # <<>>
    BY <2>1, Tuples
  <2>3. Held(t) = {n.arg, f.arg} \cap Objects
    BY Zenon, <2>2 DEF Held
  <2>4. f.op # "array" => obj[f.arg].for = Mark(f)
    BY Zenon, <2>1, <2>2 DEF Marked
  <2> QED
    BY Zenon, <2>1, <2>2, <2>3, <2>4 DEF Drops, Lends
<1>q. ASSUME NEW f \in Frames, Sole(t, f), f.pc # "local",
             NEW g \in Frames, stack' = [stack EXCEPT ![t] = <<g>>],
             g.op = f.op, g.arg = f.arg, g.pc = "local" => ptr[t],
             UNCHANGED <<heap, ptr, queue, handle, temps, obj>>
      PROVE  Effect
  <2>1. Mark(g) = Mark(f)
    BY Zenon, <1>q DEF Mark
  <2>2. Marked(t)' /\ Held(t)' = Held(t)
    BY Zenon, <1>q, <1>s0, <1>s2, <2>1
  <2>3. (Drops(t)' <=> Drops(t)) /\ (Lends(t)' <=> Lends(t))
    BY Zenon, <1>q, <1>s0, <1>s2
  <2> QED
    BY Zenon, <1>q, <2>2, <2>3 DEF MovesObjects, MovesHandles, SameHandle
<1>k. ASSUME NEW g \in Frames, stack' = [stack EXCEPT ![t] = <<g>>],
             UNCHANGED <<heap, ptr, dtors, handle>>,
             elf_heap' = t => g.pc = "init_heap", dchan' = t => g.pc = "init_chan",
             heap[t] \in {"initialized", "dropped"} => elf_heap' = "ready"
      PROVE  Slot(t)'
  <2>1. stack'[t] # <<>> /\ Last(stack'[t]) = g
    BY Zenon, <1>s, <1>k
  <2> QED
    BY Zenon, <1>0, <1>k, <2>1 DEF Slot
<1>1. CASE OnceHeap(t)
  <2>1. PICK f \in Frames : Sole(t, f) /\ f.pc = "once_heap"
    BY Zenon, <1>1, <1>a DEF OnceHeap
  <2>2. PICK pc \in ForHeap \cup ForChan :
            /\ GoTo(t, pc)
            /\ \/ pc = "clone" /\ elf_heap = "ready" /\ elf_heap' = elf_heap
               \/ pc = "init_heap" /\ elf_heap = "none" /\ elf_heap' = t
    <3>1. "clone" \in ForHeap \cup ForChan /\ "init_heap" \in ForHeap \cup ForChan
      BY Zenon DEF ForHeap
    <3>2. CASE elf_heap = "ready" /\ GoTo(t, "clone") /\ UNCHANGED elf_heap
      BY Zenon, <3>1, <3>2
    <3>3. CASE elf_heap = "none" /\ GoTo(t, "init_heap") /\ elf_heap' = t
      BY Zenon, <3>1, <3>3
    <3> QED
      BY Zenon, <1>1, <3>2, <3>3 DEF OnceHeap
  <2>3. PICK g \in Frames :
            /\ stack' = [stack EXCEPT ![t] = <<g>>]
            /\ g.pc = pc /\ g.op = f.op /\ g.arg = f.arg /\ g.own = f.own
    BY Zenon, <1>g, <2>1, <2>2
  <2>4. UNCHANGED <<heap, chan, ptr, dtors, handle, queue, temps, obj, dchan>>
    BY Zenon, <1>1 DEF OnceHeap, slots, lazies
  <2>5. Outer(t, g)'
    <3>1. Outer(t, f) /\ (heap[t] = "dropped" => elf_heap = "ready")
      BY Zenon, <1>b, <2>1
    <3> QED
      BY <2>1, <2>2, <2>3, <2>4, <3>1 DEF Outer, ForHeap, ForChan
  <2>6. Slot(t)'
    <3>1. elf_heap' = t => pc = "init_heap"
      BY <1>b, <2>1, <2>2, <2>4
    <3>2. dchan' = t => pc = "init_chan"
      BY <1>b, <2>1, <2>2, <2>4
    <3>3. heap[t] \in {"initialized", "dropped"} => elf_heap' = "ready"
      BY <1>0, <1>b, <2>1, <2>2, <2>4 DEF Slot, Outer
    <3> QED
      BY Zenon, <1>k, <2>3, <2>4, <3>1, <3>2, <3>3
  <2>7. Types' /\ Alone(t)
    BY <1>0, <1>s, <1>b, <2>1, <2>2, <2>3, <2>4 DEF Alone
  <2>8. Effect
    <3>1. pc # "local" /\ f.pc # "local"
      BY <2>1, <2>2
    <3> QED
      BY Zenon, <1>q, <2>1, <2>3, <2>4, <3>1
  <2> QED
    BY Zenon, <1>s, <2>3, <2>5, <2>6, <2>7, <2>8
<1>2. CASE InitHeap(t)
  <2>1. PICK f \in Frames : Sole(t, f) /\ f.pc = "init_heap"
    BY Zenon, <1>2, <1>a DEF InitHeap
  <2>2. PICK pc \in ForHeap \cup ForChan :
            /\ GoTo(t, pc)
            /\ pc = "clone" /\ elf_heap' = "ready"
    BY Zenon, <1>2 DEF InitHeap, ForHeap, ForChan
  <2>3. PICK g \in Frames :
            /\ stack' = [stack EXCEPT ![t] = <<g>>]
            /\ g.pc = pc /\ g.op = f.op /\ g.arg = f.arg /\ g.own = f.own
    BY Zenon, <1>g, <2>1, <2>2
  <2>4. UNCHANGED <<heap, chan, ptr, dtors, handle, queue, temps, obj, dchan>>
    BY Zenon, <1>2 DEF InitHeap, slots, lazies
  <2>5. Outer(t, g)'
    <3>1. Outer(t, f) /\ (heap[t] = "dropped" => elf_heap = "ready")
      BY Zenon, <1>b, <2>1
    <3> QED
      BY <2>1, <2>2, <2>3, <2>4, <3>1 DEF Outer, ForHeap, ForChan
  <2>6. Slot(t)'
    <3>1. elf_heap' = t => pc = "init_heap"
      BY <1>b, <2>1, <2>2, <2>4
    <3>2. dchan' = t => pc = "init_chan"
      BY <1>b, <2>1, <2>2, <2>4
    <3>3. heap[t] \in {"initialized", "dropped"} => elf_heap' = "ready"
      BY <1>0, <1>b, <2>1, <2>2, <2>4 DEF Slot, Outer
    <3> QED
      BY Zenon, <1>k, <2>3, <2>4, <3>1, <3>2, <3>3
  <2>7. Types' /\ Alone(t)
    BY Zenon, <1>0, <1>s, <1>b, <2>1, <2>2, <2>3, <2>4 DEF Alone, Outer
  <2>8. Effect
    <3>1. pc # "local" /\ f.pc # "local"
      BY <2>1, <2>2
    <3> QED
      BY Zenon, <1>q, <2>1, <2>3, <2>4, <3>1
  <2> QED
    BY Zenon, <1>s, <2>3, <2>5, <2>6, <2>7, <2>8
<1>3. CASE CloneHeap(t)
  <2>1. PICK f \in Frames : Sole(t, f) /\ f.pc = "clone"
    BY Zenon, <1>3, <1>a DEF CloneHeap
  <2>2. PICK pc \in ForHeap \cup ForChan :
            /\ GoTo(t, pc)
            /\ \/ /\ f.own = TRUE /\ pc = "register"
                  /\ handle' = [handle EXCEPT ![t] = "live"]
                  /\ heap' = [heap EXCEPT ![t] = "initialized"]
                  /\ ptr' = [ptr EXCEPT ![t] = TRUE]
                  /\ temps' = temps
               \/ /\ f.own = FALSE /\ pc = "local"
                  /\ UNCHANGED <<heap, ptr, handle>> /\ temps' = temps + 1
    <3>1. f.own \in BOOLEAN /\ Top(t) = f
      BY <1>b, <2>1 DEF Frames
    <3>2. "register" \in ForHeap \cup ForChan /\ "local" \in ForHeap \cup ForChan
      BY Zenon DEF ForHeap, ForChan
    <3> QED
      BY Zenon, <1>3, <3>1, <3>2 DEF CloneHeap
  <2>3. PICK g \in Frames :
            /\ stack' = [stack EXCEPT ![t] = <<g>>]
            /\ g.pc = pc /\ g.op = f.op /\ g.arg = f.arg /\ g.own = f.own
    BY Zenon, <1>g, <2>1, <2>2
  <2>4. UNCHANGED <<chan, dtors, elf_heap, dchan, queue, obj>>
    BY Zenon, <1>3 DEF CloneHeap, lazies
  <2>5. elf_heap = "ready" /\ heap[t] = IF f.own = TRUE THEN "initializing" ELSE "dropped"
    BY Zenon, <1>b, <2>1 DEF Outer
  <2>6. Outer(t, g)'
    BY ZenonT(40), <1>0, <1>b, <2>1, <2>2, <2>3, <2>4, <2>5 DEF Outer, ForHeap, ForChan
  <2>7. Slot(t)'
    <3>1. stack'[t] # <<>> /\ Last(stack'[t]) = g
      BY Zenon, <1>s, <2>3
    <3>2. elf_heap' # t /\ dchan' # t
      BY <1>b, <2>1, <2>4, <2>5
    <3>3. CASE f.own = TRUE
      <4>1. heap'[t] = "initialized"
        <5>1. heap' = [heap EXCEPT ![t] = "initialized"]
          BY Zenon, <2>2, <3>3
        <5> QED
          BY <1>t, <5>1
      <4>2. ptr'[t]
        BY Zenon, <1>0, <2>2, <3>3
      <4> QED
        BY Zenon, <2>4, <2>5, <3>1, <3>2, <4>1, <4>2 DEF Slot
    <3>4. CASE f.own = FALSE
      BY Zenon, <1>0, <2>2, <2>4, <2>5, <3>1, <3>2, <3>4 DEF Slot
    <3> QED
      BY Zenon, <2>2, <3>3, <3>4
  <2>8. ptr' \in [Threads -> BOOLEAN] /\ \A u \in Threads \ {t} : ptr'[u] = ptr[u]
    BY Zenon, <1>0, <2>2
  <2>9. /\ heap' \in [Threads -> {"uninitialized", "initializing", "initialized", "dropped"}]
        /\ handle' \in [Threads -> {"none", "live", "dropped"}]
        /\ \A u \in Threads \ {t} : heap'[u] = heap[u] /\ handle'[u] = handle[u]
        /\ temps' \in Int
    <3>1. CASE f.own = TRUE
      <4>1. /\ handle' = [handle EXCEPT ![t] = "live"] /\ heap' = [heap EXCEPT ![t] = "initialized"]
            /\ temps' = temps
        BY Zenon, <2>2, <3>1
      <4> QED
        BY <1>t, <4>1
    <3>2. CASE f.own = FALSE
      <4>1. heap' = heap /\ handle' = handle /\ temps' = temps + 1
        BY Zenon, <2>2, <3>2
      <4> QED
        BY <1>t, <4>1
    <3> QED
      BY Zenon, <2>2, <3>1, <3>2
  <2>10. Types' /\ Alone(t)
    BY Zenon, <1>0, <1>s, <2>3, <2>4, <2>8, <2>9 DEF Alone
  <2>11. Effect
    <3>1. f.op \in Calls /\ f.arg \in Objects /\ f.arg # "temp" /\ f.op # "array"
      BY Zenon, <1>b, <2>1, GlobalHeapAssumption DEF Outer, ForHeap, Calls
    <3>2. Mark(g) = Mark(f)
      BY Zenon, <2>3 DEF Mark
    <3>3. Marked(t)' /\ Held(t)' = Held(t)
      BY Zenon, <1>s0, <1>s2, <2>1, <2>3, <2>4, <3>2
    <3>4. ~Drops(t)' /\ ~Drops(t) /\ ~Lends(t)
      BY Zenon, <1>s0, <1>s2, <2>1, <2>3, <3>1
    <3>5. CASE f.own = TRUE
      <4>1. /\ heap[t] = "initializing" /\ handle[t] = "none"
            /\ handle' = [handle EXCEPT ![t] = "live"]
            /\ g.pc = "register" /\ temps' = temps
        BY Zenon, <1>0, <2>2, <2>3, <2>5, <3>5 DEF Slot
      <4>2. heap'[t] = "initialized"
        BY Zenon, <1>t, <2>2, <3>5
      <4>3. ~Lends(t)'
        BY Zenon, <1>s2, <2>3, <3>1, <4>1
      <4> QED
        BY Zenon, <2>4, <3>3, <3>4, <4>1, <4>2, <4>3 DEF MovesObjects, MovesHandles
    <3>6. CASE f.own = FALSE
      <4>1. /\ heap[t] = "dropped" /\ UNCHANGED <<heap, ptr, handle>> /\ temps' = temps + 1
            /\ g.pc = "local"
        BY Zenon, <2>2, <2>3, <2>5, <3>6
      <4>2. ~ptr'[t]
        BY Zenon, <1>0, <4>1 DEF Slot
      <4>3. f.op = "realloc"
        BY Zenon, <1>b, <2>1, <3>6 DEF Outer
      <4>4. Lends(t)'
        BY Zenon, <1>s2, <2>3, <4>1, <4>2, <4>3
      <4> QED
        BY Zenon, <2>4, <3>3, <3>4, <4>1, <4>4 DEF MovesObjects, MovesHandles, SameHandle
    <3> QED
      BY Zenon, <2>2, <3>5, <3>6
  <2> QED
    BY Zenon, <1>s, <2>3, <2>6, <2>7, <2>10, <2>11
<1>4. CASE RegisterHeap(t)
  <2>1. PICK f \in Frames : Sole(t, f) /\ f.pc = "register"
    BY Zenon, <1>4, <1>a DEF RegisterHeap
  <2> DEFINE g == [f EXCEPT !.pc = "local", !.own = FALSE]
  <2>2. g \in Frames /\ g.op = f.op /\ g.arg = f.arg /\ g.pc = "local"
    BY Zenon DEF Frames, ForHeap
  <2>3. stack' = [stack EXCEPT ![t] = <<g>>]
    <3>1. Go(t, g)
      BY Zenon, <1>4, <1>b, <2>1 DEF RegisterHeap
    <3> QED
      BY Zenon, <2>1, <2>2, <3>1 DEF Sole
  <2> HIDE DEF g
  <2>4. UNCHANGED <<heap, chan, ptr, elf_heap, dchan, queue, handle, temps, obj>>
    BY Zenon, <1>4 DEF RegisterHeap, lazies
  <2>5. heap[t] = "initialized"
    BY Zenon, <1>b, <2>1 DEF Outer
  <2>6. Outer(t, g)'
    BY Zenon, <1>b, <2>1, <2>2, <2>4, <2>5 DEF Outer, ForHeap, ForChan
  <2>7. Slot(t)'
    <3>1. stack'[t] # <<>> /\ Last(stack'[t]) = g
      BY Zenon, <1>s, <2>2, <2>3
    <3>2. elf_heap' # t /\ dchan' # t
      BY <1>b, <2>1, <2>4
    <3> QED
      BY Zenon, <1>0, <2>4, <2>5, <3>1, <3>2 DEF Slot
  <2>8. dtors' = [dtors EXCEPT ![t] = @ \cup {"heap"}]
    BY Zenon, <1>4 DEF RegisterHeap
  <2>9. Types' /\ Alone(t)
    BY <1>0, <1>s, <2>2, <2>3, <2>4, <2>8 DEF Alone
  <2>10. Effect
    <3>1. ptr[t] /\ f.pc # "local"
      BY Zenon, <1>b, <2>1, <2>5
    <3> QED
      BY Zenon, <1>q, <2>1, <2>2, <2>3, <2>4, <3>1
  <2> QED
    BY Zenon, <1>s, <2>2, <2>3, <2>6, <2>7, <2>9, <2>10
<1>8. CASE OnceChan(t)
  <2>1. PICK f \in Frames : Sole(t, f) /\ f.pc = "once_chan"
    BY Zenon, <1>8, <1>a DEF OnceChan
  <2>2. PICK pc \in ForHeap \cup ForChan :
            /\ GoTo(t, pc)
            /\ \/ pc = "clone_chan" /\ dchan' = dchan
               \/ pc = "init_chan" /\ dchan' = t
    BY Zenon, <1>8 DEF OnceChan, ForHeap, ForChan
  <2>3. PICK g \in Frames :
            /\ stack' = [stack EXCEPT ![t] = <<g>>]
            /\ g.pc = pc /\ g.op = f.op /\ g.arg = f.arg /\ g.own = f.own
    BY Zenon, <1>g, <2>1, <2>2
  <2>4. UNCHANGED <<heap, chan, ptr, dtors, handle, queue, temps, obj, elf_heap>>
    BY Zenon, <1>8 DEF OnceChan, slots, lazies
  <2>5. Outer(t, g)'
    <3>1. Outer(t, f) /\ (heap[t] = "dropped" => elf_heap = "ready")
      BY Zenon, <1>b, <2>1
    <3> QED
      BY <2>1, <2>2, <2>3, <2>4, <3>1 DEF Outer, ForHeap, ForChan
  <2>6. Slot(t)'
    <3>1. elf_heap' = t => pc = "init_heap"
      BY <1>b, <2>1, <2>2, <2>4
    <3>2. dchan' = t => pc = "init_chan"
      BY <1>b, <2>1, <2>2, <2>4
    <3>3. heap[t] \in {"initialized", "dropped"} => elf_heap' = "ready"
      BY <1>0, <1>b, <2>1, <2>2, <2>4 DEF Slot, Outer
    <3> QED
      BY Zenon, <1>k, <2>3, <2>4, <3>1, <3>2, <3>3
  <2>7. Types' /\ Alone(t)
    BY <1>0, <1>s, <1>b, <2>1, <2>2, <2>3, <2>4 DEF Alone
  <2>8. Effect
    <3>1. pc # "local" /\ f.pc # "local"
      BY <2>1, <2>2
    <3> QED
      BY Zenon, <1>q, <2>1, <2>3, <2>4, <3>1
  <2> QED
    BY Zenon, <1>s, <2>3, <2>5, <2>6, <2>7, <2>8
<1>9. CASE InitChan(t)
  <2>1. PICK f \in Frames : Sole(t, f) /\ f.pc = "init_chan"
    BY Zenon, <1>9, <1>a DEF InitChan
  <2>2. PICK pc \in ForHeap \cup ForChan :
            /\ GoTo(t, pc)
            /\ pc = "clone_chan" /\ dchan' = "ready"
    BY Zenon, <1>9 DEF InitChan, ForHeap, ForChan
  <2>3. PICK g \in Frames :
            /\ stack' = [stack EXCEPT ![t] = <<g>>]
            /\ g.pc = pc /\ g.op = f.op /\ g.arg = f.arg /\ g.own = f.own
    BY Zenon, <1>g, <2>1, <2>2
  <2>4. UNCHANGED <<heap, chan, ptr, dtors, handle, queue, temps, obj, elf_heap>>
    BY Zenon, <1>9 DEF InitChan, slots, lazies
  <2>5. Outer(t, g)'
    <3>1. Outer(t, f) /\ (heap[t] = "dropped" => elf_heap = "ready")
      BY Zenon, <1>b, <2>1
    <3> QED
      BY <2>1, <2>2, <2>3, <2>4, <3>1 DEF Outer, ForHeap, ForChan
  <2>6. Slot(t)'
    <3>1. elf_heap' = t => pc = "init_heap"
      BY <1>b, <2>1, <2>2, <2>4
    <3>2. dchan' = t => pc = "init_chan"
      BY <1>b, <2>1, <2>2, <2>4
    <3>3. heap[t] \in {"initialized", "dropped"} => elf_heap' = "ready"
      BY <1>0, <1>b, <2>1, <2>2, <2>4 DEF Slot, Outer
    <3> QED
      BY Zenon, <1>k, <2>3, <2>4, <3>1, <3>2, <3>3
  <2>7. Types' /\ Alone(t)
    BY <1>0, <1>s, <1>b, <2>1, <2>2, <2>3, <2>4 DEF Alone
  <2>8. Effect
    <3>1. pc # "local" /\ f.pc # "local"
      BY <2>1, <2>2
    <3> QED
      BY Zenon, <1>q, <2>1, <2>3, <2>4, <3>1
  <2> QED
    BY Zenon, <1>s, <2>3, <2>5, <2>6, <2>7, <2>8
<1>10. CASE CloneChan(t)
  <2>1. PICK f \in Frames : Sole(t, f) /\ f.pc = "clone_chan"
    BY Zenon, <1>10, <1>a DEF CloneChan
  <2>2. PICK pc \in ForHeap \cup ForChan :
            /\ GoTo(t, pc)
            /\ pc \in {"register_chan", "send"}
            /\ chan' = chan \/ chan' = [chan EXCEPT ![t] = "initialized"]
    BY Zenon, <1>10 DEF CloneChan, ForHeap, ForChan
  <2>3. PICK g \in Frames :
            /\ stack' = [stack EXCEPT ![t] = <<g>>]
            /\ g.pc = pc /\ g.op = f.op /\ g.arg = f.arg /\ g.own = f.own
    BY Zenon, <1>g, <2>1, <2>2
  <2>4. UNCHANGED <<heap, ptr, dtors, elf_heap, dchan, queue, handle, temps, obj>>
    BY Zenon, <1>10 DEF CloneChan, slots, lazies
  <2>5. Outer(t, g)'
    <3>1. Outer(t, f) /\ (heap[t] = "dropped" => elf_heap = "ready")
      BY Zenon, <1>b, <2>1
    <3> QED
      BY <2>1, <2>2, <2>3, <2>4, <3>1 DEF Outer, ForHeap, ForChan
  <2>6. Slot(t)'
    <3>1. elf_heap' = t => pc = "init_heap"
      BY <1>b, <2>1, <2>2, <2>4
    <3>2. dchan' = t => pc = "init_chan"
      BY <1>b, <2>1, <2>2, <2>4
    <3>3. heap[t] \in {"initialized", "dropped"} => elf_heap' = "ready"
      BY <1>0, <1>b, <2>1, <2>2, <2>4 DEF Slot, Outer
    <3> QED
      BY Zenon, <1>k, <2>3, <2>4, <3>1, <3>2, <3>3
  <2>7. Types' /\ Alone(t)
    BY <1>0, <1>s, <1>b, <2>1, <2>2, <2>3, <2>4 DEF Alone
  <2>8. Effect
    <3>1. pc # "local" /\ f.pc # "local"
      BY <2>1, <2>2
    <3> QED
      BY Zenon, <1>q, <2>1, <2>3, <2>4, <3>1
  <2> QED
    BY Zenon, <1>s, <2>3, <2>5, <2>6, <2>7, <2>8
<1>11. CASE RegisterChan(t)
  <2>1. PICK f \in Frames : Sole(t, f) /\ f.pc = "register_chan"
    BY Zenon, <1>11, <1>a DEF RegisterChan
  <2>2. PICK pc \in ForHeap \cup ForChan :
            /\ GoTo(t, pc)
            /\ pc = "send"
            /\ dtors' = [dtors EXCEPT ![t] = @ \cup {"chan"}]
    BY Zenon, <1>11 DEF RegisterChan, ForHeap, ForChan
  <2>3. PICK g \in Frames :
            /\ stack' = [stack EXCEPT ![t] = <<g>>]
            /\ g.pc = pc /\ g.op = f.op /\ g.arg = f.arg /\ g.own = f.own
    BY Zenon, <1>g, <2>1, <2>2
  <2>4. UNCHANGED <<heap, chan, ptr, elf_heap, dchan, queue, handle, temps, obj>>
    BY Zenon, <1>11 DEF RegisterChan, slots, lazies
  <2>5. Outer(t, g)'
    <3>1. Outer(t, f) /\ (heap[t] = "dropped" => elf_heap = "ready")
      BY Zenon, <1>b, <2>1
    <3> QED
      BY <2>1, <2>2, <2>3, <2>4, <3>1 DEF Outer, ForHeap, ForChan
  <2>6. Slot(t)'
    <3>1. stack'[t] # <<>> /\ Last(stack'[t]) = g
      BY Zenon, <1>s, <2>3
    <3>2. elf_heap' # t /\ dchan' # t
      BY <1>b, <2>1, <2>4
    <3>3. "heap" \in dtors'[t] => "heap" \in dtors[t]
      BY <1>0, <2>2
    <3> QED
      BY Zenon, <1>0, <2>4, <3>1, <3>2, <3>3 DEF Slot
  <2>7. Types' /\ Alone(t)
    BY <1>0, <1>s, <1>b, <2>1, <2>2, <2>3, <2>4 DEF Alone
  <2>8. Effect
    <3>1. pc # "local" /\ f.pc # "local"
      BY <2>1, <2>2
    <3> QED
      BY Zenon, <1>q, <2>1, <2>3, <2>4, <3>1
  <2> QED
    BY Zenon, <1>s, <2>3, <2>5, <2>6, <2>7, <2>8
<1>x. ASSUME NEW n \in Frames, NEW f \in Frames, Pair(t, n, f), Return(t),
             UNCHANGED <<heap, ptr, dtors, handle, elf_heap, dchan>>,
             obj' \in [Objects -> Things]
      PROVE  /\ Shape(t)' /\ Slot(t)' /\ stack' \in [Threads -> Seq(Frames)]
             /\ \A u \in Threads \ {t} : stack'[u] = stack[u]
  <2>1. stack' = [stack EXCEPT ![t] = <<f>>] /\ Last(stack[t]) = f /\ stack[t] # <<>> /\ Outer(t, f)
    BY ZenonT(40), <1>x, Tuples DEF Pair
  <2>2. Outer(t, f)'
    BY Zenon, <1>x, <2>1 DEF Outer
  <2>3. stack'[t] # <<>> /\ Last(stack'[t]) = f
    BY Zenon, <1>s, <2>1
  <2>4. Slot(t)'
    BY Zenon, <1>0, <1>x, <2>1, <2>3 DEF Slot
  <2> QED
    BY Zenon, <1>s, <2>1, <2>2, <2>4
<1>y. ASSUME NEW f \in Frames, Sole(t, f), Return(t), f.pc \notin {"init_heap", "init_chan"},
             heap[t] # "initializing", UNCHANGED <<heap, ptr, dtors, handle, elf_heap, dchan>>
      PROVE  /\ Shape(t)' /\ Slot(t)' /\ stack' \in [Threads -> Seq(Frames)]
             /\ \A u \in Threads \ {t} : stack'[u] = stack[u]
  <2>1. stack' = [stack EXCEPT ![t] = <<>>]
    BY Zenon, <1>y DEF Sole
  <2>2. elf_heap' # t /\ dchan' # t
    BY Zenon, <1>b, <1>y
  <2>3. Slot(t)'
    BY Zenon, <1>0, <1>y, <2>2 DEF Slot
  <2> QED
    BY Zenon, <1>e, <1>y, <2>1, <2>3
<1>o. ASSUME NEW o \in Held(t), NEW r \in Things, obj' = [obj EXCEPT ![o] = r]
      PROVE  /\ obj' \in [Objects -> Things]
             /\ \A u \in Threads \ {t} : \A x \in Held(u) : obj'[x] = obj[x]
  <2>1. \A u \in Threads \ {t} : o \notin Held(u)
    BY Zenon, <1>o DEF Good, InOnePlace
  <2>2. \A u \in Threads : Held(u) \subseteq Objects
    BY Zenon DEF Held
  <2> QED
    BY <1>t, <1>o, <2>1, <2>2
<1>r. NoObject \in Things /\ \A w \in Marks : Slag(w) \in Things /\ Large(w) \in Things
  <2>1. For("none") \in Marks
    BY Zenon DEF For, Marks
  <2> QED
    BY Zenon, <2>1 DEF Things, NoObject, Slag, Large
<1> DEFINE Big(r) == \A u \in Threads, pc \in CallsMalloc \ {"register"} :
                        r.for = <<u, pc>> => r.kind = "large"
<1>w. ASSUME NEW r, NEW who, r.for = For(who)
      PROVE  Big(r)
  <2>1. \A a, b, c, d : <<a, b>> = <<c, d>> => b = d
    BY Zenon
  <2>2. "" \notin CallsMalloc
    BY Zenon DEF CallsMalloc
  <2> QED
    BY Zenon, <1>w, <2>1, <2>2 DEF For
<1>v. ASSUME stack[t] # <<>>
      PROVE  Owner(t) \in Marks
  <2>1. ASSUME NEW f \in Frames, Sole(t, f)
        PROVE  Owner(t) \in Marks
    <3>1. Owner(t) = For("program")
      BY Zenon, <2>1 DEF Sole
    <3>2. For("program") \in Marks
      BY Zenon DEF For, Marks
    <3> QED
      BY <3>1, <3>2
  <2>2. ASSUME NEW n \in Frames, NEW f \in Frames, Pair(t, n, f)
        PROVE  Owner(t) \in Marks
    <3>1. Owner(t) = <<t, f.pc>> /\ f.pc \in CallsMalloc
      BY Zenon, <2>2 DEF Pair, Inner
    <3> QED
      <4>1. ASSUME NEW A, NEW B, NEW a \in A, NEW b \in B
            PROVE  <<a, b>> \in A \X B
        BY Zenon, <4>1
      <4>2. t \in Threads \cup {"none", "program", "call", "background"} /\ f.pc \in CallsMalloc \cup {""}
        BY Zenon, <3>1
      <4>3. <<t, f.pc>> \in Marks
        BY Zenon, <4>1, <4>2 DEF Marks
      <4> QED
        BY Zenon, <3>1, <4>3
  <2> QED
    BY Zenon, <1>0, <1>v, <2>1, <2>2, InACall
\* An inner call that returns leaves the outer one as it was.
<1>l. ASSUME NEW n \in Frames, NEW f \in Frames, Pair(t, n, f), Return(t),
             NEW r \in Things, obj' = [obj EXCEPT ![n.arg] = r], Big(r),
             UNCHANGED <<heap, ptr, queue, handle, temps>>
      PROVE  Effect
  <2>1. stack' = [stack EXCEPT ![t] = <<f>>] /\ Outer(t, f) /\ Inner(n, f)
    BY Zenon, <1>l DEF Pair
  <2>2. n.arg \in Objects /\ n.arg # f.arg /\ (f.op # "array" => f.arg \in Objects)
    BY Zenon, <2>1 DEF Inner, Outer
  <2>3. n.arg \in Held(t) /\ Held(t)' \subseteq Held(t)
    BY ZenonT(40), <1>l, <1>p0, <1>s2, <2>1, <2>2
  <2>4. f.op # "array" => obj'[f.arg].for = Mark(f)
    <3>1. f.op # "array" => obj'[f.arg] = obj[f.arg]
      BY <1>t, <1>l, <2>2
    <3> QED
      BY Zenon, <1>l, <1>p0, <3>1
  <2>5. Marked(t)' /\ (Drops(t)' <=> Drops(t)) /\ (Lends(t)' <=> Lends(t))
    BY Zenon, <1>l, <1>p0, <1>s2, <2>1, <2>4
  <2>6. MovesObjects(t)
    BY Zenon, <1>l, <2>2, <2>3 DEF MovesObjects
  <2> QED
    BY Zenon, <1>l, <2>5, <2>6 DEF MovesHandles, SameHandle
<1>5. CASE Local(t)
  <2>1. PICK r \in Things : obj' = [obj EXCEPT ![Top(t).arg] = r] /\ r.for \in {For("none"), Owner(t)}
    <3>1. \E r : obj' = [obj EXCEPT ![Top(t).arg] = r] /\ r \in {NoObject, Slag(Owner(t)), Large(Owner(t))}
      BY Zenon, <1>5 DEF Local
    <3>2. {NoObject, Slag(Owner(t)), Large(Owner(t))} \subseteq Things
      <4>1. Owner(t) \in Marks
        BY Zenon, <1>v, <1>5 DEF Local, At
      <4> QED
        BY Zenon, <1>r, <4>1
    <3>3. NoObject.for = For("none") /\ \A w : Slag(w).for = w /\ Large(w).for = w
      BY Zenon DEF NoObject, Slag, Large
    <3> QED
      BY Zenon, <3>1, <3>2, <3>3
  <2>2. UNCHANGED <<heap, chan, ptr, dtors, elf_heap, dchan, queue, handle, temps>>
    BY Zenon, <1>5 DEF Local, slots, lazies
  <2>3. ASSUME NEW f \in Frames, Sole(t, f)
        PROVE  Goal
    <3>1. /\ f.pc = "local" /\ f.op \in Calls /\ f.arg \in Held(t)
          /\ heap[t] \in {"initialized", "dropped"}
      <4>1. f.pc = "local"
        BY Zenon, <1>5, <1>b, <2>3 DEF Local, At
      <4>2. f.op \in Calls /\ f.arg \in Objects /\ heap[t] \in {"initialized", "dropped"}
        BY Zenon, <1>b, <2>3, <4>1 DEF Outer, ForHeap, Calls
      <4> QED
        BY <2>3, <4>1, <4>2, Tuples DEF Sole, Held
    <3>2. /\ obj' \in [Objects -> Things]
          /\ \A u \in Threads \ {t} : \A x \in Held(u) : obj'[x] = obj[x]
      BY Zenon, <1>b, <1>o, <2>1, <2>3, <3>1
    <3>5. Big(r) /\ ~Drops(t) /\ f.arg # "temp"
      <4>1. Owner(t) = For("program")
        BY Zenon, <2>3 DEF Sole
      <4>2. Big(r)
        BY Zenon, <1>w, <2>1, <4>1
      <4>3. f.op # "array" /\ f.arg # "temp"
        BY <1>h, <3>1, GlobalHeapAssumption DEF Calls
      <4> QED
        BY Zenon, <1>s0, <2>3, <4>2, <4>3
    <3>3. CASE ptr[t]
      <4>1. Return(t)
        BY Zenon, <1>5, <3>3 DEF Local
      <4>2. /\ Shape(t)' /\ Slot(t)' /\ stack' \in [Threads -> Seq(Frames)]
            /\ \A u \in Threads \ {t} : stack'[u] = stack[u]
        BY <1>b, <1>y, <2>2, <2>3, <3>1, <4>1
      <4>3. Marked(t)' /\ Held(t)' = {} /\ ~Drops(t)' /\ ~Lends(t)'
        BY Zenon, <1>e2, <2>3, <4>1 DEF Sole
      <4>4. ~Lends(t)
        BY Zenon, <1>s0, <2>3, <3>3, <3>5
      <4>5. MovesObjects(t)
        BY Zenon, <1>b, <1>h, <2>1, <2>2, <2>3, <3>1, <3>5, <4>3 DEF MovesObjects
      <4>6. MovesHandles(t)
        BY Zenon, <2>2, <3>5, <4>3, <4>4 DEF MovesHandles, SameHandle
      <4> QED
        BY Zenon, <1>0, <2>2, <3>2, <4>2, <4>3, <4>5, <4>6 DEF Alone
    <3>4. CASE ~ptr[t]
      <4> DEFINE g == Frame("with_chan", "array", "temp", FALSE)
      <4>1. g \in Frames /\ g.pc = "with_chan" /\ g.op = "array" /\ g.arg = "temp"
        BY Zenon DEF Frame, Frames, ForChan, Args
      <4>2. stack' = [stack EXCEPT ![t] = <<g>>]
        BY Zenon, <1>5, <2>3, <3>4, <4>1 DEF Local, Sole
      <4> HIDE DEF g
      <4>3. heap[t] = "dropped" /\ elf_heap # t /\ dchan # t /\ elf_heap = "ready"
        BY <1>b, <2>3, <3>1, <3>4
      <4>4. Outer(t, g)'
        BY <2>2, <4>1, <4>3 DEF Outer, ForHeap, ForChan
      <4>5. Slot(t)'
        BY Zenon, <1>k, <2>2, <4>1, <4>2, <4>3
      <4>6. Marked(t)' /\ Held(t)' = {} /\ ~Drops(t)' /\ Lends(t)'
        <5>1. "temp" \notin Objects /\ t # "temp"
          BY Zenon, GlobalHeapAssumption
        <5> QED
          BY Zenon, <1>s2, <4>1, <4>2, <5>1
      <4>7. Lends(t)
        <5>1. f.op = "realloc"
          BY Zenon, <1>b, <2>3, <3>1, <4>3 DEF Outer
        <5> QED
          BY Zenon, <1>s0, <2>3, <3>1, <3>4, <5>1
      <4>8. MovesObjects(t)
        BY Zenon, <1>b, <1>h, <2>1, <2>2, <2>3, <3>1, <3>5, <4>6 DEF MovesObjects
      <4>9. MovesHandles(t)
        BY Zenon, <2>2, <3>5, <4>6, <4>7 DEF MovesHandles, SameHandle
      <4> QED
        BY Zenon, <1>0, <1>s, <2>2, <3>2, <4>1, <4>2, <4>4, <4>5, <4>6, <4>8, <4>9 DEF Alone
    <3> QED
      BY Zenon, <3>3, <3>4
  <2>4. ASSUME NEW n \in Frames, NEW f \in Frames, Pair(t, n, f)
        PROVE  Goal
    <3>1. n.pc = "local" /\ n.arg \in Held(t) /\ f.pc = "register" /\ Top(t) = n
      <4>1. n.pc = "local" /\ Inner(n, f) /\ Top(t) = n
        BY Zenon, <1>5, <2>4 DEF Local, At, Pair
      <4>2. f.pc = "register" /\ n.arg \in Objects
        BY Zenon, <4>1 DEF Inner
      <4> QED
        BY <2>4, <4>1, <4>2, Tuples DEF Pair, Held
    <3>2. /\ obj' \in [Objects -> Things]
          /\ \A u \in Threads \ {t} : \A x \in Held(u) : obj'[x] = obj[x]
      BY Zenon, <1>o, <2>1, <3>1
    <3>3. ptr[t]
      <4>1. heap[t] = "initialized"
        BY <2>4, <3>1 DEF Pair, Outer
      <4> QED
        BY Zenon, <1>0, <4>1 DEF Slot
    <3>4. Return(t)
      BY Zenon, <1>5, <3>3 DEF Local
    <3>5. /\ Shape(t)' /\ Slot(t)' /\ stack' \in [Threads -> Seq(Frames)]
          /\ \A u \in Threads \ {t} : stack'[u] = stack[u]
      BY Zenon, <1>x, <2>2, <2>4, <3>2, <3>4
    <3>6. Big(r)
      <4>1. Owner(t) = <<t, "register">>
        BY Zenon, <2>4, <3>1 DEF Pair
      <4>2. \A a, b, c, d : <<a, b>> = <<c, d>> => b = d
        BY Zenon
      <4> QED
        BY Zenon, <1>w, <2>1, <4>1, <4>2
    <3>7. Effect
      BY Zenon, <1>l, <2>1, <2>2, <2>4, <3>1, <3>4, <3>6
    <3> QED
      BY Zenon, <1>0, <2>2, <3>2, <3>5, <3>7 DEF Alone
  <2> QED
    BY Zenon, <1>0, <1>5, <2>3, <2>4, InACall DEF Local, At
<1>6. CASE Fallback(t)
  <2>1. UNCHANGED <<heap, chan, ptr, dtors, elf_heap, dchan, queue, handle, temps>>
    BY Zenon, <1>6 DEF Fallback, slots, lazies
  <2>2. Owner(t) \in Marks /\ Large(Owner(t)) \in Things
    BY Zenon, <1>6, <1>r, <1>v DEF Fallback, At
  <2>5. Big(NoObject) /\ Big(Large(Owner(t)))
    <3>1. NoObject.for = For("none") /\ Large(Owner(t)).kind = "large"
      BY Zenon DEF NoObject, Large
    <3> QED
      BY Zenon, <1>w, <3>1
  <2>3. ASSUME NEW f \in Frames, Sole(t, f)
        PROVE  Goal
    <3>1. /\ f.pc = "fallback" /\ f.arg \in Objects /\ f.own = FALSE
          /\ heap[t] = "dropped" /\ elf_heap = "ready" /\ elf_heap # t /\ dchan # t
      <4>1. f.pc = "fallback"
        BY Zenon, <1>6, <1>b, <2>3 DEF Fallback, At
      <4> QED
        BY Zenon, <1>b, <2>3, <4>1 DEF Outer, ForHeap, Calls
    <3>2. f.arg \in Held(t)
      BY <2>3, <3>1, Tuples DEF Sole, Held
    <3>3. Top(t) = f
      BY Zenon, <1>b, <2>3
    <3>7. f.op \in Calls /\ ~Drops(t) /\ ~Lends(t)
      <4>1. f.op \in Calls /\ f.op # "array" /\ f.arg # "temp" /\ f.pc # "local"
        BY Zenon, <1>b, <2>3, <3>1, GlobalHeapAssumption DEF Outer, ForHeap, Calls
      <4> QED
        BY Zenon, <1>s0, <2>3, <4>1
    <3>4. ASSUME NEW r \in Things, obj' = [obj EXCEPT ![f.arg] = r], Return(t), Big(r)
          PROVE  Goal
      <4>1. /\ obj' \in [Objects -> Things]
            /\ \A u \in Threads \ {t} : \A x \in Held(u) : obj'[x] = obj[x]
        BY Zenon, <1>o, <3>2, <3>4
      <4>2. /\ Shape(t)' /\ Slot(t)' /\ stack' \in [Threads -> Seq(Frames)]
            /\ \A u \in Threads \ {t} : stack'[u] = stack[u]
        BY <1>y, <2>1, <2>3, <3>1, <3>4
      <4>3. Marked(t)' /\ Held(t)' = {} /\ ~Drops(t)' /\ ~Lends(t)'
        BY Zenon, <1>e2, <2>3, <3>4 DEF Sole
      <4>4. MovesObjects(t)
        BY Zenon, <2>1, <3>1, <3>2, <3>4, <4>3 DEF MovesObjects
      <4>5. MovesHandles(t)
        BY Zenon, <2>1, <3>7, <4>3 DEF MovesHandles, SameHandle
      <4> QED
        BY Zenon, <1>0, <2>1, <4>1, <4>2, <4>3, <4>4, <4>5 DEF Alone
    <3>5. ASSUME obj' = [obj EXCEPT ![f.arg].for = For("background")],
                 Go(t, Frame("once_chan", "ptr", f.arg, FALSE))
          PROVE  Goal
      <4> DEFINE g == Frame("once_chan", "ptr", f.arg, FALSE)
                 r == [obj[f.arg] EXCEPT !.for = For("background")]
      <4>1. g \in Frames /\ g.pc = "once_chan" /\ g.op = "ptr" /\ g.arg = f.arg
        BY <3>1 DEF Frame, Frames, ForChan, Args
      <4>2. r \in Things /\ obj' = [obj EXCEPT ![f.arg] = r] /\ r.for = For("background")
        <5>1. For("background") \in Marks
          BY Zenon DEF For, Marks
        <5> QED
          BY <1>t, <3>1, <3>5, <5>1 DEF Things
      <4>3. stack' = [stack EXCEPT ![t] = <<g>>]
        BY Zenon, <2>3, <3>5, <4>1 DEF Sole
      <4> HIDE DEF g, r
      <4>4. /\ obj' \in [Objects -> Things]
            /\ \A u \in Threads \ {t} : \A x \in Held(u) : obj'[x] = obj[x]
        BY Zenon, <1>o, <3>2, <4>2
      <4>5. Outer(t, g)'
        BY <2>1, <3>1, <4>1 DEF Outer, ForHeap, ForChan
      <4>6. Slot(t)'
        BY Zenon, <1>k, <2>1, <3>1, <4>1, <4>3
      <4>7. Marked(t)' /\ Held(t)' \subseteq Held(t)
        <5>1. obj'[f.arg].for = For("background")
          BY <1>t, <3>1, <4>2
        <5> QED
          BY Zenon, <1>s0, <1>s2, <2>3, <4>1, <4>3, <5>1 DEF Mark
      <4>8. ~Drops(t)' /\ ~Lends(t)'
        <5>1. f.arg # "temp"
          BY <3>1, GlobalHeapAssumption
        <5> QED
          BY Zenon, <1>s2, <4>1, <4>3, <5>1
      <4>9. MovesObjects(t)
        BY Zenon, <1>w, <2>1, <3>1, <3>2, <4>2, <4>7 DEF MovesObjects
      <4>10. MovesHandles(t)
        BY Zenon, <2>1, <3>7, <4>8 DEF MovesHandles, SameHandle
      <4> QED
        BY Zenon, <1>0, <1>s, <2>1, <4>1, <4>3, <4>4, <4>5, <4>6, <4>7, <4>9, <4>10 DEF Alone
    <3>6. ASSUME f.op = "realloc", GoTo(t, "once_heap"), obj' = obj
          PROVE  Goal
      <4>1. "once_heap" \in ForHeap \cup ForChan
        BY Zenon DEF ForHeap
      <4>2. PICK g \in Frames :
                /\ stack' = [stack EXCEPT ![t] = <<g>>]
                /\ g.pc = "once_heap" /\ g.op = f.op /\ g.arg = f.arg /\ g.own = f.own
        BY Zenon, <1>g, <2>3, <3>6, <4>1
      <4>3. Outer(t, g)'
        BY <2>1, <3>1, <3>6, <4>2 DEF Outer, ForHeap, ForChan, Calls
      <4>4. Slot(t)'
        BY Zenon, <1>k, <2>1, <3>1, <4>2
      <4>5. Effect
        BY Zenon, <1>q, <2>1, <2>3, <3>1, <3>6, <4>2
      <4> QED
        BY Zenon, <1>0, <1>s, <2>1, <3>6, <4>2, <4>3, <4>4, <4>5 DEF Alone
    <3>8. Big(NoObject) /\ Big(Large(Owner(t)))
      BY Zenon, <2>5
    <3> QED
      BY Zenon, <1>6, <1>r, <2>2, <3>3, <3>4, <3>5, <3>6, <3>8 DEF Fallback
  <2>4. ASSUME NEW n \in Frames, NEW f \in Frames, Pair(t, n, f)
        PROVE  Goal
    <3>1. /\ Top(t) = n /\ n.arg \in Held(t)
          /\ n.op = "alloc" \/ (n.op = "free" /\ obj[n.arg].kind = "large")
      <4>1. n.pc = "fallback" /\ Inner(n, f) /\ Top(t) = n
        BY Zenon, <1>6, <2>4 DEF Fallback, At, Pair
      <4>2. n.arg \in Objects /\ (n.op = "alloc" \/ (n.op = "free" /\ obj[n.arg].kind = "large"))
        BY Zenon, <4>1 DEF Inner
      <4> QED
        BY <2>4, <4>1, <4>2, Tuples DEF Pair, Held
    <3>2. PICK r \in Things : obj' = [obj EXCEPT ![n.arg] = r] /\ Return(t) /\ Big(r)
      <4>1. n.op # "realloc" /\ ~(n.op = "free" /\ obj[n.arg].kind = "slag")
        BY Zenon, <3>1
      <4> QED
        BY Zenon, <1>6, <1>r, <2>2, <2>5, <3>1, <4>1 DEF Fallback
    <3>3. /\ obj' \in [Objects -> Things]
          /\ \A u \in Threads \ {t} : \A x \in Held(u) : obj'[x] = obj[x]
      BY Zenon, <1>o, <3>1, <3>2
    <3>4. /\ Shape(t)' /\ Slot(t)' /\ stack' \in [Threads -> Seq(Frames)]
          /\ \A u \in Threads \ {t} : stack'[u] = stack[u]
      BY Zenon, <1>x, <2>1, <2>4, <3>2, <3>3
    <3>5. Effect
      BY Zenon, <1>l, <2>1, <2>4, <3>2
    <3> QED
      BY Zenon, <1>0, <2>1, <3>3, <3>4, <3>5 DEF Alone
  <2> QED
    BY Zenon, <1>0, <1>6, <2>3, <2>4, InACall DEF Fallback, At
<1>7. CASE WithChan(t)
  <2>1. PICK f \in Frames : Sole(t, f) /\ f.pc = "with_chan"
    BY Zenon, <1>7, <1>a DEF WithChan
  <2> DEFINE own == [f EXCEPT !.pc = "once_chan", !.own = TRUE]
             Moved(pc) == [f EXCEPT !.pc = pc]
  <2>2. /\ own \in Frames /\ own.pc = "once_chan" /\ own.op = f.op /\ own.arg = f.arg
        /\ \A pc \in {"send", "once_chan"} :
            Moved(pc) \in Frames /\ Moved(pc).pc = pc /\ Moved(pc).op = f.op /\ Moved(pc).arg = f.arg
    BY Zenon DEF Frames, ForChan
  <2>3. /\ Go(t, own) \/ \E pc \in {"send", "once_chan"} : Go(t, Moved(pc))
        /\ chan' = chan \/ chan' = [chan EXCEPT ![t] = "initializing"]
    BY Zenon, <1>7, <1>b, <2>1 DEF WithChan, GoTo
  <2> HIDE DEF own, Moved
  <2>4. PICK g \in Frames :
            /\ stack' = [stack EXCEPT ![t] = <<g>>]
            /\ g.pc \in {"send", "once_chan"} /\ g.op = f.op /\ g.arg = f.arg
    BY Zenon, <2>1, <2>2, <2>3 DEF Sole
  <2>5. UNCHANGED <<heap, ptr, dtors, elf_heap, dchan, queue, handle, temps, obj>>
    BY Zenon, <1>7 DEF WithChan, lazies
  <2>6. Outer(t, f) /\ elf_heap = "ready" /\ elf_heap # t /\ dchan # t
    BY Zenon, <1>b, <2>1 DEF Outer, ForChan
  <2>7. Outer(t, g)'
    BY <2>1, <2>4, <2>5, <2>6 DEF Outer, ForHeap, ForChan
  <2>8. Slot(t)'
    BY Zenon, <1>k, <2>4, <2>5, <2>6
  <2>9. chan' \in [Threads -> {"uninitialized", "initializing", "initialized", "dropped"}]
    BY Zenon, <1>0, <2>3
  <2>10. Effect
    <3>1. f.pc # "local" /\ g.pc # "local"
      BY <2>1, <2>4
    <3> QED
      BY Zenon, <1>q, <2>1, <2>4, <2>5, <3>1
  <2> QED
    BY Zenon, <1>0, <1>s, <2>4, <2>5, <2>7, <2>8, <2>9, <2>10 DEF Alone
<1>12. CASE Send(t)
  <2>1. PICK f \in Frames : Sole(t, f) /\ f.pc = "send"
    BY Zenon, <1>12, <1>a DEF Send
  <2>2. UNCHANGED <<heap, chan, ptr, dtors, elf_heap, dchan, handle, temps, obj>>
    BY Zenon, <1>12 DEF Send, slots, lazies
  <2>3. queue' = Append(queue, [husk |-> f.op, what |-> f.arg]) /\ Return(t)
    BY Zenon, <1>12, <1>b, <2>1 DEF Send
  <2>4. Outer(t, f) /\ heap[t] = "dropped"
    BY Zenon, <1>b, <2>1 DEF Outer, ForChan
  <2>8. \/ f.op = "array" /\ f.arg \in {t, "temp"}
        \/ f.op = "ptr" /\ f.arg \in Objects
    BY <2>1, <2>4 DEF Outer, ForHeap, ForChan
  <2>5. [husk |-> f.op, what |-> f.arg] \in Husks
    BY Zenon, <2>8 DEF Husks
  <2>6. queue' \in Seq(Husks)
    BY <1>0, <2>3, <2>5
  <2>7. /\ Shape(t)' /\ Slot(t)' /\ stack' \in [Threads -> Seq(Frames)]
        /\ \A u \in Threads \ {t} : stack'[u] = stack[u]
    BY Zenon, <1>y, <2>1, <2>2, <2>3, <2>4
  <2> DEFINE h == [husk |-> f.op, what |-> f.arg]
  <2>9. h \in Husks /\ h.husk = f.op /\ h.what = f.arg /\ queue' = Append(queue, h)
    BY <2>3, <2>5
  <2> HIDE DEF h
  <2>10. t \notin Objects \cup {"temp"} /\ "temp" \notin Objects
    BY GlobalHeapAssumption
  <2>11. Marked(t)' /\ Held(t)' = {} /\ ~Drops(t)' /\ ~Lends(t)'
    BY Zenon, <1>e2, <2>1, <2>3 DEF Sole
  <2>12. MovesObjects(t)
    <3>1. f.arg \in Objects => f.arg \in Held(t) /\ obj[f.arg].for = For("background")
      BY Zenon, <1>s0, <2>1, <2>8, <2>10 DEF Mark
    <3> QED
      BY Zenon, <2>2, <2>9, <2>11, <3>1 DEF MovesObjects
  <2>13. MovesHandles(t)
    <3>1. SameHandle(t) /\ temps' = temps
      BY Zenon, <2>2 DEF SameHandle
    <3>2. \/ h.what = t /\ h.husk = "array" /\ Drops(t) /\ ~Lends(t)
          \/ h.what = "temp" /\ ~Drops(t) /\ Lends(t)
          \/ h.what \in Objects /\ h.husk = "ptr" /\ ~Drops(t) /\ ~Lends(t)
      <4>1. f.pc # "local"
        BY <2>1
      <4>2. CASE f.op = "array"
        BY Zenon, <1>s0, <2>1, <2>8, <2>9, <2>10, <4>1, <4>2
      <4>3. CASE f.op = "ptr"
        BY Zenon, <1>s0, <2>1, <2>8, <2>9, <2>10, <4>1, <4>3
      <4> QED
        BY Zenon, <2>8, <4>2, <4>3
    <3> QED
      BY Zenon, <2>9, <2>11, <3>1, <3>2 DEF MovesHandles
  <2> QED
    BY Zenon, <1>0, <2>2, <2>6, <2>7, <2>11, <2>12, <2>13 DEF Alone
<1>z. ASSUME stack[t] = <<>>
      PROVE  /\ \A g \in Frames : Push(t, g) => stack' = [stack EXCEPT ![t] = <<g>>]
             /\ heap[t] # "initializing" /\ elf_heap # t /\ dchan # t
             /\ Held(t) = {} /\ ~Drops(t) /\ ~Lends(t)
  <2>1. \A g \in Frames : <<g>> \o stack[t] = <<g>>
    BY Zenon, <1>z, Tuples
  <2>2. heap[t] # "initializing"
    BY Zenon, <1>0, <1>z, Tuples DEF Shape
  <2>3. elf_heap # t /\ dchan # t
    BY Zenon, <1>0, <1>z DEF Slot
  <2>4. DOMAIN stack[t] = {}
    BY <1>z
  <2>5. Held(t) = {} /\ ~Drops(t) /\ ~Lends(t)
    BY Zenon, <1>z, <2>4 DEF Held, Drops, Lends
  <2> QED
    BY Zenon, <2>1, <2>2, <2>3, <2>5 DEF Push
<1>i. ASSUME stack[t] = <<>>, UNCHANGED <<heap, ptr, queue, handle, temps, obj, stack>>
      PROVE  Effect
  <2>1. Marked(t)'
    BY Zenon, <1>i DEF Good, Owners, Marked
  <2>2. Held(t)' = Held(t)
    BY Zenon, <1>i DEF Held
  <2>3. (Drops(t)' <=> Drops(t)) /\ (Lends(t)' <=> Lends(t))
    BY Zenon, <1>i DEF Drops, Lends
  <2> QED
    BY Zenon, <1>i, <2>1, <2>2, <2>3 DEF MovesObjects, MovesHandles, SameHandle
<1>13. CASE RunDtor(t)
  <2>1. /\ UNCHANGED <<elf_heap, dchan, queue, handle, temps, obj>> /\ stack[t] = <<>>
    BY Zenon, <1>13 DEF RunDtor, lazies
  <2>2. PICK s \in dtors[t] :
            /\ dtors' = [dtors EXCEPT ![t] = @ \ {s}]
            /\ IF s = "heap"
               THEN /\ DropHeapSlot(t)
                    /\ Push(t, Frame("with_chan", "array", t, FALSE))
                    /\ UNCHANGED chan
               ELSE chan' = [chan EXCEPT ![t] = "dropped"] /\ UNCHANGED <<heap, ptr, stack>>
    BY Zenon, <1>13 DEF RunDtor
  <2>3. dtors' \in [Threads -> SUBSET {"heap", "chan"}] /\ \A u \in Threads \ {t} : dtors'[u] = dtors[u]
    BY <1>0, <2>2
  <2>4. CASE s = "heap"
    <3> DEFINE g == Frame("with_chan", "array", t, FALSE)
    <3>1. g \in Frames /\ g.pc = "with_chan" /\ g.op = "array" /\ g.arg = t
      BY Zenon DEF Frame, Frames, ForChan, Args
    <3>2. stack' = [stack EXCEPT ![t] = <<g>>]
      BY Zenon, <1>z, <2>1, <2>2, <2>4, <3>1
    <3>3. heap' = [heap EXCEPT ![t] = "dropped"] /\ ptr' = [ptr EXCEPT ![t] = FALSE] /\ chan' = chan
      BY Zenon, <2>2, <2>4 DEF DropHeapSlot
    <3> HIDE DEF g
    <3>4. elf_heap = "ready"
      BY Zenon, <1>0, <2>2, <2>4 DEF Slot
    <3>5. /\ heap' \in [Threads -> {"uninitialized", "initializing", "initialized", "dropped"}]
          /\ heap'[t] = "dropped" /\ \A u \in Threads \ {t} : heap'[u] = heap[u]
      BY <1>t, <3>3
    <3>6. ptr' \in [Threads -> BOOLEAN] /\ ~ptr'[t] /\ \A u \in Threads \ {t} : ptr'[u] = ptr[u]
      BY Zenon, <1>0, <3>3
    <3>7. "heap" \notin dtors'[t]
      BY <1>0, <2>2, <2>4
    <3>8. Outer(t, g)'
      BY <3>1, <3>5 DEF Outer, ForHeap, ForChan
    <3>9. Slot(t)'
      <4>1. stack'[t] # <<>> /\ Last(stack'[t]) = g
        BY Zenon, <1>s, <3>1, <3>2
      <4> QED
        BY Zenon, <1>z, <2>1, <3>4, <3>5, <3>6, <3>7, <4>1 DEF Slot
    <3>10. Marked(t)' /\ Held(t)' = Held(t) /\ Drops(t)' /\ ~Lends(t)'
      <4>1. t \notin Objects \cup {"temp"} /\ g.pc # "local"
        BY <3>1, GlobalHeapAssumption
      <4> QED
        BY Zenon, <1>s2, <1>z, <2>1, <3>1, <3>2, <4>1
    <3>11. heap[t] = "initialized" /\ heap'[t] # "initialized"
      <4>1. heap[t] = "initialized"
        BY Zenon, <1>0, <2>2, <2>4 DEF Slot
      <4> QED
        BY <3>5, <4>1
    <3>12. Effect
      BY Zenon, <1>z, <2>1, <3>10, <3>11 DEF MovesObjects, MovesHandles
    <3> QED
      BY ZenonT(40), <1>0, <1>s, <2>1, <2>3, <3>1, <3>2, <3>3, <3>5, <3>6, <3>8, <3>9, <3>12 DEF Alone
  <2>5. CASE s # "heap"
    <3>1. chan' = [chan EXCEPT ![t] = "dropped"] /\ UNCHANGED <<heap, ptr, stack>>
      BY Zenon, <2>2, <2>5
    <3>2. chan' \in [Threads -> {"uninitialized", "initializing", "initialized", "dropped"}]
      BY <1>0, <3>1
    <3>3. "heap" \in dtors'[t] => "heap" \in dtors[t]
      BY <1>0, <2>2
    <3>4. Slot(t)'
      BY Zenon, <1>0, <2>1, <3>1, <3>3 DEF Slot
    <3>5. Shape(t)'
      BY Zenon, <1>z, <2>1, <3>1 DEF Shape
    <3>6. Effect
      BY Zenon, <1>i, <2>1, <3>1
    <3> QED
      BY Zenon, <1>0, <2>1, <2>3, <3>1, <3>2, <3>4, <3>5, <3>6 DEF Alone
  <2> QED
    BY Zenon, <2>4, <2>5
<1>15. CASE Exit(t) \/ Gone(t)
  <2>1. UNCHANGED <<heap, chan, ptr, dtors, elf_heap, dchan, queue, handle, temps, obj, stack>>
    BY Zenon, <1>15 DEF Exit, Gone, slots, lazies
  <2>2. stack[t] = <<>>
    BY Zenon, <1>15 DEF Exit, Gone
  <2>3. Shape(t)'
    BY Zenon, <1>z, <2>1, <2>2 DEF Shape
  <2>4. Slot(t)'
    BY Zenon, <1>0, <2>1 DEF Slot
  <2>5. Effect
    BY Zenon, <1>i, <2>1, <2>2
  <2> QED
    BY Zenon, <1>0, <2>1, <2>3, <2>4, <2>5 DEF Alone
<1>14. CASE Call(t)
  <2>1. PICK o \in Objects, op \in Calls :
            /\ IF op = "alloc" THEN obj[o] = NoObject
                               ELSE obj[o].for = Caller(t) /\ obj[o].kind # "none"
            /\ op = "realloc" => stack[t] = <<>>
            /\ obj' = [obj EXCEPT ![o].for = For("call")]
            /\ Enter(t, op, o)
    BY Zenon, <1>14 DEF Call, Objects, Calls
  <2>2. UNCHANGED <<chan, ptr, dtors, elf_heap, dchan, queue, handle, temps>>
    BY Zenon, <1>14 DEF Call, lazies
  <2>3. stack[t] # <<>> => Top(t).pc \in CallsMalloc
    BY Zenon, <1>14 DEF Call, MayCall
  <2>4. obj[o].for \notin {For("call"), For("background")}
    <3>0. \A a, b, c, d : <<a, b>> = <<c, d>> => a = c /\ b = d
      BY Zenon
    <3>1. CASE op = "alloc"
      <4>1. obj[o].for = For("none")
        BY <2>1, <3>1 DEF NoObject
      <4> QED
        BY Zenon, <3>0, <4>1 DEF For
    <3>2. CASE op # "alloc" /\ stack[t] = <<>>
      BY Zenon, <2>1, <3>0, <3>2 DEF Caller, For
    <3>3. CASE op # "alloc" /\ stack[t] # <<>>
      <4>1. obj[o].for = <<t, Top(t).pc>> /\ Top(t).pc \in CallsMalloc
        BY Zenon, <2>1, <2>3, <3>3 DEF Caller
      <4>2. Top(t).pc # ""
        BY <4>1 DEF CallsMalloc
      <4> QED
        BY Zenon, <3>0, <4>1, <4>2 DEF For
    <3> QED
      BY Zenon, <3>1, <3>2, <3>3
  <2> DEFINE r == [obj[o] EXCEPT !.for = For("call")]
  <2>5. /\ r \in Things /\ r.kind = obj[o].kind /\ obj' = [obj EXCEPT ![o] = r]
        /\ r.for = For("call")
    <3>1. For("call") \in Marks
      BY Zenon DEF For, Marks
    <3> QED
      BY <1>t, <2>1, <3>1 DEF Things
  <2> HIDE DEF r
  <2>6. /\ obj' \in [Objects -> Things] /\ obj'[o].kind = obj[o].kind /\ obj'[o].for = For("call")
        /\ \A u \in Threads \ {t} : \A x \in Held(u) : obj'[x] = obj[x]
    <3>1. \A u \in Threads : \A x \in Held(u) : x \in Objects /\ x # o
      BY Zenon, <1>h, <2>4
    <3> QED
      BY <1>t, <2>5, <3>1
  <2> DEFINE g(pc, own) == Frame(pc, op, o, own)
  <2>7. ASSUME NEW pc \in {"local", "once_heap", "fallback"}, NEW own \in BOOLEAN
        PROVE  /\ g(pc, own) \in Frames /\ g(pc, own).pc = pc /\ g(pc, own).own = own
               /\ g(pc, own).op = op /\ g(pc, own).arg = o
    BY Zenon DEF Frame, Frames, ForHeap, Args
  <2>8. IF ptr[t] THEN Push(t, g("local", FALSE)) /\ UNCHANGED heap
        ELSE IF heap[t] = "uninitialized"
        THEN Push(t, g("once_heap", TRUE)) /\ heap' = [heap EXCEPT ![t] = "initializing"]
        ELSE Push(t, g("fallback", FALSE)) /\ UNCHANGED heap
    BY Zenon, <2>1 DEF Enter
  <2> HIDE DEF g
  <2>11. ASSUME Held(t)' \subseteq Held(t) \cup {o}
         PROVE  MovesObjects(t)
    BY Zenon, <1>w, <2>2, <2>4, <2>5, <2>11 DEF MovesObjects
  <2>12. op \notin {"ptr", "array"} /\ o # "temp"
    BY GlobalHeapAssumption DEF Calls
  <2>13. ASSUME NEW pc \in {"local", "once_heap", "fallback"}, NEW own \in BOOLEAN,
                stack[t] = <<>>, stack' = [stack EXCEPT ![t] = <<g(pc, own)>>],
                pc = "local" => ptr[t], heap'[t] = "initialized" <=> heap[t] = "initialized"
         PROVE  Effect
    <3>1. /\ g(pc, own) \in Frames /\ g(pc, own).pc = pc
          /\ g(pc, own).op = op /\ g(pc, own).arg = o
      BY <2>7
    <3>2. Marked(t)' /\ Held(t)' \subseteq {o}
      BY Zenon, <1>s2, <2>6, <2>12, <2>13, <3>1 DEF Mark
    <3>3. ~Drops(t)' /\ ~Lends(t)'
      BY Zenon, <1>s2, <2>2, <2>12, <2>13, <3>1
    <3>4. MovesObjects(t)
      BY Zenon, <2>11, <3>2
    <3>5. MovesHandles(t)
      BY Zenon, <1>z, <2>2, <2>13, <3>3 DEF MovesHandles, SameHandle
    <3> QED
      BY Zenon, <3>2, <3>4, <3>5
  <2>9. CASE stack[t] = <<>>
    <3>1. CASE heap[t] # "uninitialized"
      <4>1. PICK pc \in {"local", "fallback"} :
                /\ Push(t, g(pc, FALSE)) /\ UNCHANGED heap
                /\ heap[t] = IF pc = "local" THEN "initialized" ELSE "dropped"
        <5>1. ptr[t] <=> heap[t] = "initialized"
          BY Zenon, <1>0 DEF Slot
        <5>2. heap[t] \in {"initialized", "dropped"}
          BY <1>t, <1>z, <2>9, <3>1
        <5> QED
          BY Zenon, <2>8, <3>1, <5>1, <5>2
      <4>2. g(pc, FALSE) \in Frames /\ stack' = [stack EXCEPT ![t] = <<g(pc, FALSE)>>]
        BY Zenon, <1>z, <2>7, <2>9, <4>1
      <4>3. Outer(t, g(pc, FALSE))'
        BY Zenon, <2>7, <4>1 DEF Outer, ForHeap, ForChan, Calls
      <4>4. Slot(t)'
        BY Zenon, <1>0, <1>k, <1>z, <2>2, <2>9, <4>1, <4>2 DEF Slot
      <4>5. Effect
        <5>1. pc = "local" => ptr[t]
          BY Zenon, <1>0, <4>1 DEF Slot
        <5> QED
          BY Zenon, <2>9, <2>13, <4>1, <4>2, <5>1
      <4> QED
        BY Zenon, <1>0, <1>s, <2>2, <2>6, <4>1, <4>2, <4>3, <4>4, <4>5 DEF Alone
    <3>2. CASE heap[t] = "uninitialized"
      <4> DEFINE h == g("once_heap", TRUE)
      <4>1. ~ptr[t]
        BY Zenon, <1>0, <3>2 DEF Slot
      <4>2. Push(t, h) /\ heap' = [heap EXCEPT ![t] = "initializing"]
        BY Zenon, <2>8, <3>2, <4>1
      <4>3. h \in Frames /\ h.pc = "once_heap" /\ h.own = TRUE /\ h.op = op /\ h.arg = o
        BY Zenon, <2>7
      <4> HIDE DEF h
      <4>4. stack' = [stack EXCEPT ![t] = <<h>>]
        BY Zenon, <1>z, <2>9, <4>2, <4>3
      <4>5. /\ heap' \in [Threads -> {"uninitialized", "initializing", "initialized", "dropped"}]
            /\ heap'[t] = "initializing" /\ \A u \in Threads \ {t} : heap'[u] = heap[u]
        BY <1>t, <4>2
      <4>6. Outer(t, h)'
        BY <4>3, <4>5 DEF Outer, ForHeap, ForChan, Calls
      <4>7. Slot(t)'
        BY Zenon, <1>0, <1>z, <2>2, <2>9, <3>2, <4>1, <4>5 DEF Slot
      <4>8. Effect
        BY Zenon, <2>9, <2>13, <3>2, <4>4, <4>5 DEF h
      <4> QED
        BY Zenon, <1>0, <1>s, <2>2, <2>6, <4>3, <4>4, <4>5, <4>6, <4>7, <4>8 DEF Alone
    <3> QED
      BY Zenon, <3>1, <3>2
  <2>10. CASE stack[t] # <<>>
    <3>1. PICK f \in Frames : Sole(t, f) /\ f.pc \in CallsMalloc
      <4>1. ASSUME NEW n \in Frames, NEW f \in Frames, Pair(t, n, f)
            PROVE  FALSE
        <5>1. n.pc \in {"local", "fallback"} /\ n.pc \in CallsMalloc
          BY Zenon, <2>3, <2>10, <4>1 DEF Pair, Inner
        <5> QED
          BY <5>1 DEF CallsMalloc
      <4> QED
        BY Zenon, <1>0, <1>b, <2>3, <2>10, <4>1, InACall
    <3>2. /\ Outer(t, f) /\ heap[t] # "uninitialized"
          /\ IF f.pc = "register" THEN heap[t] = "initialized" ELSE heap[t] # "initialized"
      BY Zenon, <1>b, <3>1 DEF CallsMalloc, Outer, ForChan
    <3>3. PICK pc \in {"local", "fallback"} :
              /\ Push(t, g(pc, FALSE)) /\ UNCHANGED heap
              /\ pc = IF f.pc = "register" THEN "local" ELSE "fallback"
      <4>1. ptr[t] <=> heap[t] = "initialized"
        BY Zenon, <1>0 DEF Slot
      <4> QED
        BY Zenon, <2>8, <3>2, <4>1
    <3> DEFINE n == g(pc, FALSE)
    <3>4. n \in Frames /\ n.pc = pc /\ n.op = op /\ n.arg = o
      BY Zenon, <2>7
    <3> HIDE DEF n
    <3>5. stack' = [stack EXCEPT ![t] = <<n, f>>]
      BY Zenon, <3>1, <3>3, <3>4 DEF Sole, n
    <3>9. o # f.arg
      <4>1. f.arg \in Objects => f.arg \in Held(t)
        BY Zenon, <1>s0, <3>1
      <4> QED
        BY Zenon, <1>h, <2>4, <4>1
    <3>6. Inner(n, f)'
      <4>2. op \in {"alloc", "free"}
        BY <2>1, <2>10 DEF Calls
      <4>3. pc = "fallback" /\ op = "free" => obj[o].kind = "large"
        <5>1. op = "free" => obj[o].for = <<t, f.pc>>
          BY Zenon, <1>b, <2>1, <2>10, <3>1 DEF Caller
        <5>2. pc = "fallback" => f.pc # "register"
          BY <3>3
        <5> QED
          BY Zenon, <3>1, <5>1, <5>2 DEF Good, Owners
      <4> QED
        BY Zenon, <2>6, <3>1, <3>3, <3>4, <3>9, <4>2, <4>3 DEF Inner
    <3>7. Outer(t, f)'
      BY Zenon, <2>2, <3>2, <3>3 DEF Outer
    <3>8. Slot(t)'
      <4>1. stack'[t] # <<>> /\ Last(stack'[t]) = f
        BY Zenon, <1>p, <3>4, <3>5
      <4>2. Last(stack[t]) = f
        BY Zenon, <3>1 DEF Sole
      <4> QED
        BY Zenon, <1>0, <2>2, <3>3, <4>1, <4>2 DEF Slot
    <3>10. Held(t)' \subseteq Held(t) \cup {o}
      <4>1. Held(t)' = {o, f.arg} \cap Objects
        BY Zenon, <1>p2, <3>4, <3>5
      <4>2. Held(t) = {f.arg} \cap Objects
        BY Zenon, <1>s0, <3>1
      <4> QED
        BY <4>1, <4>2
    <3>11. Marked(t)'
      <4>1. f.op # "array" => obj'[f.arg] = obj[f.arg]
        <5>1. f.op # "array" => f.arg \in Objects
          BY Zenon, <3>2 DEF Outer
        <5> QED
          BY <1>t, <2>5, <3>9, <5>1
      <4>2. obj'[n.arg].for = Mark(n)
        BY Zenon, <2>6, <2>12, <3>4 DEF Mark
      <4> QED
        BY Zenon, <1>p2, <1>s0, <3>1, <3>4, <3>5, <4>1, <4>2
    <3>12. MovesHandles(t)
      <4>1. (Drops(t)' <=> Drops(t)) /\ (Lends(t)' <=> Lends(t))
        BY Zenon, <1>p2, <1>s0, <2>2, <3>1, <3>4, <3>5
      <4> QED
        BY Zenon, <2>2, <3>3, <4>1 DEF MovesHandles, SameHandle
    <3> QED
      BY Zenon, <1>0, <1>p, <2>2, <2>6, <2>11, <3>3, <3>4, <3>5, <3>6, <3>7, <3>8, <3>10, <3>11, <3>12 DEF Alone
  <2> QED
    BY Zenon, <2>9, <2>10
<1> QED
  BY Zenon, <1>1, <1>2, <1>3, <1>4, <1>5, <1>6, <1>7, <1>8, <1>9, <1>10, <1>11, <1>12, <1>13, <1>14, <1>15 DEF Step

(* What one thread does to the objects it is at (alloc, free, and the      *)
(* sends of free without a handle) keeps the invariant of all threads: no  *)
(* other thread and no message has one of them.                            *)
LEMMA ObjectsStep ==
    ASSUME Good, NEW t \in Threads, Shape(t)', Slot(t)', Types', Alone(t), Marked(t)', MovesObjects(t)
    PROVE  Good'
<1> USE DEF Types
<1>0. Types
  BY Zenon DEF Good
<1>1. ASSUME NEW u \in Threads
      PROVE  Shape(u) /\ Slot(u) /\ Marked(u)
  BY Zenon DEF Good, Owners
<1>2. ASSUME NEW u \in Threads, u # t
      PROVE  Shape(u)' /\ Slot(u)' /\ Marked(u)' /\ Held(u)' = Held(u)
  <2>1. /\ stack'[u] = stack[u] /\ heap'[u] = heap[u] /\ ptr'[u] = ptr[u]
        /\ dtors'[u] = dtors[u] /\ handle'[u] = handle[u]
    BY Zenon, <1>2 DEF Alone
  <2>o. \A o \in Held(u) : obj'[o] = obj[o]
    BY Zenon, <1>2 DEF Alone
  <2>2. u \notin {"none", "ready"}
    BY Zenon, GlobalHeapAssumption
  <2>3. elf_heap \in {u, "ready"} => elf_heap' = elf_heap
    BY <1>2, <2>2, GlobalHeapAssumption DEF Alone
  <2>4. ASSUME NEW f \in Frames, Outer(u, f)
        PROVE  Outer(u, f)'
    BY Zenon, <2>1, <2>3, <2>4 DEF Outer
  <2>5. ASSUME NEW i \in DOMAIN stack[u], stack[u][i].arg \in Objects
        PROVE  obj'[stack[u][i].arg] = obj[stack[u][i].arg]
    BY Zenon, <2>o, <2>5 DEF Held
  <2>6. ASSUME NEW n \in Frames, NEW f \in Frames, stack[u] = <<n, f>>, Inner(n, f)
        PROVE  Inner(n, f)'
    <3>1. 1 \in DOMAIN stack[u] /\ stack[u][1] = n
      BY <2>6, Tuples
    <3>2. obj'[n.arg] = obj[n.arg]
      BY Zenon, <2>5, <2>6, <3>1 DEF Inner
    <3> QED
      BY Zenon, <2>6, <3>2 DEF Inner
  <2>7. Shape(u)'
    BY Zenon, <1>1, <2>1, <2>4, <2>6 DEF Shape
  <2>8. Slot(u)'
    <3>1. elf_heap' = u => elf_heap = u
      BY Zenon, <1>2, <2>2 DEF Alone
    <3>2. dchan' = u => dchan = u
      BY Zenon, <1>2, <2>2 DEF Alone
    <3>3. elf_heap = "ready" => elf_heap' = "ready"
      BY Zenon, <2>3
    <3>4. Slot(u)
      BY Zenon, <1>1
    <3> QED
      BY Zenon, <2>1, <3>1, <3>2, <3>3, <3>4 DEF Slot
  <2>9. Held(u)' = Held(u)
    BY Zenon, <2>1 DEF Held
  <2>10. Marked(u)'
    <3>1. ASSUME NEW i \in DOMAIN stack[u], stack[u][i].op # "array"
          PROVE  stack[u][i].arg \in Objects
      BY Zenon, <1>1, <3>1, InACall
    <3>2. Marked(u)
      BY Zenon, <1>1
    <3>3. ASSUME NEW i \in DOMAIN stack[u], stack[u][i].op # "array"
          PROVE  obj'[stack[u][i].arg].for = Mark(stack[u][i])
      <4>1. obj'[stack[u][i].arg] = obj[stack[u][i].arg]
        BY Zenon, <2>5, <3>1, <3>3
      <4> QED
        BY Zenon, <3>2, <3>3, <4>1 DEF Marked
    <3>4. \A i \in DOMAIN stack'[u] :
            stack'[u][i].op # "array" => obj'[stack'[u][i].arg].for = Mark(stack'[u][i])
      BY Zenon, <2>1, <3>3
    <3> QED
      BY Zenon, <3>4 DEF Marked, Mark
  <2> QED
    BY Zenon, <2>7, <2>8, <2>9, <2>10
<1>3. ASSUME NEW u \in Threads
      PROVE  \A o \in Held(u) : o \in Objects /\ obj[o].for \in {For("call"), For("background")}
  BY Zenon, <1>1, InACall
<1>4. CASE UNCHANGED <<obj, queue>> /\ Held(t)' = Held(t)
  <2>1. \A u \in Threads : Held(u)' = Held(u)
    BY Zenon, <1>2, <1>4
  <2>2. Sent' = Sent
    BY Zenon, <1>4 DEF Sent
  <2>3. InOnePlace'
    BY Zenon, <1>4, <2>1, <2>2 DEF Good, InOnePlace
  <2>4. Owners'
    BY Zenon, <1>2, <1>4, <2>2 DEF Good, Owners
  <2> QED
    BY Zenon, <1>2, <2>3, <2>4 DEF Good
<1>5. CASE /\ queue' = queue
           /\ \E o \in Objects, r \in Things :
                /\ obj' = [obj EXCEPT ![o] = r]
                /\ o \in Held(t) \/ obj[o].for \notin {For("call"), For("background")}
                /\ Held(t)' \subseteq Held(t) \cup {o}
                /\ \A u \in Threads, pc \in CallsMalloc \ {"register"} :
                    r.for = <<u, pc>> => r.kind = "large"
  <2>1. PICK o \in Objects, r \in Things :
            /\ obj' = [obj EXCEPT ![o] = r]
            /\ o \in Held(t) \/ obj[o].for \notin {For("call"), For("background")}
            /\ Held(t)' \subseteq Held(t) \cup {o}
            /\ \A u \in Threads, pc \in CallsMalloc \ {"register"} :
                r.for = <<u, pc>> => r.kind = "large"
    BY Zenon, <1>5
  <2>2. Sent' = Sent
    BY Zenon, <1>5 DEF Sent
  <2>3. \A u \in Threads : u # t => o \notin Held(u)
    BY Zenon, <1>3, <2>1 DEF Good, InOnePlace
  <2>4. o \notin Sent
    BY Zenon, <2>1 DEF Good, InOnePlace, Owners
  <2>5. InOnePlace'
    <3>1. \A u \in Threads : u # t => Held(u)' = Held(u)
      BY Zenon, <1>2
    <3>2. \A u \in Threads : u # t => Held(u) \cap Held(t)' = {}
      <4>1. \A u \in Threads : u # t => Held(u) \cap Held(t) = {}
        BY Zenon DEF Good, InOnePlace
      <4> QED
        BY ZenonT(30), <2>1, <2>3, <4>1
    <3>3. ASSUME NEW u \in Threads, NEW v \in Threads, u # v
          PROVE  Held(u)' \cap Held(v)' = {}
      BY Zenon, <3>1, <3>2, <3>3 DEF Good, InOnePlace
    <3>4. ASSUME NEW u \in Threads
          PROVE  Held(u)' \cap Sent' = {}
      BY ZenonT(40), <2>1, <2>2, <2>4, <3>1 DEF Good, InOnePlace
    <3> QED
      BY Zenon, <1>5, <3>3, <3>4 DEF Good, InOnePlace
  <2>6. \A x \in Objects : obj'[x] = IF x = o THEN r ELSE obj[x]
    BY Zenon, <1>0, <2>1
  <2>7. \A x \in Sent' : obj'[x].for = For("background")
    BY Zenon, <2>2, <2>4, <2>6 DEF Good, Owners, Sent
  <2>8. \A x \in Objects, u \in Threads, pc \in CallsMalloc \ {"register"} :
            obj'[x].for = <<u, pc>> => obj'[x].kind = "large"
    BY ZenonT(40), <2>1, <2>6 DEF Good, Owners
  <2>9. Owners'
    BY Zenon, <1>2, <2>7, <2>8 DEF Owners
  <2> QED
    BY Zenon, <1>2, <2>5, <2>9 DEF Good
<1>6. CASE /\ obj' = obj /\ Held(t)' = {}
           /\ \E h \in Husks :
                /\ queue' = Append(queue, h)
                /\ h.what \in Objects => h.what \in Held(t) /\ obj[h.what].for = For("background")
  <2>1. PICK h \in Husks :
            /\ queue' = Append(queue, h)
            /\ h.what \in Objects => h.what \in Held(t) /\ obj[h.what].for = For("background")
    BY Zenon, <1>6
  <2> DEFINE l == Len(queue) + 1
  <2>2. /\ DOMAIN queue' = DOMAIN queue \cup {l} /\ l \notin DOMAIN queue /\ queue'[l] = h
        /\ \A i \in DOMAIN queue : queue'[i] = queue[i]
    BY <1>0, <2>1
  <2> HIDE DEF l
  <2>3. Sent' = Sent \cup ({h.what} \cap Objects)
    BY ZenonT(40), <2>2 DEF Sent
  <2>4. h.what \in Objects => h.what \notin Sent
    BY Zenon, <2>1 DEF Good, InOnePlace
  <2>5. InOnePlace'
    <3>1. \A u \in Threads : u # t => Held(u)' = Held(u)
      BY Zenon, <1>2
    <3>2. ASSUME NEW u \in Threads, NEW v \in Threads, u # v
          PROVE  Held(u)' \cap Held(v)' = {}
      BY Zenon, <1>6, <3>1, <3>2 DEF Good, InOnePlace
    <3>3. ASSUME NEW u \in Threads
          PROVE  Held(u)' \cap Sent' = {}
      <4>1. CASE u = t
        BY Zenon, <1>6, <4>1
      <4>2. CASE u # t
        <5>1. Held(u)' = Held(u) /\ Held(u) \cap Sent = {} /\ Held(u) \cap Held(t) = {}
          BY Zenon, <3>1, <4>2 DEF Good, InOnePlace
        <5> QED
          BY Zenon, <2>1, <2>3, <5>1
      <4> QED
        BY Zenon, <4>1, <4>2
    <3>4. ASSUME NEW i \in DOMAIN queue', NEW j \in DOMAIN queue',
                 queue'[i].what = queue'[j].what, queue'[i].what \in Objects
          PROVE  i = j
      <4>1. ASSUME NEW k \in DOMAIN queue, queue[k].what \in Objects
            PROVE  queue[k].what \in Sent
        BY Zenon, <4>1 DEF Sent
      <4> QED
        BY Zenon, <2>2, <2>4, <3>4, <4>1 DEF Good, InOnePlace
    <3> QED
      BY Zenon, <3>2, <3>3, <3>4 DEF InOnePlace
  <2>6. Owners'
    BY Zenon, <1>2, <1>6, <2>1, <2>3 DEF Good, Owners
  <2> QED
    BY Zenon, <1>2, <2>5, <2>6 DEF Good
<1> QED
  BY Zenon, <1>4, <1>5, <1>6 DEF MovesObjects

(* What one thread does to its handle (new_handle, the drop of the slot,   *)
(* with_local_or_clone and GlobalAllocator::drop) keeps every handle in    *)
(* one place, and the count of the handles made for one call.              *)
LEMMA HandlesStep ==
    ASSUME IInv, NEW t \in Threads, Alone(t), MovesHandles(t)
    PROVE  (\A u \in Threads : Home(u)') /\ Lent'
<1>0. queue \in Seq(Husks) /\ temps \in Int /\ Lent /\ \A u \in Threads : Home(u)
  BY Zenon DEF IInv, Good, Types
<1>t. handle \in [Threads -> {"none", "live", "dropped"}]
  BY Zenon DEF IInv, Good, Types
<1>a. "temp" \notin Objects /\ \A u \in Threads : u \notin Objects \cup {"temp"}
  BY Zenon, GlobalHeapAssumption
<1>1. ASSUME NEW u \in Threads, u # t
      PROVE  /\ Drops(u)' <=> Drops(u)
             /\ Lends(u)' <=> Lends(u)
             /\ heap'[u] = heap[u] /\ handle'[u] = handle[u]
  <2>1. stack'[u] = stack[u] /\ heap'[u] = heap[u] /\ ptr'[u] = ptr[u] /\ handle'[u] = handle[u]
    BY Zenon, <1>1 DEF Alone
  <2> QED
    BY Zenon, <2>1 DEF Drops, Lends
<1>2. /\ IsFiniteSet(LentQueued) /\ Cardinality(LentQueued) \in Nat
      /\ IsFiniteSet(Lenders) /\ Cardinality(Lenders) \in Nat
  <2>1. IsFiniteSet(DOMAIN queue)
    <3>1. DOMAIN queue = 1 .. Len(queue) /\ Len(queue) \in Int
      BY <1>0
    <3> QED
      BY <3>1, FS_Interval
  <2>2. LentQueued \in SUBSET DOMAIN queue /\ Lenders \in SUBSET Threads
    BY Zenon DEF LentQueued, Lenders
  <2> QED
    BY Zenon, <2>1, <2>2, FS_Subset, FS_CardinalityType, GlobalHeapAssumption
<1>3. ASSUME queue' = queue
      PROVE  LentQueued' = LentQueued /\ \A u \in Threads : Queued(u)' = Queued(u)
  BY Zenon, <1>3 DEF LentQueued, Queued
<1>4. ASSUME NEW h \in Husks, queue' = Append(queue, h)
      PROVE  /\ IF h.what = "temp" THEN Cardinality(LentQueued') = Cardinality(LentQueued) + 1
                                   ELSE LentQueued' = LentQueued
             /\ \A u \in Threads :
                IF h.husk = "array" /\ h.what = u THEN Queued(u)' = Queued(u) \cup {Len(queue) + 1}
                                                  ELSE Queued(u)' = Queued(u)
  <2> DEFINE l == Len(queue) + 1
  <2>1. /\ DOMAIN queue' = DOMAIN queue \cup {l} /\ l \notin DOMAIN queue /\ queue'[l] = h
        /\ \A i \in DOMAIN queue : queue'[i] = queue[i]
    BY <1>0, <1>4
  <2> HIDE DEF l
  <2>2. ASSUME NEW u \in Threads
        PROVE  IF h.husk = "array" /\ h.what = u THEN Queued(u)' = Queued(u) \cup {l}
                                                 ELSE Queued(u)' = Queued(u)
    BY Zenon, <2>1 DEF Queued
  <2>3. h.what # "temp" => LentQueued' = LentQueued
    BY Zenon, <2>1 DEF LentQueued
  <2>4. h.what = "temp" => LentQueued' = LentQueued \cup {l}
    BY Zenon, <2>1 DEF LentQueued
  <2>5. l \notin LentQueued
    BY Zenon, <2>1 DEF LentQueued
  <2>6. Cardinality(LentQueued \cup {l}) = Cardinality(LentQueued) + 1
    BY Zenon, <1>2, <2>5, FS_AddElement
  <2> QED
    BY Zenon, <2>2, <2>3, <2>4, <2>6 DEF l
<1>5. /\ (Lends(t)' <=> Lends(t)) => Lenders' = Lenders
      /\ Lends(t)' /\ ~Lends(t) => Cardinality(Lenders') = Cardinality(Lenders) + 1
      /\ ~Lends(t)' /\ Lends(t) => Cardinality(Lenders') = Cardinality(Lenders) - 1
  <2>1. (Lends(t)' <=> Lends(t)) => Lenders' = Lenders
    BY Zenon, <1>1 DEF Lenders
  <2>2. Lends(t)' /\ ~Lends(t) => Lenders' = Lenders \cup {t} /\ t \notin Lenders
    BY Zenon, <1>1 DEF Lenders
  <2>3. ~Lends(t)' /\ Lends(t) => Lenders' = Lenders \ {t} /\ t \in Lenders
    BY Zenon, <1>1 DEF Lenders
  <2>4. t \notin Lenders => Cardinality(Lenders \cup {t}) = Cardinality(Lenders) + 1
    BY Zenon, <1>2, FS_AddElement
  <2>5. t \in Lenders => Cardinality(Lenders \ {t}) = Cardinality(Lenders) - 1
    BY Zenon, <1>2, FS_RemoveElement
  <2> QED
    BY Zenon, <2>1, <2>2, <2>3, <2>4, <2>5
<1>6. ASSUME NEW u \in Threads, Queued(u)' = Queued(u), handle'[u] = handle[u],
             heap'[u] = "initialized" <=> heap[u] = "initialized", Drops(u)' <=> Drops(u)
      PROVE  Home(u)'
  BY ZenonT(40), <1>0, <1>6 DEF Home
<1>7. CASE /\ UNCHANGED <<queue, temps>> /\ SameHandle(t)
           /\ (Drops(t)' <=> Drops(t)) /\ (Lends(t)' <=> Lends(t))
  <2>1. \A u \in Threads : Home(u)'
    BY Zenon, <1>1, <1>3, <1>6, <1>7 DEF SameHandle
  <2> QED
    BY Zenon, <1>0, <1>3, <1>5, <1>7, <2>1 DEF Lent
<1>8. CASE /\ UNCHANGED <<queue, temps>>
           /\ handle[t] = "none" /\ handle' = [handle EXCEPT ![t] = "live"]
           /\ heap[t] # "initialized" /\ heap'[t] = "initialized"
           /\ ~Drops(t)' /\ ~Drops(t) /\ ~Lends(t)' /\ ~Lends(t)
  <2>1. handle'[t] = "live" /\ handle[t] # "live"
    BY Zenon, <1>t, <1>8
  <2>2. Home(t)'
    BY ZenonT(40), <1>0, <1>3, <1>8, <2>1 DEF Home
  <2>3. \A u \in Threads : Home(u)'
    BY Zenon, <1>1, <1>3, <1>6, <1>8, <2>2
  <2> QED
    BY Zenon, <1>0, <1>3, <1>5, <1>8, <2>3 DEF Lent
<1>9. CASE /\ UNCHANGED <<queue, temps, handle>>
           /\ heap[t] = "initialized" /\ heap'[t] # "initialized"
           /\ Drops(t)' /\ ~Drops(t) /\ ~Lends(t)' /\ ~Lends(t)
  <2>1. Home(t)'
    BY Zenon, <1>0, <1>3, <1>9 DEF Home
  <2>2. \A u \in Threads : Home(u)'
    BY Zenon, <1>1, <1>3, <1>6, <1>9, <2>1
  <2> QED
    BY Zenon, <1>0, <1>3, <1>5, <1>9, <2>2 DEF Lent
<1>10. CASE /\ UNCHANGED queue /\ temps' = temps + 1 /\ SameHandle(t)
            /\ ~Drops(t)' /\ ~Drops(t) /\ Lends(t)' /\ ~Lends(t)
  <2>1. \A u \in Threads : Home(u)'
    BY Zenon, <1>1, <1>3, <1>6, <1>10 DEF SameHandle
  <2>2. LentQueued' = LentQueued /\ Cardinality(Lenders') = Cardinality(Lenders) + 1
    BY Zenon, <1>3, <1>5, <1>10
  <2>3. Lent'
    BY <1>0, <1>2, <1>10, <2>2 DEF Lent
  <2> QED
    BY Zenon, <2>1, <2>3
<1>11. CASE /\ UNCHANGED temps /\ SameHandle(t) /\ ~Drops(t)' /\ ~Lends(t)'
            /\ \E h \in Husks :
                /\ queue' = Append(queue, h)
                /\ \/ h.what = t /\ h.husk = "array" /\ Drops(t) /\ ~Lends(t)
                   \/ h.what = "temp" /\ ~Drops(t) /\ Lends(t)
                   \/ h.what \in Objects /\ h.husk = "ptr" /\ ~Drops(t) /\ ~Lends(t)
  <2>1. PICK h \in Husks :
            /\ queue' = Append(queue, h)
            /\ \/ h.what = t /\ h.husk = "array" /\ Drops(t) /\ ~Lends(t)
               \/ h.what = "temp" /\ ~Drops(t) /\ Lends(t)
               \/ h.what \in Objects /\ h.husk = "ptr" /\ ~Drops(t) /\ ~Lends(t)
    BY Zenon, <1>11
  <2>2. \A u \in Threads : u # t => Queued(u)' = Queued(u)
    BY Zenon, <1>4, <1>a, <2>1
  <2>3. Home(t)'
    <3>1. CASE Drops(t)
      <4>1. h.what = t /\ h.husk = "array"
        BY Zenon, <2>1, <3>1
      <4>2. Queued(t)' = Queued(t) \cup {Len(queue) + 1}
        BY Zenon, <1>4, <2>1, <4>1
      <4>3. Queued(t) = {} /\ handle[t] = "live" /\ heap[t] # "initialized"
        BY Zenon, <1>0, <3>1 DEF Home
      <4> QED
        BY Zenon, <1>11, <4>2, <4>3 DEF Home, SameHandle
    <3>2. CASE ~Drops(t)
      <4>1. Queued(t)' = Queued(t)
        BY Zenon, <1>4, <1>a, <2>1, <3>2
      <4> QED
        BY Zenon, <1>6, <1>11, <3>2, <4>1 DEF SameHandle
    <3> QED
      BY Zenon, <3>1, <3>2
  <2>4. \A u \in Threads : Home(u)'
    BY Zenon, <1>1, <1>6, <2>2, <2>3
  <2>5. Lent'
    <3>1. CASE h.what = "temp"
      <4>1. /\ Cardinality(LentQueued') = Cardinality(LentQueued) + 1
            /\ Cardinality(Lenders') = Cardinality(Lenders) - 1
        BY Zenon, <1>4, <1>5, <1>11, <1>a, <2>1, <3>1
      <4> QED
        BY <1>0, <1>2, <1>11, <4>1 DEF Lent
    <3>2. CASE h.what # "temp"
      <4>1. LentQueued' = LentQueued /\ Lenders' = Lenders
        BY Zenon, <1>4, <1>5, <1>11, <2>1, <3>2
      <4> QED
        BY Zenon, <1>0, <1>11, <4>1 DEF Lent
    <3> QED
      BY Zenon, <3>1, <3>2
  <2> QED
    BY Zenon, <2>4, <2>5
<1> QED
  BY Zenon, <1>7, <1>8, <1>9, <1>10, <1>11 DEF MovesHandles

(* The inductive invariant holds in every state of the global instance,    *)
(* for any number of threads, objects, nested calls and handles for one    *)
(* call.                                                                   *)
THEOREM Invariance == Spec => []IInv
<1>1. ASSUME Init
      PROVE  IInv
  <2>1. \A t \in Threads : stack[t] = <<>> /\ DOMAIN stack[t] = {} /\ heap[t] = "uninitialized"
    BY <1>1 DEF Init
  <2>2. DOMAIN queue = {}
    BY <1>1 DEF Init
  <2>3. Types
    <3>1. For("none") \in Marks
      BY Zenon DEF For, Marks
    <3>2. NoObject \in Things
      BY Zenon, <3>1 DEF NoObject, Things
    <3>3. <<>> \in Seq(Frames) /\ <<>> \in Seq(Husks)
      OBVIOUS
    <3>4. ptr \in [Threads -> BOOLEAN]
      BY Zenon, <1>1 DEF Init
    <3> QED
      BY <1>1, <3>2, <3>3, <3>4 DEF Init, Types
  <2>4. ASSUME NEW t \in Threads
        PROVE  Shape(t) /\ Slot(t) /\ Marked(t) /\ Held(t) = {}
    <3>1. t \notin {"none", "ready"}
      BY Zenon, GlobalHeapAssumption
    <3>2. elf_heap = "none" /\ dchan = "none" /\ ~ptr[t] /\ dtors[t] = {} /\ handle[t] = "none"
      BY Zenon, <1>1 DEF Init
    <3>3. heap[t] \notin {"initializing", "initialized", "dropped"}
      BY Zenon, <2>1
    <3>4. Slot(t)
      BY Zenon, <3>1, <3>2, <3>3 DEF Slot
    <3>5. Shape(t)
      BY Zenon, <2>1, <3>3 DEF Shape
    <3> QED
      BY Zenon, <2>1, <3>4, <3>5 DEF Marked, Held
  <2>5. Sent = {} /\ LentQueued = {} /\ Lenders = {} /\ \A t \in Threads : Queued(t) = {} /\ ~Drops(t)
    BY Zenon, <2>1, <2>2 DEF Sent, LentQueued, Lenders, Lends, Queued, Drops
  <2>6. InOnePlace
    BY Zenon, <2>2, <2>4, <2>5 DEF InOnePlace
  <2>7. Owners
    <3>1. ASSUME NEW o \in Objects, NEW t \in Threads, NEW pc \in CallsMalloc
          PROVE  obj[o].for # <<t, pc>>
      <4>1. obj[o].for = <<"none", "">>
        BY Zenon, <1>1 DEF Init, NoObject, For
      <4>2. pc # ""
        BY Zenon DEF CallsMalloc
      <4>3. \A a, b, c, d : <<a, b>> = <<c, d>> => b = d
        BY Zenon
      <4> QED
        BY Zenon, <4>1, <4>2, <4>3
    <3> QED
      BY Zenon, <2>4, <2>5, <3>1 DEF Owners
  <2>8. \A t \in Threads : Home(t)
    <3>1. \A t \in Threads : heap[t] # "initialized" /\ handle[t] # "live"
      BY <1>1 DEF Init
    <3> QED
      BY Zenon, <2>5, <3>1 DEF Home
  <2>9. Lent
    BY <1>1, <2>5, FS_EmptySet DEF Init, Lent
  <2> QED
    BY Zenon, <2>3, <2>4, <2>6, <2>7, <2>8, <2>9 DEF IInv, Good
<1>2. ASSUME IInv, NEW t \in Threads, Call(t) \/ Step(t) \/ Exit(t) \/ Gone(t)
      PROVE  IInv'
  <2>1. Good
    BY Zenon, <1>2 DEF IInv
  <2>2. /\ Types' /\ Shape(t)' /\ Slot(t)' /\ Alone(t)
        /\ Marked(t)' /\ MovesObjects(t) /\ MovesHandles(t)
    BY Zenon, <1>2, <2>1, ThreadStep
  <2>3. Good'
    BY Zenon, <2>1, <2>2, ObjectsStep
  <2>4. (\A u \in Threads : Home(u)') /\ Lent'
    BY Zenon, <1>2, <2>2, HandlesStep
  <2> QED
    BY Zenon, <2>3, <2>4 DEF IInv
\* The background thread: what the threads' calls are at is not its business.
<1>b. ASSUME IInv, UNCHANGED <<heap, ptr, dtors, elf_heap, dchan, stack>>,
             NEW u \in Threads, \A o \in Held(u) : obj'[o] = obj[o],
             heap[u] \in {"uninitialized", "initializing"} => handle'[u] = handle[u]
      PROVE  /\ Shape(u)' /\ Slot(u)' /\ Marked(u)' /\ Held(u)' = Held(u)
             /\ (Drops(u)' <=> Drops(u)) /\ (Lends(u)' <=> Lends(u))
  <2>1. Shape(u) /\ Slot(u) /\ Marked(u)
    BY Zenon, <1>b DEF IInv, Good, Owners
  <2>2. ASSUME NEW f \in Frames, Outer(u, f)
        PROVE  Outer(u, f)'
    BY Zenon, <1>b, <2>2 DEF Outer
  <2>3. ASSUME NEW i \in DOMAIN stack[u], stack[u][i].arg \in Objects
        PROVE  obj'[stack[u][i].arg] = obj[stack[u][i].arg]
    BY Zenon, <1>b, <2>3 DEF Held
  <2>4. ASSUME NEW n \in Frames, NEW f \in Frames, stack[u] = <<n, f>>, Inner(n, f)
        PROVE  Inner(n, f)'
    <3>1. 1 \in DOMAIN stack[u] /\ stack[u][1] = n
      BY <2>4, Tuples
    <3>2. obj'[n.arg] = obj[n.arg]
      BY Zenon, <2>3, <2>4, <3>1 DEF Inner
    <3> QED
      BY Zenon, <2>4, <3>2 DEF Inner
  <2>5. Shape(u)'
    BY Zenon, <1>b, <2>1, <2>2, <2>4 DEF Shape
  <2>6. Slot(u)'
    BY Zenon, <1>b, <2>1 DEF Slot
  <2>7. ASSUME NEW i \in DOMAIN stack[u], stack[u][i].op # "array"
        PROVE  obj'[stack[u][i].arg].for = Mark(stack[u][i])
    <3>1. stack[u][i].arg \in Objects
      BY Zenon, <2>1, <2>7, InACall
    <3>2. obj'[stack[u][i].arg] = obj[stack[u][i].arg]
      BY Zenon, <2>3, <2>7, <3>1
    <3> QED
      BY Zenon, <2>1, <2>7, <3>2 DEF Marked
  <2>8. Marked(u)'
    BY Zenon, <1>b, <2>7 DEF Marked, Mark
  <2>9. Held(u)' = Held(u) /\ (Drops(u)' <=> Drops(u)) /\ (Lends(u)' <=> Lends(u))
    BY Zenon, <1>b DEF Held, Drops, Lends
  <2> QED
    BY Zenon, <2>5, <2>6, <2>8, <2>9
<1>3. ASSUME IInv, UNCHANGED <<heap, chan, ptr, dtors, elf_heap, dchan, queue, handle, temps, obj, stack>>
      PROVE  IInv'
  <2>1. \A u \in Threads : /\ Shape(u)' /\ Slot(u)' /\ Marked(u)' /\ Held(u)' = Held(u)
                           /\ (Drops(u)' <=> Drops(u)) /\ (Lends(u)' <=> Lends(u))
    BY Zenon, <1>3, <1>b
  <2>2. /\ Sent' = Sent /\ LentQueued' = LentQueued /\ Lenders' = Lenders
        /\ \A u \in Threads : Queued(u)' = Queued(u)
    BY Zenon, <1>3, <2>1 DEF Sent, LentQueued, Lenders, Queued
  <2>3. Types'
    BY Zenon, <1>3 DEF IInv, Good, Types
  <2>4. InOnePlace'
    BY Zenon, <1>3, <2>1, <2>2 DEF IInv, Good, InOnePlace
  <2>5. Owners'
    BY Zenon, <1>3, <2>1, <2>2 DEF IInv, Good, Owners
  <2>6. \A u \in Threads : Home(u)'
    BY ZenonT(40), <1>3, <2>1, <2>2 DEF IInv, Home
  <2>7. Lent'
    BY Zenon, <1>3, <2>2 DEF IInv, Lent
  <2> QED
    BY Zenon, <2>1, <2>3, <2>4, <2>5, <2>6, <2>7 DEF IInv, Good
<1>4. ASSUME IInv, BgReceive
      PROVE  IInv'
  <2> DEFINE m == Head(queue)
  <2>1. /\ UNCHANGED <<heap, chan, ptr, dtors, elf_heap, dchan, stack>>
        /\ queue # <<>> /\ queue' = Tail(queue)
        /\ \/ /\ m.husk = "array" /\ m.what = "temp"
              /\ temps' = temps - 1 /\ UNCHANGED <<handle, obj>>
           \/ /\ m.husk = "array" /\ m.what # "temp"
              /\ handle' = [handle EXCEPT ![m.what] = "dropped"] /\ UNCHANGED <<temps, obj>>
           \/ /\ m.husk = "ptr"
              /\ obj' = [obj EXCEPT ![m.what] = NoObject] /\ UNCHANGED <<temps, handle>>
    BY Zenon, <1>4 DEF BgReceive, slots, lazies
  <2>2. /\ Types /\ InOnePlace /\ Owners /\ Lent
        /\ \A u \in Threads : Shape(u) /\ Slot(u) /\ Home(u)
    BY Zenon, <1>4 DEF IInv, Good
  <2>3. /\ m \in Husks /\ 1 \in DOMAIN queue /\ queue[1] = m
        /\ queue' \in Seq(Husks)
        /\ \A i \in DOMAIN queue' : i + 1 \in DOMAIN queue /\ i + 1 # 1 /\ queue'[i] = queue[i + 1]
        /\ \A i \in DOMAIN queue : i # 1 => i - 1 \in DOMAIN queue' /\ queue'[i - 1] = queue[i]
    BY <2>1, <2>2 DEF Types
  <2>4. /\ m.husk = "array" => m.what \in Threads \cup {"temp"}
        /\ m.husk = "ptr" => m.what \in Objects
        /\ m.husk \in {"array", "ptr"}
    BY Zenon, <2>3 DEF Husks
  <2> HIDE DEF m
  <2>5. ASSUME NEW u \in Threads
        PROVE  /\ \A i \in Queued(u)' : i + 1 \in Queued(u) /\ i + 1 # 1
               /\ \A i \in Queued(u) : i # 1 => i - 1 \in Queued(u)'
               /\ 1 \in Queued(u) <=> m.husk = "array" /\ m.what = u
    BY Zenon, <2>3 DEF Queued
  <2>6. ASSUME NEW u \in Threads
        PROVE  IF m.husk = "array" /\ m.what = u
               THEN /\ Queued(u)' = {} /\ handle'[u] = "dropped"
                    /\ handle[u] = "live" /\ heap[u] # "initialized" /\ ~Drops(u)
               ELSE /\ (Queued(u)' = {} <=> Queued(u) = {}) /\ handle'[u] = handle[u]
                    /\ \A i, j \in Queued(u)' : i = j
    <3>1. Home(u)
      BY Zenon, <2>2
    <3>2. CASE m.husk = "array" /\ m.what = u
      <4>1. 1 \in Queued(u)
        BY Zenon, <2>5, <3>2
      <4>2. handle[u] = "live" /\ heap[u] # "initialized" /\ ~Drops(u) /\ Queued(u)' = {}
        BY Zenon, <2>5, <3>1, <4>1 DEF Home
      <4>3. u # "temp" /\ handle \in [Threads -> {"none", "live", "dropped"}]
        BY Zenon, <2>2, GlobalHeapAssumption DEF Types
      <4>4. handle' = [handle EXCEPT ![u] = "dropped"]
        BY <2>1, <3>2, <4>3
      <4>5. handle'[u] = "dropped"
        BY <4>3, <4>4
      <4> QED
        BY Zenon, <3>2, <4>2, <4>5
    <3>3. CASE ~(m.husk = "array" /\ m.what = u)
      <4>1. 1 \notin Queued(u)
        BY Zenon, <2>5, <3>3
      <4>2. Queued(u)' = {} <=> Queued(u) = {}
        BY Zenon, <2>5, <4>1
      <4>3. \A i, j \in Queued(u)' : i = j
        <5>1. \A i \in Queued(u)' : i \in Int
          BY <2>3 DEF Queued
        <5>2. \A i, j \in Queued(u)' : i + 1 = j + 1
          BY Zenon, <2>5, <3>1 DEF Home
        <5> QED
          BY <5>1, <5>2
      <4>4. handle'[u] = handle[u]
        <5>1. handle \in [Threads -> {"none", "live", "dropped"}]
          BY Zenon, <2>2 DEF Types
        <5> QED
          BY <2>1, <3>3, <5>1
      <4> QED
        BY Zenon, <3>3, <4>2, <4>3, <4>4
    <3> QED
      BY Zenon, <3>2, <3>3
  <2>7. ASSUME NEW o \in Objects
        PROVE  obj'[o] = obj[o] \/ (o = m.what /\ o \in Sent /\ obj'[o] = NoObject)
    <3>1. obj \in [Objects -> Things]
      BY Zenon, <2>2 DEF Types
    <3>2. obj' = obj \/ (m.husk = "ptr" /\ obj' = [obj EXCEPT ![m.what] = NoObject])
      BY Zenon, <2>1 DEF m
    <3>3. m.husk = "ptr" => m.what \in Sent
      BY Zenon, <2>3, <2>4 DEF Sent
    <3> QED
      BY <3>1, <3>2, <3>3
  <2>8. ASSUME NEW u \in Threads
        PROVE  /\ Shape(u)' /\ Slot(u)' /\ Marked(u)' /\ Held(u)' = Held(u)
               /\ (Drops(u)' <=> Drops(u)) /\ (Lends(u)' <=> Lends(u))
    <3>1. \A o \in Held(u) : obj'[o] = obj[o]
      <4>1. \A o \in Held(u) : o \in Objects /\ o \notin Sent
        BY Zenon, <2>2 DEF InOnePlace, Held
      <4> QED
        BY Zenon, <2>7, <4>1
    <3>2. heap[u] \in {"uninitialized", "initializing"} => handle'[u] = handle[u]
      <4>1. heap[u] \in {"uninitialized", "initializing"} => handle[u] # "live"
        BY Zenon, <2>2 DEF Slot
      <4> QED
        BY Zenon, <2>6, <4>1
    <3> QED
      BY Zenon, <1>4, <1>b, <2>1, <3>1, <3>2
  <2>9. Types'
    <3>1. For("none") \in Marks
      BY Zenon DEF For, Marks
    <3>2. NoObject \in Things
      BY Zenon, <3>1 DEF NoObject, Things
    <3>3. obj' \in [Objects -> Things]
      <4>1. obj \in [Objects -> Things]
        BY Zenon, <2>2 DEF Types
      <4>2. obj' = obj \/ obj' = [obj EXCEPT ![m.what] = NoObject]
        BY Zenon, <2>1 DEF m
      <4> QED
        BY <3>2, <4>1, <4>2
    <3>4. handle' \in [Threads -> {"none", "live", "dropped"}]
      <4>1. handle \in [Threads -> {"none", "live", "dropped"}]
        BY Zenon, <2>2 DEF Types
      <4>2. handle' = handle \/ handle' = [handle EXCEPT ![m.what] = "dropped"]
        BY Zenon, <2>1 DEF m
      <4> QED
        BY <4>1, <4>2
    <3>5. temps' \in Int
      <4>1. temps \in Int /\ (temps' = temps \/ temps' = temps - 1)
        BY Zenon, <2>1, <2>2 DEF Types
      <4> QED
        BY <4>1
    <3> QED
      BY Zenon, <2>1, <2>2, <2>3, <3>3, <3>4, <3>5 DEF Types
  <2>10. Sent' \subseteq Sent /\ m.what \notin Sent'
    <3>1. ASSUME NEW o \in Sent'
          PROVE  o \in Sent /\ o # m.what
      <4>1. PICK i \in DOMAIN queue' : queue'[i].what = o /\ o \in Objects
        BY Zenon DEF Sent
      <4>2. i + 1 \in DOMAIN queue /\ i + 1 # 1 /\ queue[i + 1].what = o
        BY Zenon, <2>3, <4>1
      <4>3. o \in Sent
        BY Zenon, <4>1, <4>2 DEF Sent
      <4>4. o # m.what
        BY Zenon, <2>2, <2>3, <4>1, <4>2 DEF InOnePlace
      <4> QED
        BY Zenon, <4>3, <4>4
    <3> QED
      BY Zenon, <3>1
  <2>11. InOnePlace'
    <3>1. ASSUME NEW i \in DOMAIN queue', NEW j \in DOMAIN queue',
                 queue'[i].what = queue'[j].what, queue'[i].what \in Objects
          PROVE  i = j
      <4>1. i + 1 = j + 1
        BY ZenonT(40), <2>2, <2>3, <3>1 DEF InOnePlace
      <4>2. i \in Int /\ j \in Int
        BY <2>3
      <4> QED
        BY <4>1, <4>2
    <3>2. \A u \in Threads : Held(u)' \cap Sent' = {}
      BY Zenon, <2>2, <2>8, <2>10 DEF InOnePlace
    <3>3. \A u, v \in Threads : u # v => Held(u)' \cap Held(v)' = {}
      BY Zenon, <2>2, <2>8 DEF InOnePlace
    <3> QED
      BY Zenon, <3>1, <3>2, <3>3 DEF InOnePlace
  <2>12. Owners'
    <3>1. ASSUME NEW o \in Sent'
          PROVE  obj'[o].for = For("background")
      <4>1. o \in Objects /\ o \in Sent /\ o # m.what
        BY Zenon, <2>10 DEF Sent
      <4> QED
        BY Zenon, <2>2, <2>7, <4>1 DEF Owners
    <3>2. ASSUME NEW o \in Objects, NEW u \in Threads, NEW pc \in CallsMalloc \ {"register"},
                 obj'[o].for = <<u, pc>>
          PROVE  obj'[o].kind = "large"
      <4>1. CASE obj'[o] = obj[o]
        BY Zenon, <2>2, <3>2, <4>1 DEF Owners
      <4>2. CASE obj'[o] = NoObject
        <5>1. NoObject.for = <<"none", "">>
          BY Zenon DEF NoObject, For
        <5>2. pc # ""
          BY Zenon DEF CallsMalloc
        <5>3. \A a, b, c, d : <<a, b>> = <<c, d>> => b = d
          BY Zenon
        <5> QED
          BY Zenon, <3>2, <4>2, <5>1, <5>2, <5>3
      <4> QED
        BY Zenon, <2>7, <4>1, <4>2
    <3> QED
      BY Zenon, <2>8, <3>1, <3>2 DEF Owners
  <2>13. ASSUME NEW u \in Threads
         PROVE  Home(u)'
    <3>1. Home(u) /\ heap'[u] = heap[u] /\ (Drops(u)' <=> Drops(u))
      BY Zenon, <2>1, <2>2, <2>8
    <3>2. CASE m.husk = "array" /\ m.what = u
      <4>1. /\ Queued(u)' = {} /\ handle'[u] # "live"
            /\ heap[u] # "initialized" /\ ~Drops(u)
        BY Zenon, <2>6, <3>2
      <4> QED
        BY Zenon, <3>1, <4>1 DEF Home
    <3>3. CASE ~(m.husk = "array" /\ m.what = u)
      BY Zenon, <2>6, <3>1, <3>3 DEF Home
    <3> QED
      BY Zenon, <3>2, <3>3
  <2>14. Lent'
    <3>1. Lenders' = Lenders
      BY Zenon, <2>8 DEF Lenders
    <3>2. 1 \in LentQueued <=> m.what = "temp"
      BY Zenon, <2>3 DEF LentQueued
    <3>3. temps' = IF m.what = "temp" THEN temps - 1 ELSE temps
      <4>1. m.what = "temp" => m.husk = "array"
        BY <2>4, GlobalHeapAssumption
      <4>2. m.husk = "array" => m.husk # "ptr"
        BY Zenon
      <4> QED
        BY Zenon, <2>1, <4>1, <4>2 DEF m
    <3>4. IsFiniteSet(LentQueued) /\ Cardinality(LentQueued) \in Nat
      <4>1. queue \in Seq(Husks)
        BY Zenon, <2>2 DEF Types
      <4>2. DOMAIN queue = 1 .. Len(queue) /\ Len(queue) \in Int
        BY <4>1
      <4>3. IsFiniteSet(DOMAIN queue)
        BY <4>2, FS_Interval
      <4>4. LentQueued \in SUBSET DOMAIN queue
        BY Zenon DEF LentQueued
      <4> QED
        BY Zenon, <4>3, <4>4, FS_Subset, FS_CardinalityType
    <3> DEFINE S == LentQueued \ {1}
               T == LentQueued'
               f == [i \in S |-> i - 1]
    <3>5. /\ \A i \in S : i \in Int /\ i - 1 \in T
          /\ \A i \in T : i \in Int /\ i + 1 \in S
      <4>1. \A i \in S : i - 1 \in T
        BY Zenon, <2>3 DEF LentQueued
      <4>2. \A i \in T : i + 1 \in S
        BY Zenon, <2>3 DEF LentQueued
      <4>3. \A i \in S : i \in Int
        <5>1. queue \in Seq(Husks)
          BY Zenon, <2>2 DEF Types
        <5> QED
          BY <5>1 DEF LentQueued
      <4>4. \A i \in T : i \in Int
        BY <2>3 DEF LentQueued
      <4> QED
        BY Zenon, <4>1, <4>2, <4>3, <4>4
    <3> HIDE DEF S, T
    <3>6. f \in Bijection(S, T)
      <4>1. f \in [S -> T]
        BY Zenon, <3>5
      <4>2. \A a, b \in S : f[a] = f[b] => a = b
        BY <3>5
      <4>3. \A b \in T : \E a \in S : f[a] = b
        <5>1. ASSUME NEW b \in T
              PROVE  b + 1 \in S /\ f[b + 1] = b
          BY <3>5
        <5> QED
          BY Zenon, <5>1
      <4> HIDE DEF f
      <4> QED
        BY Zenon, <4>1, <4>2, <4>3 DEF Bijection, Injection, Surjection, IsInjective
    <3>7. Cardinality(T) = Cardinality(S)
      <4>1. IsFiniteSet(S)
        BY Zenon, <3>4, FS_RemoveElement DEF S
      <4>2. ExistsBijection(S, T)
        BY Zenon, <3>6 DEF ExistsBijection
      <4> QED
        BY Zenon, <4>1, <4>2, FS_Bijection
    <3>8. Cardinality(S) = IF 1 \in LentQueued THEN Cardinality(LentQueued) - 1 ELSE Cardinality(LentQueued)
      BY Zenon, <3>4, FS_RemoveElement DEF S
    <3>9. temps = Cardinality(LentQueued) + Cardinality(Lenders) /\ Cardinality(Lenders) \in Nat
      <4>1. Lenders \in SUBSET Threads
        BY Zenon DEF Lenders
      <4> QED
        BY Zenon, <2>2, <4>1, FS_Subset, FS_CardinalityType, GlobalHeapAssumption DEF Lent
    <3>10. temps' = Cardinality(LentQueued') + Cardinality(Lenders')
      BY <3>1, <3>2, <3>3, <3>4, <3>7, <3>8, <3>9 DEF T
    <3> QED
      BY Zenon, <3>10 DEF Lent
  <2> QED
    BY Zenon, <2>8, <2>9, <2>11, <2>12, <2>13, <2>14 DEF IInv, Good
<1>5. IInv /\ [Next]_vars => IInv'
  <2>1. BgStart \/ UNCHANGED vars =>
            UNCHANGED <<heap, chan, ptr, dtors, elf_heap, dchan, queue, handle, temps, obj, stack>>
    BY Zenon DEF BgStart, vars, slots
  <2> QED
    BY Zenon, <1>2, <1>3, <1>4, <2>1 DEF Next
<1> QED
  BY <1>1, <1>5, PTL DEF Spec

(* No thread waits for ELF_HEAP or DESTRUCTOR_CHAN while it is creating    *)
(* it, although both creations call malloc: a thread's recursive call      *)
(* takes the fallback or its handle, never with_slow's initialisation      *)
(* again.                                                                  *)
THEOREM NoSelfWait == Spec => []OnceNotReentered
<1>1. ASSUME IInv
      PROVE  OnceNotReentered
  <2>1. ASSUME NEW t \in Threads, NEW pc \in {"once_heap", "once_chan"}, At(t, pc)
        PROVE  elf_heap # t /\ dchan # t
    <3>1. Shape(t) /\ Slot(t) /\ stack[t] # <<>> /\ Top(t).pc = pc
      BY Zenon, <1>1, <2>1 DEF IInv, Good, At
    <3>2. ASSUME NEW n \in Frames, NEW f \in Frames, Pair(t, n, f)
          PROVE  FALSE
      <4>1. n.pc = pc /\ n.pc \in {"local", "fallback"}
        BY Zenon, <3>1, <3>2 DEF Pair, Inner
      <4> QED
        BY Zenon, <4>1
    <3>3. PICK f \in Frames : Last(stack[t]) = f /\ f.pc = pc
      BY Zenon, <3>1, <3>2, InACall DEF Sole
    <3>4. f.pc # "init_heap" /\ f.pc # "init_chan"
      BY <3>3
    <3> QED
      BY Zenon, <3>1, <3>3, <3>4 DEF Slot
  <2> QED
    BY Zenon, <2>1 DEF OnceNotReentered
<1> QED
  BY <1>1, Invariance, PTL

(* The handle of a thread is in its slot, in one drop or in one message as *)
(* long as it is live, and the handles made for one call are those of the  *)
(* calls and messages: GlobalAllocator::drop sends each of them once, also *)
(* when the thread allocates while it exits.                               *)
THEOREM OneHandle == Spec => []HandleInOnePlace
<1>1. ASSUME IInv
      PROVE  HandleInOnePlace
  <2> DEFINE D(t) == {i \in DOMAIN stack[t] : stack[t][i].op = "array" /\ stack[t][i].arg = t}
             L(t) == \E i \in DOMAIN stack[t] : LET f == stack[t][i] IN
                        f.arg = "temp" \/ (f.pc = "local" /\ f.op = "realloc" /\ ~ptr[t])
  <2>1. ASSUME NEW t \in Threads
        PROVE  Shape(t) /\ Slot(t) /\ Home(t) /\ Types
    BY Zenon, <1>1 DEF IInv, Good
  <2>2. ASSUME NEW t \in Threads
        PROVE  D(t) = (IF Drops(t) THEN {Len(stack[t])} ELSE {}) /\ (L(t) <=> Lends(t))
    <3>1. CASE stack[t] = <<>>
      <4>1. DOMAIN stack[t] = {}
        BY <3>1
      <4> QED
        BY Zenon, <3>1, <4>1 DEF Drops, Lends
    <3>2. ASSUME NEW f \in Frames, Sole(t, f)
          PROVE  D(t) = (IF Drops(t) THEN {Len(stack[t])} ELSE {}) /\ (L(t) <=> Lends(t))
      <4>1. stack[t] = <<f>> /\ Last(stack[t]) = f
        BY Zenon, <3>2 DEF Sole
      <4>2. DOMAIN stack[t] = {1} /\ stack[t][1] = f /\ stack[t] # <<>> /\ Len(stack[t]) = 1
        BY <4>1, Tuples
      <4>3. Drops(t) <=> f.op = "array" /\ f.arg = t
        BY Zenon, <4>1, <4>2 DEF Drops
      <4>4. D(t) = IF Drops(t) THEN {Len(stack[t])} ELSE {}
        BY Zenon, <4>2, <4>3
      <4>5. L(t) <=> Lends(t)
        BY Zenon, <4>1, <4>2 DEF Lends
      <4> QED
        BY Zenon, <4>4, <4>5
    <3>3. ASSUME NEW n \in Frames, NEW f \in Frames, Pair(t, n, f)
          PROVE  D(t) = (IF Drops(t) THEN {Len(stack[t])} ELSE {}) /\ (L(t) <=> Lends(t))
      <4>1. stack[t] = <<n, f>> /\ Last(stack[t]) = f /\ Inner(n, f)
        BY Zenon, <3>3 DEF Pair
      <4>2. /\ DOMAIN stack[t] = {1, 2} /\ stack[t][1] = n /\ stack[t][2] = f
            /\ stack[t] # <<>> /\ Len(stack[t]) = 2
        BY <4>1, Tuples
      <4>3. n.op \notin {"array", "realloc"} /\ n.arg # "temp"
        BY Zenon, <4>1, GlobalHeapAssumption DEF Inner
      <4>4. Drops(t) <=> f.op = "array" /\ f.arg = t
        BY Zenon, <4>1, <4>2 DEF Drops
      <4>5. D(t) = IF Drops(t) THEN {Len(stack[t])} ELSE {}
        BY Zenon, <4>2, <4>3, <4>4
      <4>6. L(t) <=> Lends(t)
        BY Zenon, <4>1, <4>2, <4>3 DEF Lends
      <4> QED
        BY Zenon, <4>5, <4>6
    <3> QED
      BY Zenon, <2>1, <3>1, <3>2, <3>3, InACall
  <2>3. {t \in Threads : L(t)} = Lenders
    BY Zenon, <2>2 DEF Lenders
  <2>4. ASSUME NEW t \in Threads
        PROVE  Places(t) = IF handle[t] = "live" THEN 1 ELSE 0
    <3>1. Cardinality(D(t)) = IF Drops(t) THEN 1 ELSE 0
      <4>1. D(t) = IF Drops(t) THEN {Len(stack[t])} ELSE {}
        BY Zenon, <2>2
      <4> HIDE DEF D
      <4> QED
        BY Zenon, <4>1, FS_EmptySet, FS_Singleton
    <3>2. Cardinality(Queued(t)) = IF Queued(t) = {} THEN 0 ELSE 1
      <4>1. Queued(t) # {} => \E i : Queued(t) = {i}
        <5>1. \A i, j \in Queued(t) : i = j
          BY Zenon, <2>1 DEF Home
        <5>2. ASSUME NEW i \in Queued(t)
              PROVE  Queued(t) = {i}
          BY Zenon, <5>1
        <5> QED
          BY Zenon, <5>2
      <4> QED
        BY Zenon, <4>1, FS_EmptySet, FS_Singleton
    <3>3. Places(t) = (IF heap[t] = "initialized" THEN 1 ELSE 0) + Cardinality(D(t)) + Cardinality(Queued(t))
      BY Zenon DEF Places, Count, Queued
    <3> HIDE DEF D
    <3> QED
      BY <2>1, <3>1, <3>2, <3>3 DEF Home
  <2>5. temps = Count(queue, LAMBDA m : m.what = "temp") + Cardinality({t \in Threads : L(t)})
    BY Zenon, <1>1, <2>3 DEF IInv, Lent, LentQueued, Count
  <2>6. \A t \in Threads : At(t, "local") /\ ptr[t] => heap[t] = "initialized"
    BY Zenon, <2>1 DEF Slot
  <2> QED
    BY Zenon, <2>4, <2>5, <2>6 DEF HandleInOnePlace
<1> QED
  BY <1>1, Invariance, PTL
=============================================================================
