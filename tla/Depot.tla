------------------------------- MODULE Depot -------------------------------
(***************************************************************************)
(* Magazines and their depot (elfmalloc/src/frontends.rs, mod magazine).   *)
(* Each thread's DepotCache allocates from and frees to two magazines, m1  *)
(* and m2; it exchanges an empty one for a full one, or a full one for an  *)
(* empty one, at the depot all threads share, and turns to the front end   *)
(* below when the depot cannot help.  A step is one access to a pipe of    *)
(* the depot, to a pipe's counters, or to the front end.                   *)
(***************************************************************************)
EXTENDS Integers, FiniteSets

CONSTANTS
    Threads,
    First,      \* the thread that makes the depot
    Objects,
    Mags,       \* the addresses a magazine can be mapped at
    Cap,        \* the objects a magazine takes
    MaxSizes,   \* the limits a depot can be made with
    Threshold   \* THRESHOLD_DIFF of the pipes' counters

None == "none"

ASSUME DepotAssumption ==
    /\ First \in Threads
    /\ IsFiniteSet(Threads)
    /\ Cap \in Nat \ {0}
    /\ MaxSizes \subseteq Nat
    /\ Threshold \in Nat \ {0}
    /\ None \notin Mags \cup Objects

Pipes == {"empty", "full"}

VARIABLES
    objs,      \* what is in each magazine
    mapped,    \* the magazines that are mapped
    max_size,  \* the magazines a pipe of the depot is to hold
    pipe,      \* the magazines in each pipe of the depot
    counted,   \* its shared size counter ...
    diff,      \* ... and what each thread has not added to it yet
    m1, m2,    \* the magazines of each thread
    m,         \* a third one, between m1 and the depot
    item,      \* the object being freed
    pc,        \* where each thread is
    user,      \* the objects the program has
    below,     \* the objects free in the front end below
    lost,      \* those in magazines that the last drop unmapped
    since      \* history: calls since the thread last went to the depot

depot == <<pipe, counted, diff>>
mags == <<m1, m2, m>>
vars == <<max_size, objs, mapped, depot, mags, item, pc, user, below, lost, since>>

Go(t, p) == pc' = [pc EXCEPT ![t] = p]
Set(f, t, x) == [f EXCEPT ![t] = x]
Abs(n) == IF n < 0 THEN -n ELSE n
-----------------------------------------------------------------------------
(* The pipes: BagPipe's push_mut and pop_mut with the count they keep.     *)
Count(p, t, d) ==
    LET n == diff[p][t] + d IN
    IF Abs(n) >= Threshold
    THEN counted' = [counted EXCEPT ![p] = @ + n] /\ diff' = [diff EXCEPT ![p][t] = 0]
    ELSE diff' = [diff EXCEPT ![p][t] = n] /\ UNCHANGED counted

PushMut(p, t, x) == pipe' = [pipe EXCEPT ![p] = @ \cup {x}] /\ Count(p, t, 1)
PopMut(p, t, x) == x \in pipe[p] /\ pipe' = [pipe EXCEPT ![p] = @ \ {x}] /\ Count(p, t, -1)

size_guess(p) == IF counted[p] < 0 THEN 0 ELSE counted[p]

\* Magazine::new, at whatever address mmap finds, and destroy.
Fresh(x) ==
    /\ mapped # Mags
    /\ x = CHOOSE y \in Mags : y \notin mapped
    /\ mapped' = mapped \cup {x}
    /\ objs' = Set(objs, x, {})
Destroy(x) == mapped' = mapped \ {x}
-----------------------------------------------------------------------------
Init ==
    /\ max_size \in MaxSizes
    /\ objs = [x \in Mags |-> {}]
    /\ mapped = {}
    /\ pipe = [p \in Pipes |-> {}]
    /\ counted = [p \in Pipes |-> 0]
    /\ diff = [p \in Pipes |-> [t \in Threads |-> 0]]
    /\ m1 = [t \in Threads |-> None]
    /\ m2 = [t \in Threads |-> None]
    /\ m = [t \in Threads |-> None]
    /\ item = [t \in Threads |-> None]
    /\ pc = [t \in Threads |-> IF t = First THEN "new" ELSE "unborn"]
    /\ user = {}
    /\ below = Objects
    /\ lost = {}
    /\ since = [t \in Threads |-> Cap]

(* The Lazy front end of another thread is initialised, from a clone of    *)
(* the depot.                                                              *)
Clone(t) ==
    /\ pc[t] = "unborn"
    /\ \E s \in Threads : pc[s] = "idle"
    /\ Go(t, "new")
    /\ UNCHANGED <<objs, mapped, depot, mags, item, user, below, lost, since>>

(* DepotCache::new: m1 a full magazine if there is one, else an empty one; *)
(* m2 empty.                                                               *)
NewFull(t) ==
    /\ pc[t] = "new"
    /\ \/ /\ pipe["full"] = {}
          /\ UNCHANGED <<depot, m1>>
       \/ \E x \in pipe["full"] : PopMut("full", t, x) /\ m1' = Set(m1, t, x)
    /\ Go(t, "new_empty")
    /\ UNCHANGED <<objs, mapped, m2, m, item, user, below, lost, since>>

\* alloc_empty: from the pipe, or newly mapped.
AllocEmpty(t, x) ==
    \/ PopMut("empty", t, x) /\ UNCHANGED <<mapped, objs>>
    \/ pipe["empty"] = {} /\ Fresh(x) /\ UNCHANGED depot

NewEmpty(t) ==
    /\ pc[t] = "new_empty"
    /\ \E x \in Mags :
        /\ AllocEmpty(t, x)
        /\ IF m1[t] = None THEN m1' = Set(m1, t, x) /\ UNCHANGED <<m2, pc>>
                           ELSE m2' = Set(m2, t, x) /\ UNCHANGED m1 /\ Go(t, "idle")
    /\ UNCHANGED <<m, item, user, below, lost, since>>
-----------------------------------------------------------------------------
Called(t) == since' = [since EXCEPT ![t] = IF @ < Cap THEN @ + 1 ELSE @]

\* mem::swap of m1 and m2.
Exchange(t, p) ==
    /\ m1' = Set(m1, t, m2[t])
    /\ m2' = Set(m2, t, m1[t])
    /\ Go(t, p)

\* m1's top object goes to the program.
PopM1(t, x) ==
    \E o \in objs[x] :
        /\ objs' = [objs EXCEPT ![x] = @ \ {o}]
        /\ user' = user \cup {o}

(* alloc: from m1, from m2, or else the depot is asked for a full one.     *)
Alloc(t) ==
    /\ pc[t] = "idle"
    /\ Called(t)
    /\ \/ objs[m1[t]] # {} /\ PopM1(t, m1[t]) /\ UNCHANGED <<m1, m2, pc>>
       \/ objs[m1[t]] = {} /\ objs[m2[t]] # {} /\ PopM1(t, m2[t])
            /\ Exchange(t, "idle")
       \/ objs[m1[t]] = {} /\ objs[m2[t]] = {} /\ Exchange(t, "alloc_full")
            /\ UNCHANGED <<objs, user>>
    /\ UNCHANGED <<mapped, depot, m, item, below, lost>>

(* swap_empty: alloc_full, then the empty m1 goes to the depot.            *)
AllocFull(t) ==
    /\ pc[t] = "alloc_full"
    /\ since' = Set(since, t, 0)
    /\ \/ \E x \in pipe["full"] : PopMut("full", t, x) /\ m' = Set(m, t, x) /\ Go(t, "free_empty")
       \/ pipe["full"] = {} /\ Go(t, "refill") /\ UNCHANGED <<depot, m>>
    /\ UNCHANGED <<objs, mapped, m1, m2, item, user, below, lost>>

\* self.m1 = m, and the first of its objects is allocated.
Loaded(t) ==
    /\ m1' = Set(m1, t, m[t])
    /\ m' = Set(m, t, None)
    /\ PopM1(t, m[t])
    /\ Go(t, "idle")

(* free_empty looks at the guess; at capacity the magazine is unmapped.    *)
FreeEmpty(t) ==
    /\ pc[t] = "free_empty"
    /\ IF size_guess("empty") >= max_size
       THEN Destroy(m1[t]) /\ Loaded(t)
       ELSE Go(t, "push_empty") /\ UNCHANGED <<mapped, m1, m, objs, user>>
    /\ UNCHANGED <<depot, m2, item, below, lost, since>>

PushEmpty(t) ==
    /\ pc[t] = "push_empty"
    /\ PushMut("empty", t, m1[t])
    /\ Loaded(t)
    /\ UNCHANGED <<mapped, m2, item, below, lost, since>>

\* Mutant: one object is enough to go on.
RefillOne(t) ==
    /\ pc[t] = "refill"
    /\ IF objs[m1[t]] = {}
       THEN \E o \in below : /\ objs' = [objs EXCEPT ![m1[t]] = @ \cup {o}]
                             /\ below' = below \ {o}
                             /\ UNCHANGED <<user, pc>>
       ELSE PopM1(t, m1[t]) /\ Go(t, "idle") /\ UNCHANGED below
    /\ UNCHANGED <<mapped, depot, mags, item, lost, since>>

(* No full magazine: m1 is filled from below, an object at a time.         *)
Refill(t) ==
    /\ pc[t] = "refill"
    /\ IF Cardinality(objs[m1[t]]) < Cap
       THEN \E o \in below : /\ objs' = [objs EXCEPT ![m1[t]] = @ \cup {o}]
                             /\ below' = below \ {o}
                             /\ UNCHANGED <<user, pc>>
       ELSE PopM1(t, m1[t]) /\ Go(t, "idle") /\ UNCHANGED below
    /\ UNCHANGED <<mapped, depot, mags, item, lost, since>>
-----------------------------------------------------------------------------
HasRoom(x) == Cardinality(objs[x]) < Cap

(* free, of an object any thread may have allocated: to m1, to m2, or else *)
(* m1, which is full, goes to the depot.                                   *)
Free(t) ==
    /\ pc[t] = "idle"
    /\ Called(t)
    /\ \E o \in user :
        /\ user' = user \ {o}
        /\ \/ /\ HasRoom(m1[t])
              /\ objs' = [objs EXCEPT ![m1[t]] = @ \cup {o}]
              /\ UNCHANGED <<m1, m2, pc, item>>
           \/ /\ ~HasRoom(m1[t]) /\ HasRoom(m2[t])
              /\ objs' = [objs EXCEPT ![m2[t]] = @ \cup {o}]
              /\ Exchange(t, "idle")
              /\ UNCHANGED item
           \/ /\ ~HasRoom(m1[t]) /\ ~HasRoom(m2[t])
              /\ item' = Set(item, t, o)
              /\ Exchange(t, "free_full")
              /\ UNCHANGED objs
    /\ UNCHANGED <<mapped, depot, m, below, lost>>

\* Mutant: one magazine more than max_size.
FreeFullLate(t) ==
    /\ pc[t] = "free_full"
    /\ since' = Set(since, t, 0)
    /\ Go(t, IF size_guess("full") > max_size THEN "spill" ELSE "push_full")
    /\ UNCHANGED <<objs, mapped, depot, mags, item, user, below, lost>>

(* swap_full: free_full refuses at capacity, and m1 is emptied instead.    *)
FreeFull(t) ==
    /\ pc[t] = "free_full"
    /\ since' = Set(since, t, 0)
    /\ Go(t, IF size_guess("full") >= max_size THEN "spill" ELSE "push_full")
    /\ UNCHANGED <<objs, mapped, depot, mags, item, user, below, lost>>

PushFull(t) ==
    /\ pc[t] = "push_full"
    /\ PushMut("full", t, m1[t])
    /\ m1' = Set(m1, t, None)
    /\ Go(t, "alloc_empty")
    /\ UNCHANGED <<objs, mapped, m2, m, item, user, below, lost, since>>

(* The empty magazine becomes m1.                                          *)
TakeEmpty(t) ==
    /\ pc[t] = "alloc_empty"
    /\ \E x \in Mags : AllocEmpty(t, x) /\ m1' = Set(m1, t, x)
    /\ Go(t, "spill")
    /\ UNCHANGED <<m2, m, item, user, below, lost, since>>

\* Mutant: what the refused magazine holds is overwritten.
SpillOver(t) ==
    /\ pc[t] = "spill"
    /\ objs' = [objs EXCEPT ![m1[t]] = {item[t]}]
    /\ item' = Set(item, t, None)
    /\ Go(t, "idle")
    /\ UNCHANGED <<mapped, depot, mags, user, below, lost, since>>

(* m1's objects go below, if it still has any; then the object goes in.    *)
Spill(t) ==
    /\ pc[t] = "spill"
    /\ IF objs[m1[t]] # {}
       THEN \E o \in objs[m1[t]] : /\ objs' = [objs EXCEPT ![m1[t]] = @ \ {o}]
                                   /\ below' = below \cup {o}
                                   /\ UNCHANGED <<item, pc>>
       ELSE /\ objs' = [objs EXCEPT ![m1[t]] = {item[t]}]
            /\ item' = Set(item, t, None)
            /\ Go(t, "idle")
            /\ UNCHANGED below
    /\ UNCHANGED <<mapped, depot, mags, user, lost, since>>
-----------------------------------------------------------------------------
(* Drop: the objects of m1 go below and m1 to the depot, then m2 likewise. *)
Drop(t) ==
    /\ pc[t] = "idle"
    /\ Go(t, "drop")
    /\ UNCHANGED <<objs, mapped, depot, mags, item, user, below, lost, since>>

DropObject(t) ==
    /\ pc[t] = "drop"
    /\ \E o \in objs[m1[t]] :
        /\ objs' = [objs EXCEPT ![m1[t]] = @ \ {o}]
        /\ below' = below \cup {o}
    /\ UNCHANGED <<mapped, depot, mags, item, pc, user, lost, since>>

DropMagazine(t) ==
    /\ pc[t] = "drop"
    /\ objs[m1[t]] = {}
    /\ IF size_guess("empty") >= max_size
       THEN /\ Destroy(m1[t])
            /\ m1' = Set(m1, t, m2[t])
            /\ m2' = Set(m2, t, None)
            /\ Go(t, IF m2[t] = None THEN "drop_depot" ELSE "drop")
       ELSE Go(t, "drop_push") /\ UNCHANGED <<mapped, m1, m2>>
    /\ UNCHANGED <<objs, depot, m, item, user, below, lost, since>>

DropPush(t) ==
    /\ pc[t] = "drop_push"
    /\ PushMut("empty", t, m1[t])
    /\ m1' = Set(m1, t, m2[t])
    /\ m2' = Set(m2, t, None)
    /\ Go(t, IF m2[t] = None THEN "drop_depot" ELSE "drop")
    /\ UNCHANGED <<objs, mapped, m, item, user, below, lost, since>>

(* Then its handles on the pipes go, with the differences they kept.  The  *)
(* last thread's take the pipes with them: MagazineCleanup unmaps the      *)
(* magazines and leaves the objects in the full ones.                      *)
DropDepot(t) ==
    /\ pc[t] = "drop_depot"
    /\ Go(t, "dropped")
    /\ counted' = [p \in Pipes |-> counted[p] + diff[p][t]]
    /\ diff' = [p \in Pipes |-> [diff[p] EXCEPT ![t] = 0]]
    /\ IF \A s \in Threads \ {t} : pc[s] \in {"unborn", "dropped"}
       THEN /\ mapped' = mapped \ (pipe["empty"] \cup pipe["full"])
            /\ lost' = UNION {objs[x] : x \in pipe["full"]}
            /\ objs' = [x \in Mags |-> IF x \in pipe["full"] THEN {} ELSE objs[x]]
            /\ pipe' = [p \in Pipes |-> {}]
       ELSE UNCHANGED <<mapped, lost, objs, pipe>>
    /\ UNCHANGED <<mags, item, user, below, since>>

Step(t) ==
    \/ NewFull(t) \/ NewEmpty(t)
    \/ AllocFull(t) \/ FreeEmpty(t) \/ PushEmpty(t) \/ Refill(t)
    \/ FreeFull(t) \/ PushFull(t) \/ TakeEmpty(t) \/ Spill(t)
    \/ DropObject(t) \/ DropMagazine(t) \/ DropPush(t) \/ DropDepot(t)

Next ==
    /\ \E t \in Threads : Clone(t) \/ Alloc(t) \/ Free(t) \/ Drop(t) \/ Step(t)
    /\ UNCHANGED max_size

Spec == Init /\ [][Next]_vars
-----------------------------------------------------------------------------
Places(x) == {<<"m1", t>> : t \in {t \in Threads : m1[t] = x}}
       \cup {<<"m2", t>> : t \in {t \in Threads : m2[t] = x}}
       \cup {<<"m", t>> : t \in {t \in Threads : m[t] = x}}
       \cup {<<"pipe", p>> : p \in {p \in Pipes : x \in pipe[p]}}

(* A magazine is with one thread or in one pipe as long as it is mapped,   *)
(* and unmapped when nobody can reach it any more; the full pipe holds     *)
(* full magazines and the empty pipe empty ones (the assertions of         *)
(* free_empty, free_full, alloc_full and alloc_empty). So alloc never      *)
(* gives out an object that the program, a magazine or the front end below *)
(* still has, and none gets lost before the last thread is gone.           *)
MagazinesInPlace ==
    /\ \A x \in Mags : Cardinality(Places(x)) = IF x \in mapped THEN 1 ELSE 0
    /\ \A x \in pipe["full"] : Cardinality(objs[x]) = Cap
    /\ \A x \in pipe["empty"] : objs[x] = {}
    /\ \A o \in Objects :
        Cardinality({x \in mapped : o \in objs[x]} \cup {t \in Threads : item[t] = o}
                    \cup {s \in {"user", "below", "lost"} :
                           o \in (CASE s = "user" -> user [] s = "below" -> below [] OTHER -> lost)})
        = 1
    /\ lost # {} => \A t \in Threads : pc[t] \in {"unborn", "dropped"}

(* "the presence of two Magazines ensures that the Depot is only accessed  *)
(* at a minimum of every k allocations" (frontends.rs:395-397), whatever   *)
(* the order of a thread's allocs and frees.                               *)
DepotEveryCap ==
    \A t \in Threads : pc[t] \in {"alloc_full", "free_full"} => since[t] >= Cap

(* Depot::max_size holds up to the error of size_guess, less than the      *)
(* threshold for each thread, and the threads that push on a guess they    *)
(* have already made.                                                      *)
DepotBounded ==
    \A p \in Pipes :
        Cardinality(pipe[p]) <= IF max_size = 0 THEN 0
                                ELSE max_size - 1 + Cardinality(Threads) * Threshold
=============================================================================
