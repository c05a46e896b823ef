--------------------------- MODULE MagazineCache ---------------------------
(***************************************************************************)
(* MagazineCache (elfmalloc/src/frontends.rs): a cache in front of a       *)
(* SlagAllocator that keeps freed objects of any slag on a bounded stack   *)
(* and, when the stack is full, frees half of it at once, the objects of   *)
(* one bitset word together where the Coalescer has room for the word.     *)
(***************************************************************************)
EXTENDS SlagProperties

CONSTANT StackSize   \* MagazineCache::stack_size

ASSUME StackAssumption == StackSize \in Nat \ {0}

VARIABLES
    collided,   \* objects return_memory frees one by one
    coalesced   \* objects in the Coalescer

returning == <<collided, coalesced>>
mvars == <<vars, returning>>

MagazineInit ==
    /\ Init
    /\ collided = [h \in Handles |-> {}]
    /\ coalesced = [h \in Handles |-> {}]
-----------------------------------------------------------------------------
(* slag_alloc: two rounds of trying the iterator and refreshing it.        *)
MagazineRefresh(h) ==
    /\ IterExhausted(h)
    /\ tries[h] < 2
    /\ tries' = [tries EXCEPT ![h] = @ + 1]
    /\ Unclaim(h)

IterNext(h) == tries[h] < 2 /\ (AllocNext(h) \/ RefreshWord(h))

(* After the second round it panics with "New slag is empty".              *)
EmptySlag(h) ==
    /\ pc[h] = "iter"
    /\ tries[h] = 2
    /\ Goto(h, "empty")
    /\ UNCHANGED <<header, pools, live, ret, iter, cache, tries, freeing>>
-----------------------------------------------------------------------------
(* free with room on the stack.                                            *)
FreeCached(h) ==
    /\ pc[h] = "idle"
    /\ Cardinality(cache[h]) < StackSize
    /\ \E o \in live :
        /\ live' = live \ {o}
        /\ cache' = [cache EXCEPT ![h] = @ \cup {o}]
    /\ UNCHANGED <<header, pools, pc, ret, iter, tries, freeing, returning>>

\* The word of the bitset that holds object o.
WordOfObject(o) == <<o[1], WordOf(o[2])>>

\* Mutant: the upper half stays on the stack (top is not lowered).
FreeFullStackKeeps(h) ==
    /\ pc[h] = "idle"
    /\ Cardinality(cache[h]) = StackSize
    /\ \E o \in live, upper \in SUBSET cache[h] :
        /\ Cardinality(cache[h] \ upper) = StackSize \div 2
        /\ live' = live \ {o}
        /\ cache' = [cache EXCEPT ![h] = @ \cup {o}]
        /\ collided' = [collided EXCEPT ![h] = {}]
        /\ coalesced' = [coalesced EXCEPT ![h] = upper]
    /\ ret' = [ret EXCEPT ![h] = "spill"]
    /\ Goto(h, "spill")
    /\ UNCHANGED <<header, pools, iter, tries, freeing>>

(* free with a full stack: the first loop of return_memory puts the upper  *)
(* half into the Coalescer.  The first word always finds its bucket empty; *)
(* any other may find it taken by another word.                            *)
FreeFullStack(h) ==
    /\ pc[h] = "idle"
    /\ Cardinality(cache[h]) = StackSize
    /\ \E o \in live, upper \in SUBSET cache[h] :
        /\ Cardinality(cache[h] \ upper) = StackSize \div 2
        /\ live' = live \ {o}
        /\ cache' = [cache EXCEPT ![h] = (@ \ upper) \cup {o}]
        /\ LET words == {WordOfObject(p) : p \in upper} IN
           \E full \in SUBSET words \ {words} :
            LET out == {p \in upper : WordOfObject(p) \in full} IN
            /\ collided' = [collided EXCEPT ![h] = out]
            /\ coalesced' = [coalesced EXCEPT ![h] = upper \ out]
    /\ ret' = [ret EXCEPT ![h] = "spill"]
    /\ Goto(h, "spill")
    /\ UNCHANGED <<header, pools, iter, tries, freeing>>

(* An object whose bucket was taken is freed by itself.                    *)
ReturnCollided(h) ==
    /\ pc[h] = "spill"
    /\ \E o \in collided[h] :
        /\ collided' = [collided EXCEPT ![h] = @ \ {o}]
        /\ IncN(h, o[1], {o[2]}, FreeTransition(o[1]))
    /\ UNCHANGED <<live, ret, cur_word, cache, coalesced>>

(* The second loop: one bulk_free for each word in the Coalescer.          *)
ReturnWord(h) ==
    /\ pc[h] = "spill"
    /\ collided[h] = {}
    /\ \E w \in {WordOfObject(o) : o \in coalesced[h]} :
        LET group == {o \in coalesced[h] : WordOfObject(o) = w}
            m == {o[2] : o \in group} IN
        /\ coalesced' = [coalesced EXCEPT ![h] = @ \ group]
        /\ IncN(h, w[1], m, BulkTransition(w[1], Cardinality(m)))
    /\ UNCHANGED <<live, ret, cur_word, cache, collided>>

ReturnDone(h) ==
    /\ pc[h] = "spill"
    /\ collided[h] = {}
    /\ coalesced[h] = {}
    /\ ret' = [ret EXCEPT ![h] = "idle"]
    /\ Goto(h, "idle")
    /\ UNCHANGED <<header, pools, live, iter, cache, tries, freeing, returning>>
-----------------------------------------------------------------------------
MagazineCall(h) ==
    \/ FreeCached(h)
    \/ FreeFullStack(h)
    \/ /\ \/ NewHandle(h)
          \/ AllocCached(h)
          \/ BeginAlloc(h)
          \/ DropWord(h)
       /\ UNCHANGED returning

MagazineStep(h) ==
    \/ ReturnCollided(h)
    \/ ReturnWord(h)
    \/ ReturnDone(h)
    \/ /\ \/ FirstRefresh(h)
          \/ MagazineRefresh(h)
          \/ PopAvailable(h)
          \/ AllocPage(h)
          \/ OutOfMemory(h)
          \/ Claim(h)
          \/ NewIter(h)
          \/ DecN(h)
          \/ IterNext(h)
          \/ EmptySlag(h)
          \/ FetchOr(h)
          \/ PushAvailable(h)
          \/ Revoke(h)
          \/ RevokeFails(h)
          \/ FreePage(h)
          \/ DropCached(h)
          \/ DropSlag(h)
       /\ UNCHANGED returning

MagazineNext == \E h \in Handles : MagazineCall(h) \/ MagazineStep(h)

MagazineSpec == MagazineInit /\ [][MagazineNext]_mvars
-----------------------------------------------------------------------------
(* OnePlace of SlagProperties with the objects that return_memory has      *)
(* taken off the stack and not yet freed: each object of a slag is in      *)
(* exactly one place, so none is lost and none is handed out twice by the  *)
(* batching of MagazineCache::return_memory.                               *)
OnePlaceMagazine ==
    \A s \in Slags : \A i \in Index :
        LET HeldBy(P(_)) == Cardinality({h \in Handles : P(h)})
            InMagazine(h) == InCache(h, s, i)
            InReturn(h) == <<s, i>> \in collided[h] \cup coalesced[h]
            InFree(h) == InFlight(h, s, i)
            InIter(h) == InWord(h, s, i)
            Free == IF i \in bitset[s] THEN 1 ELSE 0
            InUse == IF <<s, i>> \in live THEN 1 ELSE 0
        IN Free + InUse + HeldBy(InMagazine) + HeldBy(InReturn)
             + HeldBy(InFree) + HeldBy(InIter)
           = IF meta[s] = "m" THEN 1 ELSE 0
=============================================================================
