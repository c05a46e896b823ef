--------------------------- MODULE SlagAllocator ---------------------------
(***************************************************************************)
(* The slag allocator of elfmalloc (elfmalloc/src/slag.rs): pages that are *)
(* carved into objects of one size class, each with a reference count, a   *)
(* claimed bit and a bitset of free objects in its header.                 *)
(*                                                                         *)
(* A handle is one thread's SlagAllocator with the cache in front of it.   *)
(* Every atomic access to a slag header, to the pool of available slags or *)
(* to the pool of pages is one step.  Modules LocalCache and MagazineCache *)
(* add the two caches that drive these steps.                              *)
(***************************************************************************)
EXTENDS Integers, FiniteSets

CONSTANTS
    Handles,   \* the SlagAllocators, one per thread
    Created,   \* the handles that exist in the initial state
    Slags,     \* the pages of the coarse allocator
    NObjects,  \* Metadata::n_objects
    Cutoff,    \* Metadata::cutoff_objects
    WordBits,  \* objects per word of the bitset
    Uncommits  \* whether PageAlloc::free may uncommit the page it is given

ASSUME ConstantsAssumption ==
    /\ Created \subseteq Handles
    /\ NObjects \in Nat \ {0}
    /\ Cutoff \in 1 .. NObjects
    /\ WordBits \in Nat \ {0}
    /\ Uncommits \in BOOLEAN

Index == 0 .. NObjects - 1
Objects == Slags \X Index

\* The word of the bitset that holds object i, and the last such word.
WordOf(i) == i \div WordBits
LastWord == WordOf(NObjects - 1)

PCs == {"none", "new", "idle", "iter", "reclaim", "getslag", "claim", "swap",
        "dec", "or", "push", "revoke", "freepage", "spill", "drop", "dead",
        "oom", "empty"}
Transitions == {"Null", "Available", "Full"}

VARIABLES
    \* the headers of the slags
    meta,       \* "null" for a zeroed header, "m" for this size class
    claimed,    \* RefCount: the slags whose claimed bit is set ...
    rc,         \* ... and the count in the same word
    bitset,     \* the objects whose bit is set
    \* the shared pools; a pool maps a slag to its number of occurrences
    available,  \* the BagPipe of available slags
    pages,      \* the pages in PageAlloc: dirty, clean, or not carved yet
    live,       \* the objects held by the program
    \* each handle
    pc,         \* the next step of the operation in progress
    ret,        \* where that operation continues when the call it makes returns
    slag,       \* SlagAllocator::slag
    cur_word,   \* AllocIter::cur_word
    cur_index,  \* AllocIter::cur_word_index
    cache,      \* the stack of cached objects (LocalCache::vals, MagazineCache::s)
    tries,      \* refreshes made by the allocation in progress
    tgt,        \* the slag of the free in progress ...
    mask,       \* ... its objects ...
    trans       \* ... and the transition its inc_n decided on

header == <<meta, claimed, rc, bitset>>
pools == <<available, pages>>
iter == <<slag, cur_word, cur_index>>
freeing == <<tgt, mask, trans>>
vars == <<header, pools, live, pc, ret, iter, cache, tries, freeing>>

Goto(h, l) == pc' = [pc EXCEPT ![h] = l]

Put(pool, s) == [pool EXCEPT ![s] = @ + 1]
Take(pool, s) == [pool EXCEPT ![s] = @ - 1]
-----------------------------------------------------------------------------
(* Slag::init on a page of this class, given the other header fields.      *)
InitHeader(s) ==
    /\ meta' = [meta EXCEPT ![s] = "m"]
    /\ claimed' = claimed \ {s}
    /\ rc' = [rc EXCEPT ![s] = NObjects]
    /\ bitset' = [bitset EXCEPT ![s] = Index]

(* Initially each created handle has run partial_new on a page of its own  *)
(* and is about to call refresh; the other pages have never been used.     *)
Init ==
    /\ slag \in [Handles -> Slags]
    /\ \A h, k \in Created : slag[h] = slag[k] => h = k
    /\ LET inUse == {slag[h] : h \in Created} IN
       /\ meta = [s \in Slags |-> IF s \in inUse THEN "m" ELSE "null"]
       /\ rc = [s \in Slags |-> IF s \in inUse THEN NObjects ELSE 0]
       /\ bitset = [s \in Slags |-> IF s \in inUse THEN Index ELSE {}]
       /\ pages = [s \in Slags |-> IF s \in inUse THEN 0 ELSE 1]
    /\ claimed = {}
    /\ available = [s \in Slags |-> 0]
    /\ live = {}
    /\ pc = [h \in Handles |-> IF h \in Created THEN "new" ELSE "none"]
    /\ ret = [h \in Handles |-> "idle"]
    /\ cur_word = [h \in Handles |-> {}]
    /\ cur_index = [h \in Handles |-> 0]
    /\ cache = [h \in Handles |-> {}]
    /\ tries = [h \in Handles |-> 0]
    /\ tgt = slag
    /\ mask = [h \in Handles |-> {}]
    /\ trans = [h \in Handles |-> "Null"]

(* SlagAllocator::partial_new (and Clone): take a page and initialise it,  *)
(* whatever its header says.                                               *)
NewHandle(h) ==
    /\ pc[h] = "none"
    /\ \E s \in Slags :
        /\ pages[s] > 0
        /\ pages' = Take(pages, s)
        /\ slag' = [slag EXCEPT ![h] = s]
        /\ InitHeader(s)
    /\ Goto(h, "new")
    /\ UNCHANGED <<available, live, ret, cur_word, cur_index, cache, tries, freeing>>
-----------------------------------------------------------------------------
\* Mutant: re-claim only above the cutoff.
UnclaimAbove(h) ==
    /\ claimed' = claimed \ {slag[h]}
    /\ Goto(h, IF rc[slag[h]] > Cutoff THEN "reclaim" ELSE "getslag")
    /\ UNCHANGED <<meta, rc, bitset, pools, live, ret, iter, cache, freeing>>

(* SlagAllocator::refresh.  The count is read by the unclaim itself: both  *)
(* are in one word.                                                        *)
Unclaim(h) ==
    /\ claimed' = claimed \ {slag[h]}
    /\ Goto(h, IF rc[slag[h]] >= Cutoff THEN "reclaim" ELSE "getslag")
    /\ UNCHANGED <<meta, rc, bitset, pools, live, ret, iter, cache, freeing>>

(* The first refresh, made by LocalCache::new and MagazineCache::new.      *)
FirstRefresh(h) == pc[h] = "new" /\ Unclaim(h) /\ UNCHANGED tries

(* available.try_pop_mut() succeeds.                                       *)
PopAvailable(h) ==
    /\ pc[h] = "getslag"
    /\ \E s \in Slags :
        /\ available[s] > 0
        /\ available' = Take(available, s)
        /\ slag' = [slag EXCEPT ![h] = s]
    /\ Goto(h, "claim")
    /\ UNCHANGED <<header, pages, live, ret, cur_word, cur_index, cache, tries, freeing>>

(* available.try_pop_mut() fails, which the weak bag allows at any time.   *)
(* The page from PageAlloc::alloc is initialised unless its header already *)
(* names this size class.                                                  *)
AllocPage(h) ==
    /\ pc[h] = "getslag"
    /\ \E s \in Slags :
        /\ pages[s] > 0
        /\ pages' = Take(pages, s)
        /\ slag' = [slag EXCEPT ![h] = s]
        /\ IF meta[s] = "m" THEN UNCHANGED header ELSE InitHeader(s)
    /\ Goto(h, "claim")
    /\ UNCHANGED <<available, live, ret, cur_word, cur_index, cache, tries, freeing>>

\* Mutant: try again until a page comes back.
OutOfMemorySpins(h) ==
    /\ pc[h] = "getslag"
    /\ \A s \in Slags : pages[s] = 0
    /\ UNCHANGED vars

(* refresh_pages panics with "out of memory!" when nothing can be carved.  *)
OutOfMemory(h) ==
    /\ pc[h] = "getslag"
    /\ \A s \in Slags : pages[s] = 0
    /\ Goto(h, "oom")
    /\ UNCHANGED <<header, pools, live, ret, iter, cache, tries, freeing>>

\* Mutant: the slag that is kept is not claimed again.
ClaimNewOnly(h) ==
    /\ pc[h] \in {"reclaim", "claim"}
    /\ claimed' = IF pc[h] = "claim" THEN claimed \cup {slag[h]} ELSE claimed
    /\ Goto(h, "swap")
    /\ UNCHANGED <<meta, rc, bitset, pools, live, ret, iter, cache, tries, freeing>>

(* RefCount::claim, of the slag just unclaimed or of the new one.          *)
Claim(h) ==
    /\ pc[h] \in {"reclaim", "claim"}
    /\ claimed' = claimed \cup {slag[h]}
    /\ Goto(h, "swap")
    /\ UNCHANGED <<meta, rc, bitset, pools, live, ret, iter, cache, tries, freeing>>

\* Mutant: the word is loaded and not swapped with zero.
LoadWord(h, w) ==
    /\ cur_word' = [cur_word EXCEPT ![h] = {i \in bitset[slag[h]] : WordOf(i) = w}]
    /\ cur_index' = [cur_index EXCEPT ![h] = w]
    /\ Goto(h, "dec")
    /\ UNCHANGED <<header, pools, live, ret, slag, cache, tries, freeing>>

(* Take all the set bits of word w with one swap.                          *)
SwapWord(h, w) ==
    LET word == {i \in bitset[slag[h]] : WordOf(i) = w} IN
    /\ cur_word' = [cur_word EXCEPT ![h] = word]
    /\ cur_index' = [cur_index EXCEPT ![h] = w]
    /\ bitset' = [bitset EXCEPT ![slag[h]] = @ \ word]
    /\ Goto(h, "dec")
    /\ UNCHANGED <<meta, claimed, rc, pools, live, ret, slag, cache, tries, freeing>>

(* AllocIter::new.                                                         *)
NewIter(h) == pc[h] = "swap" /\ SwapWord(h, 0)

(* AllocIter::refresh_word, from AllocIter::next.                          *)
RefreshWord(h) ==
    /\ pc[h] = "iter"
    /\ cur_word[h] = {}
    /\ cur_index[h] < LastWord
    /\ SwapWord(h, cur_index[h] + 1)

(* RefCount::dec_n for the objects taken by the swap.                      *)
DecN(h) ==
    /\ pc[h] = "dec"
    /\ rc' = [rc EXCEPT ![slag[h]] = @ - Cardinality(cur_word[h])]
    /\ Goto(h, ret[h])
    /\ UNCHANGED <<meta, claimed, bitset, pools, live, ret, iter, cache, tries, freeing>>
-----------------------------------------------------------------------------
(* Frontend::alloc.  The stack of cached objects is tried first ...        *)
AllocCached(h) ==
    /\ pc[h] = "idle"
    /\ \E o \in cache[h] :
        /\ cache' = [cache EXCEPT ![h] = @ \ {o}]
        /\ live' = live \cup {o}
    /\ UNCHANGED <<header, pools, pc, ret, iter, tries, freeing>>

(* ... then the iterator.                                                  *)
BeginAlloc(h) ==
    /\ pc[h] = "idle"
    /\ cache[h] = {}
    /\ ret' = [ret EXCEPT ![h] = "iter"]
    /\ Goto(h, "iter")
    /\ UNCHANGED <<header, pools, live, iter, cache, tries, freeing>>

(* AllocIter::next returns the object of the lowest bit of cur_word.       *)
AllocNext(h) ==
    /\ pc[h] = "iter"
    /\ \E i \in cur_word[h] :
        /\ \A j \in cur_word[h] : i <= j
        /\ cur_word' = [cur_word EXCEPT ![h] = @ \ {i}]
        /\ live' = live \cup {<<slag[h], i>>}
    /\ ret' = [ret EXCEPT ![h] = "idle"]
    /\ tries' = [tries EXCEPT ![h] = 0]
    /\ Goto(h, "idle")
    /\ UNCHANGED <<header, pools, slag, cur_index, cache, freeing>>

IterExhausted(h) ==
    /\ pc[h] = "iter"
    /\ cur_word[h] = {}
    /\ cur_index[h] = LastWord
-----------------------------------------------------------------------------
\* Mutant: the claimed bit is ignored.
FreeTransitionClaimed(s) ==
    IF rc[s] = Cutoff - 1 THEN "Available"
    ELSE IF rc[s] = NObjects - 1 THEN "Full" ELSE "Null"

(* Slag::free: the transition decided by the value inc_n(1) returned.      *)
FreeTransition(s) ==
    IF s \in claimed THEN "Null"
    ELSE IF rc[s] = Cutoff - 1 THEN "Available"
    ELSE IF rc[s] = NObjects - 1 THEN "Full" ELSE "Null"

\* Mutant: the claimed bit is ignored.
BulkTransitionClaimed(s, n) ==
    IF rc[s] + n = NObjects THEN "Full"
    ELSE IF rc[s] < Cutoff /\ rc[s] + n >= Cutoff THEN "Available" ELSE "Null"

(* SlagAllocator::bulk_free: the transition decided by inc_n(n).           *)
BulkTransition(s, n) ==
    IF s \in claimed THEN "Null"
    ELSE IF rc[s] + n = NObjects THEN "Full"
    ELSE IF rc[s] < Cutoff /\ rc[s] + n >= Cutoff THEN "Available" ELSE "Null"

\* Mutant: a claimed slag is not counted.
IncNUnclaimed(h, s, m, tr) ==
    /\ rc' = IF s \in claimed THEN rc ELSE [rc EXCEPT ![s] = @ + Cardinality(m)]
    /\ tgt' = [tgt EXCEPT ![h] = s]
    /\ mask' = [mask EXCEPT ![h] = m]
    /\ trans' = [trans EXCEPT ![h] = tr]
    /\ Goto(h, "or")
    /\ UNCHANGED <<meta, claimed, bitset, pools, slag, cur_index, tries>>

(* RefCount::inc_n, the first step of every free to a slag.                *)
IncN(h, s, m, tr) ==
    /\ rc' = [rc EXCEPT ![s] = @ + Cardinality(m)]
    /\ tgt' = [tgt EXCEPT ![h] = s]
    /\ mask' = [mask EXCEPT ![h] = m]
    /\ trans' = [trans EXCEPT ![h] = tr]
    /\ Goto(h, "or")
    /\ UNCHANGED <<meta, claimed, bitset, pools, slag, cur_index, tries>>

(* The fetch_or on the bitset, after the count has been raised.            *)
FetchOr(h) ==
    /\ pc[h] = "or"
    /\ bitset' = [bitset EXCEPT ![tgt[h]] = @ \cup mask[h]]
    /\ mask' = [mask EXCEPT ![h] = {}]
    /\ trans' = [trans EXCEPT ![h] = "Null"]
    /\ Goto(h, IF trans[h] = "Available" THEN "push"
               ELSE IF trans[h] = "Full" THEN "revoke" ELSE ret[h])
    /\ UNCHANGED <<meta, claimed, rc, pools, live, ret, iter, cache, tries, tgt>>

(* transition_available.                                                   *)
PushAvailable(h) ==
    /\ pc[h] = "push"
    /\ available' = Put(available, tgt[h])
    /\ Goto(h, ret[h])
    /\ UNCHANGED <<header, pages, live, ret, iter, cache, tries, freeing>>

(* transition_full: revoke the slag from the available pool.  The revoke   *)
(* fails when the slag is not in the pool, and also when it was pushed     *)
(* into a new queue segment, which records no handle (queue.rs:585).       *)
Revoke(h) ==
    /\ pc[h] = "revoke"
    /\ available[tgt[h]] > 0
    /\ available' = Take(available, tgt[h])
    /\ Goto(h, "freepage")
    /\ UNCHANGED <<header, pages, live, ret, iter, cache, tries, freeing>>

RevokeFails(h) ==
    /\ pc[h] = "revoke"
    /\ Goto(h, ret[h])
    /\ UNCHANGED <<header, pools, live, ret, iter, cache, tries, freeing>>

(* PageAlloc::free: the page goes back with its contents (dirty), or       *)
(* uncommitted (clean), which zeroes its header.                           *)
FreePage(h) ==
    /\ pc[h] = "freepage"
    /\ pages' = Put(pages, tgt[h])
    /\ \/ UNCHANGED header
       \/ /\ Uncommits
          /\ meta' = [meta EXCEPT ![tgt[h]] = "null"]
          /\ claimed' = claimed \ {tgt[h]}
          /\ rc' = [rc EXCEPT ![tgt[h]] = 0]
          /\ bitset' = [bitset EXCEPT ![tgt[h]] = {}]
    /\ Goto(h, ret[h])
    /\ UNCHANGED <<available, live, ret, iter, cache, tries, freeing>>
-----------------------------------------------------------------------------
(* Drop of the cache: what is left of the current word goes back with one  *)
(* bulk_free, then every cached object with a free of its own ...          *)
DropWord(h) ==
    /\ pc[h] = "idle"
    /\ ret' = [ret EXCEPT ![h] = "drop"]
    /\ cur_word' = [cur_word EXCEPT ![h] = {}]
    /\ IF cur_word[h] = {}
       THEN /\ Goto(h, "drop")
            /\ UNCHANGED <<header, pools, slag, cur_index, tries, freeing>>
       ELSE IncN(h, slag[h], cur_word[h],
                 BulkTransition(slag[h], Cardinality(cur_word[h])))
    /\ UNCHANGED <<live, cache>>

DropCached(h) ==
    /\ pc[h] = "drop"
    /\ \E o \in cache[h] :
        /\ cache' = [cache EXCEPT ![h] = @ \ {o}]
        /\ IncN(h, o[1], {o[2]}, FreeTransition(o[1]))
    /\ UNCHANGED <<live, ret, cur_word>>

(* ... and last the Drop of SlagAllocator.  A handle has always refreshed  *)
(* once, so its slag is claimed.                                           *)
DropSlag(h) ==
    /\ pc[h] = "drop"
    /\ cache[h] = {}
    /\ claimed' = claimed \ {slag[h]}
    /\ ret' = [ret EXCEPT ![h] = "dead"]
    /\ tgt' = [tgt EXCEPT ![h] = slag[h]]
    /\ Goto(h, IF rc[slag[h]] = NObjects THEN "freepage"
               ELSE IF rc[slag[h]] >= Cutoff THEN "push" ELSE "dead")
    /\ UNCHANGED <<meta, rc, bitset, pools, live, iter, cache, tries, mask, trans>>
=============================================================================
