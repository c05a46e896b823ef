--------------------------- MODULE SlagProperties ---------------------------
(***************************************************************************)
(* What the slag allocator promises, whichever cache drives it.            *)
(***************************************************************************)
EXTENDS SlagAllocator

\* The types, with a count that may be any integer.
Types ==
    /\ meta \in [Slags -> {"null", "m"}]
    /\ claimed \in SUBSET Slags
    /\ rc \in [Slags -> Int]
    /\ bitset \in [Slags -> SUBSET Index]
    /\ available \in [Slags -> Int]
    /\ pages \in [Slags -> Int]
    /\ live \in SUBSET Objects
    /\ pc \in [Handles -> PCs]
    /\ ret \in [Handles -> {"idle", "iter", "spill", "drop", "dead"}]
    /\ slag \in [Handles -> Slags]
    /\ cur_word \in [Handles -> SUBSET Index]
    /\ cur_index \in [Handles -> 0 .. LastWord]
    /\ cache \in [Handles -> SUBSET Objects]
    /\ tries \in [Handles -> 0 .. 2]
    /\ tgt \in [Handles -> Slags]
    /\ mask \in [Handles -> SUBSET Index]
    /\ trans \in [Handles -> Transitions]

(* Every variable has its type, and a count stays between 0 and NObjects   *)
(* in every interleaving of inc_n and dec_n: it neither underflows (the    *)
(* debug assertion of RefCount::dec_n, slag.rs:505) nor grows beyond the   *)
(* objects of the slag.                                                    *)
TypeOK == Types /\ \A s \in Slags : rc[s] \in 0 .. NObjects

-----------------------------------------------------------------------------
(* Who holds a slag.                                                       *)

\* Handle h has set the claimed bit of its slag and not cleared it yet.
HasClaim(h) ==
    \/ pc[h] \in {"idle", "iter", "swap", "dec", "spill", "drop", "empty"}
    \/ pc[h] \in {"or", "push", "revoke", "freepage"} /\ ret[h] # "dead"

Claimant(h, s) == slag[h] = s /\ HasClaim(h)

\* s is the current slag of h, claimed or about to be claimed.
Owner(h, s) ==
    Claimant(h, s) \/ (slag[h] = s /\ pc[h] \in {"new", "reclaim", "claim"})

\* h alone is about to put s into one of the pools.
Carrier(h, s) ==
    /\ tgt[h] = s
    /\ pc[h] \in {"push", "freepage"} \/ (pc[h] = "or" /\ trans[h] = "Available")

Pooled(s) == available[s] + pages[s] > 0
Held(s) == Pooled(s) \/ \E h \in Handles : Owner(h, s) \/ Carrier(h, s)

(* A slag is in one pool at most, once, or with one handle that owns it or *)
(* one that is about to put it into a pool: the exclusive hand-over that   *)
(* the comment in refresh argues for (slag.rs:1136-1152), across every     *)
(* race of frees, refreshes, revokes and drops.                            *)
OneHolder ==
    \A s \in Slags :
        /\ available[s] + pages[s] <= 1
        /\ \A h \in Handles :
            /\ Pooled(s) => ~Owner(h, s) /\ ~Carrier(h, s)
            /\ \A k \in Handles :
                /\ Owner(h, s) /\ Owner(k, s) => h = k
                /\ Carrier(h, s) /\ Carrier(k, s) => h = k
                /\ ~(Owner(h, s) /\ Carrier(k, s))

(* The claimed bit is set exactly while some handle has the slag claimed,  *)
(* so the claims in refresh find it clear (the debug assertions at         *)
(* slag.rs:1155 and 1181).                                                 *)
ClaimedByOwner ==
    \A s \in Slags : s \in claimed <=> \E h \in Handles : Claimant(h, s)

(* A slag that is handed out again, or about to be, has Cutoff free        *)
(* objects at least.                                                       *)
HeldIsReusable ==
    \A s \in Slags :
        meta[s] = "m" /\ s \notin claimed /\ Held(s) => rc[s] >= Cutoff

(* "If a free operation increments the reference count above the cutoff,   *)
(* that thread pushes it to a BagPipe" (slag.rs:45-47): an unclaimed slag  *)
(* at the cutoff or above is in a pool or with a handle, never forgotten.  *)
NoSlagLost ==
    \A s \in Slags :
        meta[s] = "m" /\ s \notin claimed /\ rc[s] >= Cutoff => Held(s)
-----------------------------------------------------------------------------
(* Where an object is.                                                     *)

InFlight(h, s, i) == tgt[h] = s /\ i \in mask[h]
InWord(h, s, i) == slag[h] = s /\ i \in cur_word[h]
InCache(h, s, i) == <<s, i>> \in cache[h]
With(h, s, i) == InFlight(h, s, i) \/ InWord(h, s, i) \/ InCache(h, s, i)

\* Object i of slag s is in at most one place, and in none if and only if
\* the slag is not initialised.
InOnePlace(s, i) ==
    /\ meta[s] = "m" <=> \/ i \in bitset[s]
                         \/ <<s, i>> \in live
                         \/ \E h \in Handles : With(h, s, i)
    /\ ~(i \in bitset[s] /\ <<s, i>> \in live)
    /\ \A h \in Handles :
        /\ With(h, s, i) => i \notin bitset[s] /\ <<s, i>> \notin live
        /\ ~(InFlight(h, s, i) /\ InWord(h, s, i))
        /\ ~(InFlight(h, s, i) /\ InCache(h, s, i))
        /\ ~(InWord(h, s, i) /\ InCache(h, s, i))
        /\ \A k \in Handles : With(h, s, i) /\ With(k, s, i) => h = k

(* No object of a slag is ever in two places, so no allocation returns an  *)
(* object that is still in use; and none is in no place, so none is lost.  *)
(* The places are the bitset, the program, and with one handle its current *)
(* word, its cache and the free it has in progress.                        *)
OnePlace == \A s \in Slags : \A i \in Index : InOnePlace(s, i)

\* The objects that the count of s includes: those with a bit set, those of
\* a free between inc_n and fetch_or, those of an iterator between swap and
\* dec_n.
Counted(s) ==
    bitset[s] \cup {i \in Index : \E h \in Handles :
        InFlight(h, s, i) \/ (pc[h] = "dec" /\ InWord(h, s, i))}

(* The count is exactly the number of those objects.  Hence it is never    *)
(* below the number of bits set (the reason for inc_n before fetch_or,     *)
(* slag.rs:823-829), dec_n cannot underflow and inc_n cannot run into the  *)
(* claimed bit.                                                            *)
CountExact == \A s \in Slags : rc[s] = Cardinality(Counted(s))
-----------------------------------------------------------------------------
(* The count of an unclaimed slag never goes down, so one free at most     *)
(* takes it across the cutoff (slag.rs:1136-1140).                         *)
UnclaimedOnlyGrows == [][\A s \in Slags : s \notin claimed => rc'[s] >= rc[s]]_vars
-----------------------------------------------------------------------------
(* Every call to an allocator returns, unless it panics.                   *)
CallsReturn ==
    \A h \in Handles :
        pc[h] \notin {"none", "idle"} ~> pc[h] \in {"idle", "dead", "oom", "empty"}

(* A slag at its cutoff does get to where refresh looks for slags.         *)
ReusableIsFound ==
    \A s \in Slags :
        (s \notin claimed /\ rc[s] >= Cutoff) ~> (s \in claimed \/ Pooled(s))
-----------------------------------------------------------------------------
(* "This method assumes the reference count is at least n" (slag.rs:496,   *)
(* asserted at slag.rs:505): the count covers the word an iterator took,   *)
(* so that dec_n does not borrow from the claimed bit.                     *)
CountCoversWord ==
    \A h \in Handles : pc[h] = "dec" => rc[slag[h]] >= Cardinality(cur_word[h])

(* "An available Slag can be transitioned to a full Slag if it is present  *)
(* in the available BagPipe when it becomes completely full" and only then *)
(* becomes a page for reuse (slag.rs:53-57): a page in the pool has no     *)
(* object in use.                                                          *)
PooledPagesUnused ==
    \A s \in Slags : pages[s] > 0 => \A i \in Index : <<s, i>> \notin live
=============================================================================
