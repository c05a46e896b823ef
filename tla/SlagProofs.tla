----------------------------- MODULE SlagProofs -----------------------------
(***************************************************************************)
(* What a SlagAllocator with one of its two caches in front guarantees,    *)
(* for any number of handles, slags and objects.  First the steps that     *)
(* LocalCache and MagazineCache share, lemma by lemma for each part of the *)
(* inductive invariant; then LocalCache with the frees it does at once;    *)
(* then MagazineCache, with any size of its stack: return_memory, its      *)
(* batches and their place in the invariant.                               *)
(***************************************************************************)
EXTENDS LocalCache, MagazineCache, FiniteSetTheorems, TLAPS

\* The handles exist from the start and pages keep their contents.
Settled == Created = Handles /\ ~Uncommits

\* Refresh of an iterator that has run out, whichever round it is.
RefreshIter(h) ==
    /\ IterExhausted(h)
    /\ tries' \in [Handles -> 0 .. 2]
    /\ Unclaim(h)

\* The panic for a slag without objects.
Panics(h) ==
    /\ pc[h] = "iter"
    /\ Goto(h, "empty")
    /\ UNCHANGED <<header, pools, live, ret, iter, cache, tries, freeing>>

\* A free that puts the object on the stack of the cache.
CacheObject(h) ==
    /\ pc[h] = "idle"
    /\ \E o \in live :
        /\ live' = live \ {o}
        /\ cache' = [cache EXCEPT ![h] = @ \cup {o}]
    /\ UNCHANGED <<header, pools, pc, ret, iter, tries, freeing>>

\* The steps that do not depend on the cache.
SlagStep(h) ==
    \/ NewHandle(h)
    \/ AllocCached(h)
    \/ BeginAlloc(h)
    \/ CacheObject(h)
    \/ DropWord(h)
    \/ FirstRefresh(h)
    \/ RefreshIter(h)
    \/ PopAvailable(h)
    \/ AllocPage(h)
    \/ OutOfMemory(h)
    \/ Claim(h)
    \/ NewIter(h)
    \/ RefreshWord(h)
    \/ DecN(h)
    \/ AllocNext(h)
    \/ Panics(h)
    \/ FetchOr(h)
    \/ PushAvailable(h)
    \/ Revoke(h)
    \/ RevokeFails(h)
    \/ FreePage(h)
    \/ DropCached(h)
    \/ DropSlag(h)

\* The first step of a free of the objects m of slag s.
Gives(h, s, m, tr) ==
    /\ s \in Slags /\ m \in SUBSET Index /\ tr \in Transitions
    /\ pc[h] \in {"idle", "drop", "spill"}
    /\ IncN(h, s, m, tr)
    /\ UNCHANGED <<ret, cur_word>>

\* The count of s crosses the cutoff when n objects come back.
Crosses(s, n) == s \notin claimed /\ rc[s] < Cutoff /\ rc[s] + n >= Cutoff

\* What each point of the program implies for the local state of a handle.
Control ==
    \A h \in Handles :
        /\ mask[h] # {} \/ trans[h] # "Null" => pc[h] = "or"
        /\ cur_word[h] # {} =>
            \/ pc[h] \in {"idle", "iter", "dec", "spill", "empty"}
            \/ /\ pc[h] \in {"or", "push", "revoke", "freepage"}
               /\ ret[h] \in {"idle", "spill"}
        /\ pc[h] \in {"none", "new", "reclaim", "getslag", "claim", "swap", "dec"} =>
            ret[h] \in {"idle", "iter"} /\ cache[h] = {}
        /\ pc[h] = "idle" => ret[h] = "idle"
        /\ pc[h] = "iter" => ret[h] = "iter" /\ cache[h] = {}
        /\ pc[h] = "drop" => ret[h] = "drop"
        /\ pc[h] = "spill" => ret[h] = "spill"
        /\ pc[h] \in {"or", "revoke"} => ret[h] \in {"idle", "spill", "drop"}
        /\ pc[h] \in {"push", "freepage"} => ret[h] \in {"idle", "spill", "drop", "dead"}

\* A handle that has been created stays created.
AllCreated == \A h \in Handles : pc[h] # "none"

\* A page whose header names no size class is in the page pool.
NullIsPage == \A s \in Slags : meta[s] = "null" => pages[s] > 0

\* Who holds a slag, and what that says of its count.
Holding ==
    /\ \A s \in Slags : available[s] >= 0 /\ pages[s] >= 0
    /\ OneHolder
    /\ ClaimedByOwner
    /\ HeldIsReusable
    /\ NullIsPage

\* The hands that hold slags are the same before and after the step.
SameHolders ==
    /\ UNCHANGED <<meta, claimed, available, pages>>
    /\ \A k \in Handles, s \in Slags :
        /\ Owner(k, s)' <=> Owner(k, s)
        /\ Carrier(k, s)' <=> Carrier(k, s)
        /\ Claimant(k, s)' <=> Claimant(k, s)

\* Object i of slag s is in one place, where R are the handles that have it
\* outside the places that With names.
OneAt(s, i, R) ==
    /\ meta[s] = "m" <=> \/ i \in bitset[s]
                         \/ <<s, i>> \in live
                         \/ \E h \in Handles : With(h, s, i)
                         \/ R # {}
    /\ ~(i \in bitset[s] /\ <<s, i>> \in live)
    /\ R # {} => i \notin bitset[s] /\ <<s, i>> \notin live
    /\ \A h \in Handles :
        /\ With(h, s, i) => i \notin bitset[s] /\ <<s, i>> \notin live /\ R = {}
        /\ ~(InFlight(h, s, i) /\ InWord(h, s, i))
        /\ ~(InFlight(h, s, i) /\ InCache(h, s, i))
        /\ ~(InWord(h, s, i) /\ InCache(h, s, i))
        /\ \A k \in Handles : With(h, s, i) /\ With(k, s, i) => h = k

(* The objects of a slag (Metadata::n_objects) are finitely many, and so   *)
(* every set of them, a mask of the code, has a size (count_ones).         *)
LEMMA IndexFacts ==
    /\ IsFiniteSet(Index)
    /\ Cardinality(Index) = NObjects
    /\ LastWord \in Nat
    /\ \A S \in SUBSET Index : IsFiniteSet(S) /\ Cardinality(S) \in Nat
PROOF
<1>1. 0 \in Int /\ NObjects - 1 \in Int /\ NObjects \in Nat
  BY ConstantsAssumption
<1>2. IsFiniteSet(Index) /\ Cardinality(Index) = NObjects
  BY <1>1, FS_Interval, ConstantsAssumption DEF Index
<1>3. LastWord \in Nat
  BY ConstantsAssumption DEF LastWord, WordOf
<1>4. \A S \in SUBSET Index : IsFiniteSet(S) /\ Cardinality(S) \in Nat
  BY Zenon, <1>2, FS_Subset, FS_CardinalityType
<1> QED
  BY Zenon, <1>2, <1>3, <1>4

(* Disjoint masks add up, and taking a mask out of a word takes its size   *)
(* off.                                                                    *)
LEMMA MaskSizes ==
    ASSUME NEW A \in SUBSET Index, NEW B \in SUBSET Index
    PROVE  /\ A \cap B = {} => Cardinality(A \cup B) = Cardinality(A) + Cardinality(B)
           /\ B \subseteq A => Cardinality(A \ B) = Cardinality(A) - Cardinality(B)
PROOF
<1>1. \A S \in SUBSET Index : IsFiniteSet(S) /\ Cardinality(S) \in Nat
  BY Zenon, IndexFacts
<1>2. ASSUME NEW C \in SUBSET Index, NEW D \in SUBSET Index, C \cap D = {}
      PROVE  Cardinality(C \cup D) = Cardinality(C) + Cardinality(D)
  <2>1. Cardinality(C \cup D) = Cardinality(C) + Cardinality(D) - Cardinality(C \cap D)
    BY Zenon, <1>1, FS_Union
  <2>2. Cardinality(C \cap D) = 0
    BY Zenon, <1>2, FS_EmptySet
  <2>3. Cardinality(C) \in Nat /\ Cardinality(D) \in Nat
    BY Zenon, <1>1
  <2> QED
    BY <2>1, <2>2, <2>3
<1>3. ASSUME B \subseteq A PROVE Cardinality(A \ B) = Cardinality(A) - Cardinality(B)
  <2>1. (A \ B) \cup B = A /\ (A \ B) \cap B = {} /\ A \ B \in SUBSET Index
    BY Zenon, <1>3
  <2>2. Cardinality(A) = Cardinality(A \ B) + Cardinality(B)
    BY Zenon, <2>1, <1>2
  <2>3. Cardinality(A \ B) \in Nat /\ Cardinality(B) \in Nat
    BY Zenon, <2>1, <1>1
  <2> QED
    BY <2>2, <2>3
<1> QED
  BY Zenon, <1>2, <1>3

(* Every step that the caches have in common keeps the types of all        *)
(* variables, what the place of a handle in its operation says of its      *)
(* locals, and the handles in existence.                                   *)
LEMMA TypesStep ==
    ASSUME NEW h \in Handles, SlagStep(h), Types
    PROVE  Types' /\ (Control => Control') /\ (AllCreated => AllCreated')
PROOF
<1>1. Types'
  <2> USE DEF header, pools, iter, freeing, Goto, Put, Take
  <2>0. \A S \in SUBSET Index : Cardinality(S) \in Nat
    BY Zenon, IndexFacts
  <2>1. CASE NewHandle(h)
    BY <2>1, ConstantsAssumption DEF Types, NewHandle, InitHeader, PCs
  <2>2. CASE AllocCached(h)
    BY ZenonT(40), <2>2 DEF Types, AllocCached
  <2>3. CASE BeginAlloc(h)
    BY Zenon, <2>3 DEF Types, BeginAlloc, PCs
  <2>4. CASE CacheObject(h)
    BY <2>4 DEF Types, CacheObject
  <2>6. CASE DropWord(h)
    BY SMTT(30), <2>6, <2>0 DEF Types, DropWord, IncN, BulkTransition, Transitions, PCs
  <2>7. CASE FirstRefresh(h)
    BY Zenon, <2>7 DEF Types, FirstRefresh, Unclaim, PCs
  <2>8. CASE RefreshIter(h)
    BY Zenon, <2>8 DEF Types, RefreshIter, Unclaim, PCs
  <2>9. CASE PopAvailable(h)
    BY <2>9 DEF Types, PopAvailable, PCs
  <2>10. CASE AllocPage(h)
    BY <2>10, ConstantsAssumption DEF Types, AllocPage, InitHeader, PCs
  <2>11. CASE OutOfMemory(h)
    BY Zenon, <2>11 DEF Types, OutOfMemory, PCs
  <2>12. CASE Claim(h)
    BY Zenon, <2>12 DEF Types, Claim, PCs
  <2>13. CASE NewIter(h)
    BY <2>13, IndexFacts DEF Types, NewIter, SwapWord, PCs
  <2>14. CASE RefreshWord(h)
    BY <2>14, IndexFacts DEF Types, RefreshWord, SwapWord, PCs
  <2>15. CASE DecN(h)
    BY <2>15, <2>0 DEF Types, DecN, PCs
  <2>16. CASE AllocNext(h)
    BY <2>16 DEF Types, AllocNext, Objects, PCs
  <2>17. CASE Panics(h)
    BY Zenon, <2>17 DEF Types, Panics, PCs
  <2>18. CASE FetchOr(h)
    BY Zenon, <2>18 DEF Types, FetchOr, Transitions, PCs
  <2>19. CASE PushAvailable(h)
    BY <2>19 DEF Types, PushAvailable, PCs
  <2>20. CASE Revoke(h)
    BY <2>20 DEF Types, Revoke, PCs
  <2>21. CASE RevokeFails(h)
    BY Zenon, <2>21 DEF Types, RevokeFails, PCs
  <2>22. CASE FreePage(h)
    BY <2>22 DEF Types, FreePage, PCs
  <2>23. CASE DropCached(h)
    BY <2>23, <2>0 DEF Types, DropCached, IncN, FreeTransition, Transitions,
       Objects, PCs
  <2>24. CASE DropSlag(h)
    BY Zenon, <2>24 DEF Types, DropSlag, PCs
  <2> QED
    BY <2>1, <2>2, <2>3, <2>4, <2>6, <2>7, <2>8, <2>9, <2>10, <2>11, <2>12, <2>13,
       <2>14, <2>15, <2>16, <2>17, <2>18, <2>19, <2>20, <2>21, <2>22, <2>23, <2>24 DEF
       SlagStep
<1>2. ASSUME Control PROVE Control'
  <2> USE DEF header, pools, iter, freeing, Goto, Put, Take, Types
  <2>1. CASE NewHandle(h)
    BY <1>2, <2>1 DEF Control, NewHandle, InitHeader
  <2>2. CASE AllocCached(h)
    BY ZenonT(40), <1>2, <2>2 DEF Control, AllocCached
  <2>3. CASE BeginAlloc(h)
    BY ZenonT(40), <1>2, <2>3 DEF Control, BeginAlloc
  <2>4. CASE CacheObject(h)
    BY ZenonT(30), <1>2, <2>4 DEF Control, CacheObject
  <2>6. CASE DropWord(h)
    BY <1>2, <2>6 DEF Control, DropWord, IncN
  <2>7. CASE FirstRefresh(h)
    BY <1>2, <2>7 DEF Control, FirstRefresh, Unclaim
  <2>8. CASE RefreshIter(h)
    BY ZenonT(30), <1>2, <2>8 DEF Control, RefreshIter, Unclaim, IterExhausted
  <2>9. CASE PopAvailable(h)
    BY <1>2, <2>9 DEF Control, PopAvailable
  <2>10. CASE AllocPage(h)
    BY <1>2, <2>10 DEF Control, AllocPage, InitHeader
  <2>11. CASE OutOfMemory(h)
    BY ZenonT(30), <1>2, <2>11 DEF Control, OutOfMemory
  <2>12. CASE Claim(h)
    BY <1>2, <2>12 DEF Control, Claim
  <2>13. CASE NewIter(h)
    BY ZenonT(30), <1>2, <2>13 DEF Control, NewIter, SwapWord
  <2>14. CASE RefreshWord(h)
    BY ZenonT(30), <1>2, <2>14 DEF Control, RefreshWord, SwapWord
  <2>15. CASE DecN(h)
    BY <1>2, <2>15 DEF Control, DecN
  <2>16. CASE AllocNext(h)
    BY <1>2, <2>16 DEF Control, AllocNext
  <2>17. CASE Panics(h)
    BY <1>2, <2>17 DEF Control, Panics
  <2>18. CASE FetchOr(h)
    BY <1>2, <2>18 DEF Control, FetchOr
  <2>19. CASE PushAvailable(h)
    BY ZenonT(40), <1>2, <2>19 DEF Control, PushAvailable
  <2>20. CASE Revoke(h)
    BY ZenonT(40), <1>2, <2>20 DEF Control, Revoke
  <2>21. CASE RevokeFails(h)
    BY <1>2, <2>21 DEF Control, RevokeFails
  <2>22. CASE FreePage(h)
    BY <1>2, <2>22 DEF Control, FreePage
  <2>23. CASE DropCached(h)
    BY <1>2, <2>23 DEF Control, DropCached, IncN
  <2>24. CASE DropSlag(h)
    BY <1>2, <2>24 DEF Control, DropSlag
  <2> QED
    BY SMTT(30), <1>2, <2>1, <2>2, <2>3, <2>4, <2>6, <2>7, <2>8, <2>9, <2>10, <2>11, <2>12, <2>13,
       <2>14, <2>15, <2>16, <2>17, <2>18, <2>19, <2>20, <2>21, <2>22, <2>23, <2>24 DEF
       SlagStep
<1>3. ASSUME AllCreated PROVE AllCreated'
  <2> USE DEF Goto, Types, Control, AllCreated
  <2>1. CASE NewHandle(h)
    BY Zenon, <1>3, <2>1 DEF NewHandle, InitHeader
  <2>2. CASE AllocCached(h)
    BY Zenon, <1>3, <2>2 DEF AllocCached
  <2>3. CASE BeginAlloc(h)
    BY Zenon, <1>3, <2>3 DEF BeginAlloc
  <2>4. CASE CacheObject(h)
    BY Zenon, <1>3, <2>4 DEF CacheObject
  <2>6. CASE DropWord(h)
    BY <1>3, <2>6 DEF DropWord, IncN
  <2>7. CASE FirstRefresh(h)
    BY Zenon, <1>3, <2>7 DEF FirstRefresh, Unclaim
  <2>8. CASE RefreshIter(h)
    BY Zenon, <1>3, <2>8 DEF RefreshIter, Unclaim, IterExhausted
  <2>9. CASE PopAvailable(h)
    BY Zenon, <1>3, <2>9 DEF PopAvailable
  <2>10. CASE AllocPage(h)
    BY Zenon, <1>3, <2>10 DEF AllocPage, InitHeader
  <2>11. CASE OutOfMemory(h)
    BY Zenon, <1>3, <2>11 DEF OutOfMemory
  <2>12. CASE Claim(h)
    BY Zenon, <1>3, <2>12 DEF Claim
  <2>13. CASE NewIter(h)
    BY Zenon, <1>3, <2>13 DEF NewIter, SwapWord
  <2>14. CASE RefreshWord(h)
    BY Zenon, <1>3, <2>14 DEF RefreshWord, SwapWord
  <2>15. CASE DecN(h)
    BY Zenon, <1>3, <2>15 DEF DecN
  <2>16. CASE AllocNext(h)
    BY Zenon, <1>3, <2>16 DEF AllocNext
  <2>17. CASE Panics(h)
    BY Zenon, <1>3, <2>17 DEF Panics
  <2>18. CASE FetchOr(h)
    BY Zenon, <1>3, <2>18 DEF FetchOr
  <2>19. CASE PushAvailable(h)
    BY Zenon, <1>3, <2>19 DEF PushAvailable
  <2>20. CASE Revoke(h)
    BY Zenon, <1>3, <2>20 DEF Revoke
  <2>21. CASE RevokeFails(h)
    BY Zenon, <1>3, <2>21 DEF RevokeFails
  <2>22. CASE FreePage(h)
    BY Zenon, <1>3, <2>22 DEF FreePage
  <2>23. CASE DropCached(h)
    BY <1>3, <2>23 DEF DropCached, IncN
  <2>24. CASE DropSlag(h)
    BY Zenon, <1>3, <2>24 DEF DropSlag
  <2> QED
    BY ZenonT(30), <1>3, <2>1, <2>2, <2>3, <2>4, <2>6, <2>7, <2>8, <2>9, <2>10, <2>11, <2>12, <2>13,
       <2>14, <2>15, <2>16, <2>17, <2>18, <2>19, <2>20, <2>21, <2>22, <2>23, <2>24 DEF
       SlagStep
<1> QED
  BY Zenon, <1>1, <1>2, <1>3

(* The first step of a free keeps the types and the control invariant, if  *)
(* the object it takes comes from the program or from the cache of the     *)
(* handle.                                                                 *)
LEMMA GiveTypes ==
    ASSUME NEW h \in Handles, NEW s, NEW m, NEW tr, Gives(h, s, m, tr), Types,
           live' \in SUBSET Objects, cache' \in [Handles -> SUBSET Objects],
           \A k \in Handles : k # h => cache'[k] = cache[k]
    PROVE  Types' /\ (Control => Control') /\ (AllCreated => AllCreated')
PROOF
<1> USE DEF header, pools, iter, freeing, Goto, Gives, IncN
<1>1. Cardinality(m) \in Nat
  BY Zenon, IndexFacts
<1>2. Types'
  BY <1>1 DEF Types, PCs
<1>3. ASSUME Control PROVE Control'
  BY <1>3 DEF Types, Control
<1>4. ASSUME AllCreated PROVE AllCreated'
  BY <1>4 DEF Types, AllCreated
<1> QED
  BY Zenon, <1>2, <1>3, <1>4

(* A step that changes no holder and no count of an unclaimed slag keeps   *)
(* the invariant on holders.                                               *)
LEMMA QuietHolding ==
    ASSUME Types, Types', Holding, SameHolders,
           \A s \in Slags : s \notin claimed => rc'[s] = rc[s]
    PROVE  Holding' /\ (NoSlagLost => NoSlagLost')
PROOF
  BY DEF Types, Holding, OneHolder, ClaimedByOwner, HeldIsReusable, NoSlagLost,
         NullIsPage, Held, Pooled, SameHolders

(* Slag::free decides on the transition to an available slag exactly when  *)
(* the one object takes the count across the cutoff.                       *)
LEMMA SingleCrosses ==
    ASSUME Types, NEW s \in Slags, NEW i
    PROVE  FreeTransition(s) = "Available" <=> Crosses(s, Cardinality({i}))
PROOF
<1>1. Cardinality({i}) = 1
  BY Zenon, FS_Singleton
<1>2. rc[s] \in Int /\ (rc[s] = Cutoff - 1 <=> rc[s] < Cutoff /\ rc[s] + 1 >= Cutoff)
  BY ConstantsAssumption DEF Types
<1> QED
  BY Zenon, <1>1, <1>2 DEF FreeTransition, Crosses

(* A free keeps the invariant on who holds a slag if it takes the slag to  *)
(* the available pool only when it crosses the cutoff: nobody else holds   *)
(* the slag then.  If it does so whenever it crosses the cutoff, no slag   *)
(* is forgotten.                                                           *)
LEMMA GiveHolding ==
    ASSUME NEW h \in Handles, NEW x, NEW m, NEW tr, Gives(h, x, m, tr),
           Types, Types', Control, Holding, meta[x] = "m",
           tr = "Available" => Crosses(x, Cardinality(m))
    PROVE  /\ Holding'
           /\ (Crosses(x, Cardinality(m)) => tr = "Available") => (NoSlagLost => NoSlagLost')
PROOF
<1> USE DEF pools, Goto
<1>0. Cardinality(m) \in Nat
  BY Zenon, IndexFacts DEF Gives
<1>1. /\ x \in Slags
      /\ rc' = [rc EXCEPT ![x] = @ + Cardinality(m)]
      /\ UNCHANGED <<meta, claimed, available, pages>>
  BY Zenon DEF Gives, IncN
<1>2. \A k \in Handles, s \in Slags :
        /\ Carrier(k, s)' <=> Carrier(k, s) \/ (k = h /\ s = x /\ tr = "Available")
        /\ Claimant(k, s)' <=> Claimant(k, s)
        /\ Owner(k, s)' <=> Owner(k, s)
  BY DEF Types, Control, Carrier, Owner, Claimant, HasClaim, Gives, IncN
<1>3. tr = "Available" => x \notin claimed /\ ~Held(x) /\ rc'[x] >= Cutoff
  BY <1>0, <1>1, ConstantsAssumption DEF Types, Holding, HeldIsReusable, Crosses
<1>h. \A k \in Handles, s \in Slags :
        /\ Claimant(k, s) => Owner(k, s)
        /\ Owner(k, s) => s = slag[k]
        /\ Carrier(k, s) => s = tgt[k]
  BY Zenon DEF Owner, Claimant, Carrier
<1>90. OneHolder'
  BY <1>1, <1>2, <1>3 DEF Types, Holding, OneHolder, Held, Pooled
<1>91. ClaimedByOwner'
  BY Zenon, <1>1, <1>2 DEF Holding, ClaimedByOwner
<1>92. HeldIsReusable'
  BY <1>0, <1>1, <1>2, <1>3, ConstantsAssumption DEF Types, Holding, HeldIsReusable, Held,
     Pooled
<1>93. ASSUME Crosses(x, Cardinality(m)) => tr = "Available", NoSlagLost
       PROVE  NoSlagLost'
  BY <1>0, <1>1, <1>2, <1>93, ConstantsAssumption DEF Types, NoSlagLost, Held, Pooled,
     Crosses
<1>94. NullIsPage' /\ \A s \in Slags : available'[s] >= 0 /\ pages'[s] >= 0
  BY Zenon, <1>1 DEF Holding, NullIsPage
<1> QED
  BY Zenon, <1>90, <1>91, <1>92, <1>93, <1>94 DEF Holding

(* Every common step keeps the invariant on who holds a slag: refresh, the *)
(* transitions of a free, revoke and the drops hand slags over one at a    *)
(* time; and none of them forgets a slag at its cutoff.                    *)
LEMMA HoldingStep ==
    ASSUME NEW h \in Handles, SlagStep(h), Settled, Types, Control, AllCreated, Holding,
           \A o \in cache[h] : meta[o[1]] = "m"
    PROVE  Holding' /\ (NoSlagLost => NoSlagLost')
PROOF
<1> USE DEF header, pools, iter, freeing, Goto, Put, Take
<1>0. Types'
  BY Zenon, TypesStep
<1>h. \A k \in Handles, s \in Slags :
        /\ Claimant(k, s) => Owner(k, s)
        /\ Owner(k, s) => s = slag[k]
        /\ Carrier(k, s) => s = tgt[k]
  BY Zenon DEF Owner, Claimant, Carrier
<1>1. CASE AllocCached(h)
  <2>1. SameHolders
    BY ZenonT(40), <1>1 DEF Types, Control, SameHolders, Owner, Carrier, Claimant, HasClaim,
       AllocCached
  <2>2. \A s \in Slags : s \notin claimed => rc'[s] = rc[s]
    BY Zenon, <1>1 DEF Types, Holding, ClaimedByOwner, Claimant, HasClaim, AllocCached
  <2> QED
    BY Zenon, <1>0, <2>1, <2>2, QuietHolding
<1>2. CASE BeginAlloc(h)
  <2>1. SameHolders
    BY <1>2 DEF Types, Control, SameHolders, Owner, Carrier, Claimant, HasClaim,
       BeginAlloc
  <2>2. \A s \in Slags : s \notin claimed => rc'[s] = rc[s]
    BY Zenon, <1>2 DEF Types, Holding, ClaimedByOwner, Claimant, HasClaim, BeginAlloc
  <2> QED
    BY Zenon, <1>0, <2>1, <2>2, QuietHolding
<1>3. CASE CacheObject(h)
  <2>1. SameHolders
    BY <1>3 DEF Types, Control, SameHolders, Owner, Carrier, Claimant, HasClaim,
       CacheObject
  <2>2. \A s \in Slags : s \notin claimed => rc'[s] = rc[s]
    BY Zenon, <1>3 DEF Types, Holding, ClaimedByOwner, Claimant, HasClaim, CacheObject
  <2> QED
    BY Zenon, <1>0, <2>1, <2>2, QuietHolding
<1>4. CASE OutOfMemory(h)
  <2>1. SameHolders
    BY <1>4 DEF Types, Control, SameHolders, Owner, Carrier, Claimant, HasClaim,
       OutOfMemory
  <2>2. \A s \in Slags : s \notin claimed => rc'[s] = rc[s]
    BY Zenon, <1>4 DEF Types, Holding, ClaimedByOwner, Claimant, HasClaim, OutOfMemory
  <2> QED
    BY Zenon, <1>0, <2>1, <2>2, QuietHolding
<1>5. CASE NewIter(h)
  <2>1. SameHolders
    BY <1>5 DEF Types, Control, SameHolders, Owner, Carrier, Claimant, HasClaim,
       NewIter, SwapWord
  <2>2. \A s \in Slags : s \notin claimed => rc'[s] = rc[s]
    BY Zenon, <1>5 DEF Types, Holding, ClaimedByOwner, Claimant, HasClaim, NewIter, SwapWord
  <2> QED
    BY Zenon, <1>0, <2>1, <2>2, QuietHolding
<1>6. CASE RefreshWord(h)
  <2>1. SameHolders
    BY <1>6 DEF Types, Control, SameHolders, Owner, Carrier, Claimant, HasClaim,
       RefreshWord, SwapWord
  <2>2. \A s \in Slags : s \notin claimed => rc'[s] = rc[s]
    BY Zenon, <1>6 DEF Types, Holding, ClaimedByOwner, Claimant, HasClaim, RefreshWord,
       SwapWord
  <2> QED
    BY Zenon, <1>0, <2>1, <2>2, QuietHolding
<1>7. CASE DecN(h)
  <2>1. SameHolders
    BY <1>7 DEF Types, Control, SameHolders, Owner, Carrier, Claimant, HasClaim, DecN
  <2>2. \A s \in Slags : s \notin claimed => rc'[s] = rc[s]
    BY <1>7 DEF Types, Holding, ClaimedByOwner, Claimant, HasClaim, DecN
  <2> QED
    BY Zenon, <1>0, <2>1, <2>2, QuietHolding
<1>8. CASE AllocNext(h)
  <2>1. SameHolders
    BY <1>8 DEF Types, Control, SameHolders, Owner, Carrier, Claimant, HasClaim,
       AllocNext
  <2>2. \A s \in Slags : s \notin claimed => rc'[s] = rc[s]
    BY Zenon, <1>8 DEF Types, Holding, ClaimedByOwner, Claimant, HasClaim, AllocNext
  <2> QED
    BY Zenon, <1>0, <2>1, <2>2, QuietHolding
<1>9. CASE Panics(h)
  <2>1. SameHolders
    BY <1>9 DEF Types, Control, SameHolders, Owner, Carrier, Claimant, HasClaim,
       Panics
  <2>2. \A s \in Slags : s \notin claimed => rc'[s] = rc[s]
    BY Zenon, <1>9 DEF Types, Holding, ClaimedByOwner, Claimant, HasClaim, Panics
  <2> QED
    BY Zenon, <1>0, <2>1, <2>2, QuietHolding
<1>10. CASE FetchOr(h)
  <2>1. SameHolders
    BY <1>10 DEF Types, Control, SameHolders, Owner, Carrier, Claimant, HasClaim,
       FetchOr
  <2>2. \A s \in Slags : s \notin claimed => rc'[s] = rc[s]
    BY Zenon, <1>10 DEF Types, Holding, ClaimedByOwner, Claimant, HasClaim, FetchOr
  <2> QED
    BY Zenon, <1>0, <2>1, <2>2, QuietHolding
<1>11. CASE RevokeFails(h)
  <2>1. SameHolders
    BY <1>11 DEF Types, Control, SameHolders, Owner, Carrier, Claimant, HasClaim,
       RevokeFails
  <2>2. \A s \in Slags : s \notin claimed => rc'[s] = rc[s]
    BY Zenon, <1>11 DEF Types, Holding, ClaimedByOwner, Claimant, HasClaim, RevokeFails
  <2> QED
    BY Zenon, <1>0, <2>1, <2>2, QuietHolding
<1>12. CASE DropWord(h)
  <2>1. slag[h] \in claimed
    BY Zenon, <1>12 DEF Types, Holding, ClaimedByOwner, Claimant, HasClaim, DropWord
  <2>2. SameHolders
    BY <1>12, <2>1 DEF Types, Control, SameHolders, Owner, Carrier, Claimant, HasClaim,
                       DropWord, IncN, BulkTransition
  <2>3. \A s \in Slags : s \notin claimed => rc'[s] = rc[s]
    BY <1>12, <2>1 DEF Types, DropWord, IncN
  <2> QED
    BY Zenon, <1>0, <2>2, <2>3, QuietHolding
<1>13. CASE FirstRefresh(h) \/ RefreshIter(h)
  <2>1. /\ Owner(h, slag[h])
        /\ claimed' = claimed \ {slag[h]}
        /\ UNCHANGED <<meta, rc, available, pages>>
    BY Zenon, <1>13 DEF Owner, Claimant, HasClaim, FirstRefresh, RefreshIter, IterExhausted,
       Unclaim
  <2>2. \A k \in Handles, s \in Slags :
          /\ Carrier(k, s)' <=> Carrier(k, s)
          /\ Claimant(k, s)' <=> Claimant(k, s) /\ k # h
          /\ Owner(k, s)' <=> Owner(k, s) /\ (k = h => rc[slag[h]] >= Cutoff)
    BY <1>13 DEF Types, Carrier, Owner, Claimant, HasClaim, FirstRefresh, RefreshIter,
                 IterExhausted, Unclaim
  <2>90. OneHolder'
    BY ZenonT(40), <1>0, <2>1, <2>2, ConstantsAssumption DEF Types, Holding, OneHolder, Held, Pooled
  <2>91. ClaimedByOwner'
    BY <1>h, <1>0, <2>1, <2>2, ConstantsAssumption DEF Types, Holding, OneHolder,
       ClaimedByOwner
  <2>92. HeldIsReusable'
    BY <1>0, <2>1, <2>2, ConstantsAssumption DEF Types, Holding, OneHolder,
       HeldIsReusable, ClaimedByOwner, Held, Pooled
  <2>93. ASSUME NoSlagLost PROVE NoSlagLost'
    BY <2>93, <1>h, <1>0, <2>1, <2>2, ConstantsAssumption DEF Types, Holding, OneHolder,
       NoSlagLost, Held, Pooled
  <2>94. NullIsPage' /\ \A s \in Slags : available'[s] >= 0 /\ pages'[s] >= 0
    BY Zenon, <1>0, <2>1, <2>2, ConstantsAssumption DEF Types, Holding, OneHolder,
       NullIsPage, Pooled
  <2> QED
    BY Zenon, <2>90, <2>91, <2>92, <2>93, <2>94 DEF Holding
<1>14. CASE PopAvailable(h)
  <2>1. PICK t \in Slags : /\ available[t] > 0
                           /\ available' = [available EXCEPT ![t] = @ - 1]
                           /\ slag' = [slag EXCEPT ![h] = t]
    BY Zenon, <1>14 DEF PopAvailable
  <2>2. UNCHANGED <<meta, claimed, rc, pages>>
    BY Zenon, <1>14 DEF PopAvailable
  <2>3. \A k \in Handles, s \in Slags :
          /\ Carrier(k, s)' <=> Carrier(k, s)
          /\ Claimant(k, s)' <=> Claimant(k, s)
          /\ Owner(k, s)' <=> Owner(k, s) \/ (k = h /\ s = t)
    BY <1>14, <2>1 DEF Types, Carrier, Owner, Claimant, HasClaim, PopAvailable
  <2>91. Holding'
    BY <1>0, <2>1, <2>2, <2>3, ConstantsAssumption DEF Types, Holding, OneHolder,
       ClaimedByOwner, HeldIsReusable, NullIsPage, Held, Pooled
  <2>93. ASSUME NoSlagLost PROVE NoSlagLost'
    BY <2>93, <1>h, <1>0, <2>1, <2>2, <2>3, ConstantsAssumption DEF Types, Holding, OneHolder,
       NoSlagLost, Held, Pooled
  <2> QED
    BY Zenon, <2>91, <2>93
<1>15. CASE AllocPage(h)
  <2>1. PICK t \in Slags : /\ pages[t] > 0
                           /\ pages' = [pages EXCEPT ![t] = @ - 1]
                           /\ slag' = [slag EXCEPT ![h] = t]
                           /\ IF meta[t] = "m" THEN UNCHANGED header ELSE InitHeader(t)
    BY Zenon, <1>15 DEF AllocPage
  <2>2. t \notin claimed
    BY <2>1 DEF Types, Holding, OneHolder, ClaimedByOwner, Pooled, Owner
  <2>3. /\ UNCHANGED <<claimed, available>>
        /\ meta'[t] = "m" /\ rc'[t] >= Cutoff
        /\ \A s \in Slags : s # t => meta'[s] = meta[s] /\ rc'[s] = rc[s]
    <3>1. CASE meta[t] = "m"
      <4>1. Held(t)
        BY <2>1 DEF Types, Holding, Held, Pooled
      <4>2. rc[t] >= Cutoff
        BY ZenonT(30), <2>2, <3>1, <4>1 DEF Holding, HeldIsReusable
      <4> QED
        BY Zenon, <1>15, <2>1, <3>1, <4>2 DEF AllocPage
    <3>2. CASE meta[t] # "m"
      <4>1. InitHeader(t) /\ available' = available
        BY Zenon, <1>15, <2>1, <3>2 DEF AllocPage
      <4>2. claimed' = claimed
        BY Zenon, <2>2, <4>1 DEF InitHeader
      <4>3. meta'[t] = "m" /\ rc'[t] = NObjects
        BY Zenon, <4>1 DEF Types, InitHeader
      <4>4. \A s \in Slags : s # t => meta'[s] = meta[s] /\ rc'[s] = rc[s]
        BY Zenon, <4>1 DEF Types, InitHeader
      <4>5. rc'[t] >= Cutoff
        BY <4>3, ConstantsAssumption
      <4> QED
        BY Zenon, <4>1, <4>2, <4>3, <4>4, <4>5
    <3> QED
      BY Zenon, <3>1, <3>2
  <2>4. \A k \in Handles, s \in Slags :
          /\ Carrier(k, s)' <=> Carrier(k, s)
          /\ Claimant(k, s)' <=> Claimant(k, s)
          /\ Owner(k, s)' <=> Owner(k, s) \/ (k = h /\ s = t)
    BY <1>15, <2>1 DEF Types, Carrier, Owner, Claimant, HasClaim, AllocPage
  <2>91. Holding'
    BY <1>0, <2>1, <2>2, <2>3, <2>4, ConstantsAssumption DEF Types, Holding, OneHolder,
       ClaimedByOwner, HeldIsReusable, NullIsPage, Held, Pooled
  <2>93. ASSUME NoSlagLost PROVE NoSlagLost'
    BY <2>93, <1>h, <1>0, <2>1, <2>2, <2>3, <2>4, ConstantsAssumption DEF Types, Holding, OneHolder,
       NoSlagLost, Held, Pooled
  <2> QED
    BY Zenon, <2>91, <2>93
<1>16. CASE Claim(h)
  <2>1. /\ Owner(h, slag[h])
        /\ claimed' = claimed \cup {slag[h]}
        /\ UNCHANGED <<meta, rc, available, pages>>
    BY Zenon, <1>16 DEF Owner, Claimant, HasClaim, Claim
  <2>2. \A k \in Handles, s \in Slags :
          /\ Carrier(k, s)' <=> Carrier(k, s)
          /\ Claimant(k, s)' <=> Claimant(k, s) \/ (k = h /\ s = slag[h])
          /\ Owner(k, s)' <=> Owner(k, s)
    BY ZenonT(40), <1>16 DEF Types, Carrier, Owner, Claimant, HasClaim, Claim
  <2>91. Holding'
    BY <1>0, <2>1, <2>2 DEF Types, Holding, OneHolder,
       ClaimedByOwner, HeldIsReusable, NullIsPage, Held, Pooled
  <2>93. ASSUME NoSlagLost PROVE NoSlagLost'
    BY <2>93, <1>h, <1>0, <2>1, <2>2 DEF Types, Holding, OneHolder,
       NoSlagLost, Held, Pooled
  <2> QED
    BY Zenon, <2>91, <2>93
<1>17. CASE PushAvailable(h)
  <2>1. /\ Carrier(h, tgt[h])
        /\ available' = [available EXCEPT ![tgt[h]] = @ + 1]
        /\ UNCHANGED <<meta, claimed, rc, pages>>
    BY Zenon, <1>17 DEF Carrier, PushAvailable
  <2>2. \A k \in Handles, s \in Slags :
          /\ Carrier(k, s)' <=> Carrier(k, s) /\ k # h
          /\ Claimant(k, s)' <=> Claimant(k, s)
          /\ Owner(k, s)' <=> Owner(k, s)
    BY <1>17 DEF Types, Control, Carrier, Owner, Claimant, HasClaim, PushAvailable
  <2>90. OneHolder'
    BY <1>0, <2>1, <2>2, ConstantsAssumption DEF Types, Holding, OneHolder, Held, Pooled
  <2>91. ClaimedByOwner'
    BY ZenonT(30), <1>h, <1>0, <2>1, <2>2, ConstantsAssumption DEF Types, Holding, OneHolder,
       ClaimedByOwner
  <2>92. HeldIsReusable'
    BY SMTT(30), <1>0, <2>1, <2>2, ConstantsAssumption DEF Types, Holding, OneHolder,
       HeldIsReusable, ClaimedByOwner, Held, Pooled
  <2>93. ASSUME NoSlagLost PROVE NoSlagLost'
    BY SMTT(30), <2>93, <1>h, <1>0, <2>1, <2>2, ConstantsAssumption DEF Types, Holding, OneHolder,
       NoSlagLost, Held, Pooled
  <2>94. NullIsPage' /\ \A s \in Slags : available'[s] >= 0 /\ pages'[s] >= 0
    BY <1>0, <2>1, <2>2, ConstantsAssumption DEF Types, Holding, OneHolder,
       NullIsPage, Pooled
  <2> QED
    BY Zenon, <2>90, <2>91, <2>92, <2>93, <2>94 DEF Holding
<1>18. CASE FreePage(h)
  <2>1. /\ Carrier(h, tgt[h])
        /\ pages' = [pages EXCEPT ![tgt[h]] = @ + 1]
        /\ UNCHANGED <<meta, claimed, rc, available>>
    BY Zenon, <1>18 DEF Carrier, FreePage, Settled
  <2>2. \A k \in Handles, s \in Slags :
          /\ Carrier(k, s)' <=> Carrier(k, s) /\ k # h
          /\ Claimant(k, s)' <=> Claimant(k, s)
          /\ Owner(k, s)' <=> Owner(k, s)
    BY <1>18 DEF Types, Control, Carrier, Owner, Claimant, HasClaim, FreePage
  <2>90. OneHolder'
    BY <1>0, <2>1, <2>2, ConstantsAssumption DEF Types, Holding, OneHolder, Held, Pooled
  <2>91. ClaimedByOwner'
    BY ZenonT(30), <1>h, <1>0, <2>1, <2>2, ConstantsAssumption DEF Types, Holding, OneHolder,
       ClaimedByOwner
  <2>92. HeldIsReusable'
    BY <1>0, <2>1, <2>2, ConstantsAssumption DEF Types, Holding, OneHolder,
       HeldIsReusable, ClaimedByOwner, Held, Pooled
  <2>93. ASSUME NoSlagLost PROVE NoSlagLost'
    BY SMTT(30), <2>93, <1>h, <1>0, <2>1, <2>2, ConstantsAssumption DEF Types, Holding, OneHolder,
       NoSlagLost, Held, Pooled
  <2>94. NullIsPage' /\ \A s \in Slags : available'[s] >= 0 /\ pages'[s] >= 0
    BY <1>0, <2>1, <2>2, ConstantsAssumption DEF Types, Holding, OneHolder,
       NullIsPage, Pooled
  <2> QED
    BY Zenon, <2>90, <2>91, <2>92, <2>93, <2>94 DEF Holding
<1>19. CASE Revoke(h)
  <2>1. /\ available[tgt[h]] > 0
        /\ available' = [available EXCEPT ![tgt[h]] = @ - 1]
        /\ UNCHANGED <<meta, claimed, rc, pages>>
    BY Zenon, <1>19 DEF Revoke
  <2>2. \A k \in Handles, s \in Slags :
          /\ Carrier(k, s)' <=> Carrier(k, s) \/ (k = h /\ s = tgt[h])
          /\ Claimant(k, s)' <=> Claimant(k, s)
          /\ Owner(k, s)' <=> Owner(k, s)
    BY <1>19 DEF Types, Control, Carrier, Owner, Claimant, HasClaim, Revoke
  <2>90. OneHolder'
    BY <1>0, <2>1, <2>2 DEF Types, Holding, OneHolder, Pooled
  <2>91. ClaimedByOwner'
    BY Zenon, <2>1, <2>2 DEF Holding, ClaimedByOwner
  <2>92. HeldIsReusable'
    BY <1>0, <2>1, <2>2 DEF Types, Holding, HeldIsReusable, Held, Pooled
  <2>93. ASSUME NoSlagLost PROVE NoSlagLost'
    BY SMTT(30), <2>93, <1>h, <1>0, <2>1, <2>2 DEF Types, Holding, OneHolder,
       NoSlagLost, Held, Pooled
  <2>94. NullIsPage' /\ \A s \in Slags : available'[s] >= 0 /\ pages'[s] >= 0
    BY <1>0, <2>1, <2>2 DEF Types, Holding, OneHolder, NullIsPage, Pooled
  <2> QED
    BY Zenon, <2>90, <2>91, <2>92, <2>93, <2>94 DEF Holding
<1>20. CASE DropSlag(h)
  <2>1. /\ Owner(h, slag[h])
        /\ claimed' = claimed \ {slag[h]}
        /\ UNCHANGED <<meta, rc, available, pages>>
    BY ZenonT(30), <1>20 DEF Owner, Claimant, HasClaim, DropSlag
  <2>2. \A k \in Handles, s \in Slags :
          /\ Carrier(k, s)' <=>
               Carrier(k, s) \/ (k = h /\ s = slag[h] /\ rc[slag[h]] >= Cutoff)
          /\ Claimant(k, s)' <=> Claimant(k, s) /\ k # h
          /\ Owner(k, s)' <=> Owner(k, s) /\ k # h
    BY <1>20, ConstantsAssumption
       DEF Types, Control, Carrier, Owner, Claimant, HasClaim, DropSlag
  <2>90. OneHolder'
    BY SMTT(30), <1>0, <2>1, <2>2, ConstantsAssumption DEF Types, Holding, OneHolder, Held, Pooled
  <2>91. ClaimedByOwner'
    BY SMTT(30), <1>h, <1>0, <2>1, <2>2, ConstantsAssumption DEF Types, Holding, OneHolder,
       ClaimedByOwner
  <2>92. HeldIsReusable'
    BY SMTT(30), <1>0, <2>1, <2>2, ConstantsAssumption DEF Types, Holding, OneHolder,
       HeldIsReusable, ClaimedByOwner, Held, Pooled
  <2>93. ASSUME NoSlagLost PROVE NoSlagLost'
    BY <2>93, <1>h, <1>0, <2>1, <2>2, ConstantsAssumption DEF Types, Holding, OneHolder,
       NoSlagLost, Held, Pooled
  <2>94. NullIsPage' /\ \A s \in Slags : available'[s] >= 0 /\ pages'[s] >= 0
    BY Zenon, <1>0, <2>1, <2>2, ConstantsAssumption DEF Types, Holding, OneHolder,
       NullIsPage, Pooled
  <2> QED
    BY Zenon, <2>90, <2>91, <2>92, <2>93, <2>94 DEF Holding
<1>23. CASE DropCached(h)
  <2>1. PICK o \in cache[h] : IncN(h, o[1], {o[2]}, FreeTransition(o[1]))
    BY Zenon, <1>23 DEF DropCached
  <2>2. o[1] \in Slags /\ {o[2]} \in SUBSET Index
    BY DEF Types, Objects
  <2>3. Gives(h, o[1], {o[2]}, FreeTransition(o[1]))
    BY Zenon, <1>23, <2>1, <2>2 DEF DropCached, Gives, FreeTransition, Transitions
  <2>4. FreeTransition(o[1]) = "Available" <=> Crosses(o[1], Cardinality({o[2]}))
    BY Zenon, <2>2, SingleCrosses
  <2> QED
    BY Zenon, <1>0, <2>1, <2>2, <2>3, <2>4, GiveHolding
<1>24. CASE NewHandle(h)
  BY Zenon, <1>24 DEF AllCreated, NewHandle
<1> QED
  BY Zenon, <1>1, <1>2, <1>3, <1>4, <1>5, <1>6, <1>7, <1>8, <1>9, <1>10, <1>11, <1>12, <1>13,
     <1>14, <1>15, <1>16, <1>17, <1>18, <1>19, <1>20, <1>23, <1>24 DEF SlagStep

(* Every common step moves an object from one place to one other place,    *)
(* and only if it is in no place besides (R is empty).                     *)
LEMMA PlaceStep ==
    ASSUME NEW h \in Handles, SlagStep(h), NEW s \in Slags, NEW i \in Index, NEW R,
           Settled, Types, Control, AllCreated, OneAt(s, i, R)
    PROVE  OneAt(s, i, R)'
PROOF
<1> USE DEF header, pools, iter, freeing, Goto, Put, Take
<1>1. CASE NewHandle(h)
  BY ZenonT(40), <1>1 DEF Types, Control, Objects, OneAt, With, InFlight, InWord,
     InCache, NewHandle, InitHeader, AllCreated
<1>2. CASE AllocCached(h)
  <2>0. PICK o \in cache[h] : cache' = [cache EXCEPT ![h] = @ \ {o}] /\ live' = live \cup {o}
    BY Zenon, <1>2 DEF AllocCached
  <2>1. meta' = meta
    BY Zenon, <1>2, <2>0 DEF AllocCached
  <2>2. i \in bitset'[s] <=> i \in bitset[s]
    BY Zenon, <1>2, <2>0 DEF Types, Control, InFlight, AllocCached
  <2>3. <<s, i>> \in live' <=> <<s, i>> \in live \/ <<s, i>> = o
    BY Zenon, <1>2, <2>0 DEF Types, Objects, AllocCached
  <2>4. \A k \in Handles : InFlight(k, s, i)' <=> InFlight(k, s, i)
    BY Zenon, <1>2, <2>0 DEF Types, Control, Objects, InFlight, InWord, AllocCached
  <2>5. \A k \in Handles : InWord(k, s, i)' <=> InWord(k, s, i)
    BY Zenon, <1>2, <2>0 DEF Types, Control, InWord, AllocCached
  <2>6. \A k \in Handles : InCache(k, s, i)' <=> InCache(k, s, i) /\ ~(k = h /\ <<s, i>> = o)
    BY Zenon, <1>2, <2>0 DEF Types, InCache, AllocCached
  <2> QED
    BY ZenonT(30), <2>0, <2>1, <2>2, <2>3, <2>4, <2>5, <2>6 DEF OneAt, With, InCache
<1>3. CASE BeginAlloc(h)
  BY ZenonT(40), <1>3 DEF Types, Control, Objects, OneAt, With, InFlight, InWord,
     InCache, BeginAlloc
<1>4. CASE CacheObject(h)
  <2>0. PICK o \in live : cache' = [cache EXCEPT ![h] = @ \cup {o}] /\ live' = live \ {o}
    BY Zenon, <1>4 DEF CacheObject
  <2>1. meta' = meta
    BY Zenon, <1>4, <2>0 DEF CacheObject
  <2>2. i \in bitset'[s] <=> i \in bitset[s]
    BY Zenon, <1>4, <2>0 DEF Types, Control, InFlight, CacheObject
  <2>3. <<s, i>> \in live' <=> <<s, i>> \in live /\ <<s, i>> # o
    BY Zenon, <1>4, <2>0 DEF Types, Objects, CacheObject
  <2>4. \A k \in Handles : InFlight(k, s, i)' <=> InFlight(k, s, i)
    BY Zenon, <1>4, <2>0 DEF Types, Control, Objects, InFlight, InWord, CacheObject
  <2>5. \A k \in Handles : InWord(k, s, i)' <=> InWord(k, s, i)
    BY Zenon, <1>4, <2>0 DEF Types, Control, InWord, CacheObject
  <2>6. \A k \in Handles : InCache(k, s, i)' <=> InCache(k, s, i) \/ (k = h /\ <<s, i>> = o)
    BY Zenon, <1>4, <2>0 DEF Types, InCache, CacheObject
  <2> QED
    BY Zenon, <2>0, <2>1, <2>2, <2>3, <2>4, <2>5, <2>6 DEF OneAt, With
<1>6. CASE DropWord(h)
  <2>1. meta' = meta
    BY Zenon, <1>6 DEF DropWord, IncN
  <2>2. i \in bitset'[s] <=> i \in bitset[s]
    BY Zenon, <1>6 DEF Types, Control, InFlight, DropWord, IncN
  <2>3. <<s, i>> \in live' <=> <<s, i>> \in live
    BY Zenon, <1>6 DEF Types, Objects, DropWord, IncN
  <2>4. \A k \in Handles : InFlight(k, s, i)' <=> InFlight(k, s, i) \/ (k = h /\ InWord(h, s, i))
    BY <1>6 DEF Types, Control, Objects, InFlight, InWord, DropWord, IncN
  <2>5. \A k \in Handles : InWord(k, s, i)' <=> InWord(k, s, i) /\ k # h
    BY Zenon, <1>6 DEF Types, Control, InWord, DropWord, IncN
  <2>6. \A k \in Handles : InCache(k, s, i)' <=> InCache(k, s, i)
    BY Zenon, <1>6 DEF Types, InCache, DropWord, IncN
  <2> QED
    BY Zenon, <2>1, <2>2, <2>3, <2>4, <2>5, <2>6 DEF OneAt, With
<1>7. CASE FirstRefresh(h)
  BY ZenonT(40), <1>7 DEF Types, Control, Objects, OneAt, With, InFlight, InWord,
     InCache, FirstRefresh, Unclaim
<1>8. CASE RefreshIter(h)
  BY ZenonT(40), <1>8 DEF Types, Control, Objects, OneAt, With, InFlight, InWord,
     InCache, RefreshIter, Unclaim, IterExhausted
<1>9. CASE PopAvailable(h)
  <2>1. meta' = meta
    BY Zenon, <1>9 DEF PopAvailable
  <2>2. i \in bitset'[s] <=> i \in bitset[s]
    BY Zenon, <1>9 DEF Types, Control, InFlight, PopAvailable
  <2>3. <<s, i>> \in live' <=> <<s, i>> \in live
    BY Zenon, <1>9 DEF Types, Objects, PopAvailable
  <2>4. \A k \in Handles : InFlight(k, s, i)' <=> InFlight(k, s, i)
    BY Zenon, <1>9 DEF Types, Control, Objects, InFlight, InWord, PopAvailable
  <2>5. \A k \in Handles : InWord(k, s, i)' <=> InWord(k, s, i)
    BY Zenon, <1>9 DEF Types, Control, InWord, PopAvailable
  <2>6. \A k \in Handles : InCache(k, s, i)' <=> InCache(k, s, i)
    BY Zenon, <1>9 DEF Types, InCache, PopAvailable
  <2> QED
    BY Zenon, <2>1, <2>2, <2>3, <2>4, <2>5, <2>6 DEF OneAt, With
<1>10. CASE AllocPage(h)
  <2>0. PICK t \in Slags : /\ slag' = [slag EXCEPT ![h] = t]
                           /\ IF meta[t] = "m" THEN UNCHANGED header ELSE InitHeader(t)
    BY Zenon, <1>10 DEF AllocPage
  <2>1. <<s, i>> \in live' <=> <<s, i>> \in live
    BY Zenon, <1>10 DEF AllocPage
  <2>2. \A k \in Handles : InFlight(k, s, i)' <=> InFlight(k, s, i)
    BY Zenon, <1>10 DEF InFlight, AllocPage
  <2>3. \A k \in Handles : InWord(k, s, i)' <=> InWord(k, s, i)
    BY <1>10, <2>0 DEF Types, Control, InWord, AllocPage
  <2>6. \A k \in Handles : InCache(k, s, i)' <=> InCache(k, s, i)
    BY Zenon, <1>10 DEF InCache, AllocPage
  <2>4. CASE meta[t] = "m" \/ s # t
    <3>1. meta'[s] = meta[s] /\ bitset'[s] = bitset[s]
      BY <2>0, <2>4 DEF Types, InitHeader
    <3> QED
      BY Zenon, <2>1, <2>2, <2>3, <2>6, <3>1 DEF OneAt, With
  <2>5. CASE meta[t] # "m" /\ s = t
    <3>1. meta[s] # "m" /\ meta'[s] = "m" /\ i \in bitset'[s]
      BY Zenon, <2>0, <2>5 DEF Types, InitHeader
    <3> QED
      BY Zenon, <2>1, <2>2, <2>3, <2>6, <3>1 DEF OneAt, With
  <2> QED
    BY Zenon, <2>4, <2>5
<1>11. CASE OutOfMemory(h)
  BY ZenonT(40), <1>11 DEF Types, Control, Objects, OneAt, With, InFlight, InWord,
     InCache, OutOfMemory
<1>12. CASE Claim(h)
  BY ZenonT(40), <1>12 DEF Types, Control, Objects, OneAt, With, InFlight, InWord,
     InCache, Claim
<1>13. CASE NewIter(h)
  <2>1. meta' = meta
    BY Zenon, <1>13 DEF NewIter, SwapWord
  <2>2. i \in bitset'[s] <=> i \in bitset[s] /\ ~(s = slag[h] /\ WordOf(i) = 0)
    BY Zenon, <1>13 DEF Types, Control, InFlight, NewIter, SwapWord
  <2>3. <<s, i>> \in live' <=> <<s, i>> \in live
    BY Zenon, <1>13 DEF Types, Objects, NewIter, SwapWord
  <2>4. \A k \in Handles : InFlight(k, s, i)' <=> InFlight(k, s, i)
    BY Zenon, <1>13 DEF Types, Control, Objects, InFlight, InWord, NewIter, SwapWord
  <2>5. \A k \in Handles : InWord(k, s, i)' <=> InWord(k, s, i) \/ (k = h /\ s = slag[h] /\ i \in bitset[s] /\ WordOf(i) = 0)
    BY Zenon, <1>13 DEF Types, Control, InWord, NewIter, SwapWord
  <2>6. \A k \in Handles : InCache(k, s, i)' <=> InCache(k, s, i)
    BY Zenon, <1>13 DEF Types, InCache, NewIter, SwapWord
  <2> QED
    BY Zenon, <2>1, <2>2, <2>3, <2>4, <2>5, <2>6 DEF OneAt, With
<1>14. CASE RefreshWord(h)
  <2>1. meta' = meta
    BY Zenon, <1>14 DEF RefreshWord, SwapWord
  <2>2. i \in bitset'[s] <=> i \in bitset[s] /\ ~(s = slag[h] /\ WordOf(i) = cur_index[h] + 1)
    BY Zenon, <1>14 DEF Types, Control, InFlight, RefreshWord, SwapWord
  <2>3. <<s, i>> \in live' <=> <<s, i>> \in live
    BY Zenon, <1>14 DEF Types, Objects, RefreshWord, SwapWord
  <2>4. \A k \in Handles : InFlight(k, s, i)' <=> InFlight(k, s, i)
    BY Zenon, <1>14 DEF Types, Control, Objects, InFlight, InWord, RefreshWord, SwapWord
  <2>5. \A k \in Handles : InWord(k, s, i)' <=> InWord(k, s, i) \/ (k = h /\ s = slag[h] /\ i \in bitset[s] /\ WordOf(i) = cur_index[h] + 1)
    BY Zenon, <1>14 DEF Types, Control, InWord, RefreshWord, SwapWord
  <2>6. \A k \in Handles : InCache(k, s, i)' <=> InCache(k, s, i)
    BY Zenon, <1>14 DEF Types, InCache, RefreshWord, SwapWord
  <2> QED
    BY Zenon, <2>1, <2>2, <2>3, <2>4, <2>5, <2>6 DEF OneAt, With
<1>15. CASE DecN(h)
  BY ZenonT(40), <1>15 DEF Types, Control, Objects, OneAt, With, InFlight, InWord,
     InCache, DecN
<1>16. CASE AllocNext(h)
  <2>0. PICK j \in cur_word[h] : cur_word' = [cur_word EXCEPT ![h] = @ \ {j}] /\ live' = live \cup {<<slag[h], j>>}
    BY Zenon, <1>16 DEF AllocNext
  <2>1. meta' = meta
    BY Zenon, <1>16, <2>0 DEF AllocNext
  <2>2. i \in bitset'[s] <=> i \in bitset[s]
    BY Zenon, <1>16, <2>0 DEF Types, Control, InFlight, AllocNext
  <2>3. <<s, i>> \in live' <=> <<s, i>> \in live \/ (s = slag[h] /\ i = j)
    BY Zenon, <1>16, <2>0 DEF Types, Objects, AllocNext
  <2>4. \A k \in Handles : InFlight(k, s, i)' <=> InFlight(k, s, i)
    BY Zenon, <1>16, <2>0 DEF Types, Control, Objects, InFlight, InWord, AllocNext
  <2>5. \A k \in Handles : InWord(k, s, i)' <=> InWord(k, s, i) /\ ~(k = h /\ s = slag[h] /\ i = j)
    BY Zenon, <1>16, <2>0 DEF Types, Control, InWord, AllocNext
  <2>6. \A k \in Handles : InCache(k, s, i)' <=> InCache(k, s, i)
    BY Zenon, <1>16, <2>0 DEF Types, InCache, AllocNext
  <2> QED
    BY ZenonT(40), <2>0, <2>1, <2>2, <2>3, <2>4, <2>5, <2>6 DEF OneAt, With, InWord
<1>17. CASE Panics(h)
  BY ZenonT(40), <1>17 DEF Types, Control, Objects, OneAt, With, InFlight, InWord,
     InCache, Panics
<1>18. CASE FetchOr(h)
  <2>1. meta' = meta
    BY Zenon, <1>18 DEF FetchOr
  <2>2. i \in bitset'[s] <=> i \in bitset[s] \/ InFlight(h, s, i)
    BY Zenon, <1>18 DEF Types, Control, InFlight, FetchOr
  <2>3. <<s, i>> \in live' <=> <<s, i>> \in live
    BY Zenon, <1>18 DEF Types, Objects, FetchOr
  <2>4. \A k \in Handles : InFlight(k, s, i)' <=> InFlight(k, s, i) /\ k # h
    BY Zenon, <1>18 DEF Types, Control, Objects, InFlight, InWord, FetchOr
  <2>5. \A k \in Handles : InWord(k, s, i)' <=> InWord(k, s, i)
    BY Zenon, <1>18 DEF Types, Control, InWord, FetchOr
  <2>6. \A k \in Handles : InCache(k, s, i)' <=> InCache(k, s, i)
    BY Zenon, <1>18 DEF Types, InCache, FetchOr
  <2> QED
    BY Zenon, <2>1, <2>2, <2>3, <2>4, <2>5, <2>6 DEF OneAt, With
<1>19. CASE PushAvailable(h)
  BY ZenonT(40), <1>19 DEF Types, Control, Objects, OneAt, With, InFlight, InWord,
     InCache, PushAvailable
<1>20. CASE Revoke(h)
  BY ZenonT(40), <1>20 DEF Types, Control, Objects, OneAt, With, InFlight, InWord,
     InCache, Revoke
<1>21. CASE RevokeFails(h)
  BY ZenonT(40), <1>21 DEF Types, Control, Objects, OneAt, With, InFlight, InWord,
     InCache, RevokeFails
<1>22. CASE FreePage(h)
  BY ZenonT(40), <1>22 DEF Types, Control, Objects, OneAt, With, InFlight, InWord,
     InCache, FreePage, Settled
<1>23. CASE DropCached(h)
  <2>0. PICK o \in cache[h] : cache' = [cache EXCEPT ![h] = @ \ {o}] /\ IncN(h, o[1], {o[2]}, FreeTransition(o[1]))
    BY Zenon, <1>23 DEF DropCached
  <2>1. meta' = meta
    BY Zenon, <1>23, <2>0 DEF DropCached, IncN
  <2>2. i \in bitset'[s] <=> i \in bitset[s]
    BY Zenon, <1>23, <2>0 DEF Types, Control, InFlight, DropCached, IncN
  <2>3. <<s, i>> \in live' <=> <<s, i>> \in live
    BY Zenon, <1>23, <2>0 DEF Types, Objects, DropCached, IncN
  <2>4. \A k \in Handles : InFlight(k, s, i)' <=> InFlight(k, s, i) \/ (k = h /\ <<s, i>> = o)
    BY <1>23, <2>0 DEF Types, Control, Objects, InFlight, InWord, DropCached, IncN
  <2>5. \A k \in Handles : InWord(k, s, i)' <=> InWord(k, s, i)
    BY Zenon, <1>23, <2>0 DEF Types, Control, InWord, DropCached, IncN
  <2>6. \A k \in Handles : InCache(k, s, i)' <=> InCache(k, s, i) /\ ~(k = h /\ <<s, i>> = o)
    BY ZenonT(40), <1>23, <2>0 DEF Types, InCache, DropCached, IncN
  <2> QED
    BY ZenonT(40), <2>0, <2>1, <2>2, <2>3, <2>4, <2>5, <2>6 DEF OneAt, With, InCache
<1>24. CASE DropSlag(h)
  <2>1. meta' = meta
    BY Zenon, <1>24 DEF DropSlag
  <2>2. i \in bitset'[s] <=> i \in bitset[s]
    BY Zenon, <1>24 DEF Types, Control, InFlight, DropSlag
  <2>3. <<s, i>> \in live' <=> <<s, i>> \in live
    BY Zenon, <1>24 DEF Types, Objects, DropSlag
  <2>4. \A k \in Handles : InFlight(k, s, i)' <=> InFlight(k, s, i)
    BY Zenon, <1>24 DEF Types, Control, Objects, InFlight, InWord, DropSlag
  <2>5. \A k \in Handles : InWord(k, s, i)' <=> InWord(k, s, i)
    BY Zenon, <1>24 DEF Types, Control, InWord, DropSlag
  <2>6. \A k \in Handles : InCache(k, s, i)' <=> InCache(k, s, i)
    BY Zenon, <1>24 DEF Types, InCache, DropSlag
  <2> QED
    BY ZenonT(40), <2>1, <2>2, <2>3, <2>4, <2>5, <2>6 DEF OneAt, With
<1> QED
  BY Zenon, <1>1, <1>2, <1>3, <1>4, <1>6, <1>7, <1>8, <1>9, <1>10, <1>11, <1>12, <1>13,
     <1>14, <1>15, <1>16, <1>17, <1>18, <1>19, <1>20, <1>21, <1>22, <1>23, <1>24 DEF
     SlagStep

(* The first step of a free raises the count by the objects that it adds   *)
(* to the counted ones, if they were not counted before.                   *)
LEMMA GiveCount ==
    ASSUME NEW h \in Handles, NEW x, NEW m, NEW tr, Gives(h, x, m, tr),
           Types, Control, CountExact, m \cap Counted(x) = {}
    PROVE  CountExact'
PROOF
<1> USE DEF pools, Goto, Gives, IncN
<1> SUFFICES ASSUME NEW s \in Slags
             PROVE  rc'[s] = Cardinality(Counted(s)')
  BY Zenon DEF CountExact
<1>0. /\ rc[s] = Cardinality(Counted(s))
      /\ Counted(s) \in SUBSET Index
      /\ Counted(s)' = bitset'[s] \cup {i \in Index : \E k \in Handles :
                          InFlight(k, s, i)' \/ (pc'[k] = "dec" /\ InWord(k, s, i)')}
  BY Zenon DEF CountExact, Counted, Types
<1>1. mask[h] = {} /\ pc[h] # "dec" /\ x \in Slags /\ m \in SUBSET Index
  BY Zenon DEF Control
<1>2. CASE s # x
  <2>1. Counted(s)' = Counted(s)
    BY Zenon, <1>0, <1>1, <1>2 DEF Types, Counted, InFlight, InWord
  <2>2. rc'[s] = rc[s]
    BY Zenon, <1>1, <1>2 DEF Types
  <2> QED
    BY Zenon, <1>0, <2>1, <2>2
<1>3. CASE s = x
  <2>1. Counted(s)' = Counted(s) \cup m
    BY Zenon, <1>0, <1>1, <1>3 DEF Types, Counted, InFlight, InWord
  <2>2. rc'[s] = rc[s] + Cardinality(m)
    BY Zenon, <1>1, <1>3 DEF Types
  <2>3. Cardinality(Counted(s) \cup m) = Cardinality(Counted(s)) + Cardinality(m)
    BY Zenon, <1>0, <1>1, <1>3, MaskSizes
  <2> QED
    BY Zenon, <1>0, <2>1, <2>2, <2>3
<1> QED
  BY Zenon, <1>2, <1>3

(* Every common step changes the count by the number of objects by which   *)
(* the counted set changes: inc_n before fetch_or, swap before dec_n.      *)
LEMMA CountStep ==
    ASSUME NEW h \in Handles, SlagStep(h), Settled, Types, Control, AllCreated, CountExact,
           \A s \in Slags, i \in Index : \E R : OneAt(s, i, R)
    PROVE  CountExact'
PROOF
<1> USE DEF header, pools, iter, freeing, Goto, Put, Take
<1> SUFFICES ASSUME NEW s \in Slags
             PROVE  rc'[s] = Cardinality(Counted(s)')
  BY Zenon DEF CountExact
<1>0. /\ rc[s] = Cardinality(Counted(s))
      /\ Counted(s) \in SUBSET Index
      /\ Counted(s)' = bitset'[s] \cup {i \in Index : \E k \in Handles :
                          InFlight(k, s, i)' \/ (pc'[k] = "dec" /\ InWord(k, s, i)')}
  BY Zenon DEF CountExact, Counted, Types
<1>1. CASE NewHandle(h)
  <2>1. Counted(s)' = Counted(s)
    BY Zenon, <1>1, <1>0 DEF Types, Control, Counted, InFlight, InWord, NewHandle,
       InitHeader, AllCreated
  <2>2. rc'[s] = rc[s]
    BY Zenon, <1>1 DEF NewHandle, InitHeader, AllCreated
  <2> QED
    BY Zenon, <1>0, <2>1, <2>2
<1>2. CASE AllocCached(h)
  <2>1. Counted(s)' = Counted(s)
    BY Zenon, <1>2, <1>0 DEF Types, Control, Counted, InFlight, InWord, AllocCached
  <2>2. rc'[s] = rc[s]
    BY Zenon, <1>2 DEF AllocCached
  <2> QED
    BY Zenon, <1>0, <2>1, <2>2
<1>3. CASE BeginAlloc(h)
  <2>1. Counted(s)' = Counted(s)
    BY Zenon, <1>3, <1>0 DEF Types, Control, Counted, InFlight, InWord, BeginAlloc
  <2>2. rc'[s] = rc[s]
    BY Zenon, <1>3 DEF BeginAlloc
  <2> QED
    BY Zenon, <1>0, <2>1, <2>2
<1>4. CASE CacheObject(h)
  <2>1. Counted(s)' = Counted(s)
    BY Zenon, <1>4, <1>0 DEF Types, Control, Counted, InFlight, InWord, CacheObject
  <2>2. rc'[s] = rc[s]
    BY Zenon, <1>4 DEF CacheObject
  <2> QED
    BY Zenon, <1>0, <2>1, <2>2
<1>6. CASE DropWord(h)
  <2>0. mask[h] = {} /\ pc[h] = "idle" /\ slag[h] \in Slags /\ cur_word[h] \in SUBSET Index
    BY Zenon, <1>6 DEF Types, Control, DropWord
  <2>1. CASE cur_word[h] = {}
    <3>1. Counted(s)' = Counted(s) /\ rc' = rc
      BY ZenonT(30), <1>6, <1>0, <2>0, <2>1 DEF Types, Counted, InFlight, InWord, DropWord
    <3> QED
      BY Zenon, <1>0, <3>1
  <2>2. CASE cur_word[h] # {} /\ s # slag[h]
    <3>1. Counted(s)' = Counted(s)
      BY ZenonT(40), <1>6, <1>0, <2>0, <2>2 DEF Types, Counted, InFlight, InWord, DropWord, IncN
    <3>2. rc'[s] = rc[s]
      BY <1>6, <2>2 DEF Types, DropWord, IncN
    <3> QED
      BY Zenon, <1>0, <3>1, <3>2
  <2>3. CASE cur_word[h] # {} /\ s = slag[h]
    <3>1. Counted(s)' = Counted(s) \cup cur_word[h]
      BY <1>6, <1>0, <2>0, <2>3 DEF Types, Counted, InFlight, InWord, DropWord, IncN
    <3>2. Counted(s) \cap cur_word[h] = {}
      <4>1. SUFFICES ASSUME NEW i \in cur_word[h], i \in Counted(s) PROVE FALSE
        BY Zenon
      <4>2. i \in Index /\ InWord(h, s, i) /\ \E R : OneAt(s, i, R)
        BY Zenon, <2>0, <2>3, <4>1 DEF InWord
      <4> QED
        BY Zenon, <2>0, <4>1, <4>2 DEF Counted, OneAt, With
    <3>3. rc'[s] = rc[s] + Cardinality(cur_word[h])
      BY <1>6, <2>0, <2>3 DEF Types, DropWord, IncN
    <3>4. Cardinality(Counted(s) \cup cur_word[h]) = Cardinality(Counted(s)) + Cardinality(cur_word[h])
      BY Zenon, <1>0, <2>0, <3>2, MaskSizes
    <3> QED
      BY Zenon, <1>0, <3>1, <3>3, <3>4
  <2> QED
    BY Zenon, <2>1, <2>2, <2>3
<1>7. CASE FirstRefresh(h)
  <2>1. Counted(s)' = Counted(s)
    BY Zenon, <1>7, <1>0 DEF Types, Control, Counted, InFlight, InWord, FirstRefresh, Unclaim
  <2>2. rc'[s] = rc[s]
    BY Zenon, <1>7 DEF FirstRefresh, Unclaim
  <2> QED
    BY Zenon, <1>0, <2>1, <2>2
<1>8. CASE RefreshIter(h)
  <2>1. Counted(s)' = Counted(s)
    BY Zenon, <1>8, <1>0 DEF Types, Control, Counted, InFlight, InWord, RefreshIter, Unclaim,
       IterExhausted
  <2>2. rc'[s] = rc[s]
    BY Zenon, <1>8 DEF RefreshIter, Unclaim, IterExhausted
  <2> QED
    BY Zenon, <1>0, <2>1, <2>2
<1>9. CASE PopAvailable(h)
  <2>1. Counted(s)' = Counted(s)
    BY <1>9, <1>0 DEF Types, Control, Counted, InFlight, InWord, PopAvailable
  <2>2. rc'[s] = rc[s]
    BY Zenon, <1>9 DEF PopAvailable
  <2> QED
    BY Zenon, <1>0, <2>1, <2>2
<1>10. CASE AllocPage(h)
  <2>0. cur_word[h] = {} /\ pc'[h] # "dec"
    BY Zenon, <1>10 DEF Types, Control, AllocPage
  <2>1. PICK t \in Slags : /\ slag' = [slag EXCEPT ![h] = t]
                           /\ IF meta[t] = "m" THEN UNCHANGED header ELSE InitHeader(t)
    BY Zenon, <1>10 DEF AllocPage
  <2>2. CASE meta[t] = "m" \/ s # t
    <3>1. Counted(s)' = Counted(s)
      BY <1>10, <1>0, <2>0, <2>1, <2>2 DEF Types, Counted, InFlight, InWord,
         AllocPage, InitHeader
    <3>2. rc'[s] = rc[s]
      BY Zenon, <2>1, <2>2 DEF Types, InitHeader
    <3> QED
      BY Zenon, <1>0, <3>1, <3>2
  <2>3. CASE meta[t] # "m" /\ s = t
    <3>1. Counted(s)' = Index
      BY Zenon, <1>0, <2>1, <2>3 DEF Types, InitHeader
    <3>2. rc'[s] = NObjects
      BY Zenon, <2>1, <2>3 DEF Types, InitHeader
    <3> QED
      BY Zenon, <3>1, <3>2, IndexFacts
  <2> QED
    BY Zenon, <2>2, <2>3
<1>11. CASE OutOfMemory(h)
  <2>1. Counted(s)' = Counted(s)
    BY Zenon, <1>11, <1>0 DEF Types, Control, Counted, InFlight, InWord, OutOfMemory
  <2>2. rc'[s] = rc[s]
    BY Zenon, <1>11 DEF OutOfMemory
  <2> QED
    BY Zenon, <1>0, <2>1, <2>2
<1>12. CASE Claim(h)
  <2>1. Counted(s)' = Counted(s)
    BY Zenon, <1>12, <1>0 DEF Types, Control, Counted, InFlight, InWord, Claim
  <2>2. rc'[s] = rc[s]
    BY Zenon, <1>12 DEF Claim
  <2> QED
    BY Zenon, <1>0, <2>1, <2>2
<1>13. CASE NewIter(h)
  <2>1. Counted(s)' = Counted(s)
    BY <1>13, <1>0 DEF Types, Control, Counted, InFlight, InWord, NewIter, SwapWord
  <2>2. rc'[s] = rc[s]
    BY Zenon, <1>13 DEF NewIter, SwapWord
  <2> QED
    BY ZenonT(40), <1>0, <2>1, <2>2
<1>14. CASE RefreshWord(h)
  <2>1. Counted(s)' = Counted(s)
    BY Zenon, <1>14, <1>0 DEF Types, Control, Counted, InFlight, InWord, RefreshWord, SwapWord
  <2>2. rc'[s] = rc[s]
    BY Zenon, <1>14 DEF RefreshWord, SwapWord
  <2> QED
    BY Zenon, <1>0, <2>1, <2>2
<1>15. CASE DecN(h)
  <2>0. slag[h] \in Slags /\ cur_word[h] \in SUBSET Index /\ pc'[h] # "dec"
    BY Zenon, <1>15 DEF Types, Control, DecN
  <2>1. CASE s # slag[h]
    <3>1. Counted(s)' = Counted(s)
      BY Zenon, <1>15, <1>0, <2>0, <2>1 DEF Types, Counted, InFlight, InWord, DecN
    <3>2. rc'[s] = rc[s]
      BY Zenon, <1>15, <2>1 DEF Types, DecN
    <3> QED
      BY Zenon, <1>0, <3>1, <3>2
  <2>2. CASE s = slag[h]
    <3>1. cur_word[h] \subseteq Counted(s)
      BY Zenon, <1>15, <2>0, <2>2 DEF Counted, InWord, DecN
    <3>2. ASSUME NEW i \in Index
          PROVE  i \in Counted(s)' <=> i \in Counted(s) \ cur_word[h]
      <4>1. \E R : OneAt(s, i, R)
        BY Zenon
      <4>2. CASE i \in cur_word[h]
        <5>1. InWord(h, s, i)
          BY Zenon, <2>2, <4>2 DEF InWord
        <5>2. i \notin bitset[s] /\ \A k \in Handles :
                ~InFlight(k, s, i) /\ (InWord(k, s, i) => k = h)
          BY Zenon, <4>1, <5>1 DEF OneAt, With
        <5> QED
          BY Zenon, <1>15, <1>0, <2>0, <4>2, <5>2 DEF Types, InFlight, InWord, DecN
      <4>3. CASE i \notin cur_word[h]
        BY Zenon, <1>15, <1>0, <2>0, <2>2, <4>3 DEF Types, Counted, InFlight, InWord, DecN
      <4> QED
        BY Zenon, <4>2, <4>3
    <3>3. Counted(s)' \in SUBSET Index
      BY Zenon, <1>15, <1>0 DEF Types, DecN
    <3>4. Counted(s)' = Counted(s) \ cur_word[h]
      BY Zenon, <1>0, <3>2, <3>3
    <3>5. rc'[s] = rc[s] - Cardinality(cur_word[h])
      BY Zenon, <1>15, <2>0, <2>2 DEF Types, DecN
    <3>6. Cardinality(Counted(s) \ cur_word[h]) = Cardinality(Counted(s)) - Cardinality(cur_word[h])
      <4>1. cur_word[h] \in SUBSET Index /\ cur_word[h] \subseteq Counted(s)
        BY Zenon, <3>1, <1>0
      <4> QED
        BY Zenon, <4>1, <1>0, MaskSizes
    <3> QED
      BY Zenon, <1>0, <3>4, <3>5, <3>6
  <2> QED
    BY Zenon, <2>1, <2>2
<1>16. CASE AllocNext(h)
  <2>1. Counted(s)' = Counted(s)
    BY ZenonT(30), <1>16, <1>0 DEF Types, Control, Counted, InFlight, InWord, AllocNext
  <2>2. rc'[s] = rc[s]
    BY Zenon, <1>16 DEF AllocNext
  <2> QED
    BY ZenonT(30), <1>0, <2>1, <2>2
<1>17. CASE Panics(h)
  <2>1. Counted(s)' = Counted(s)
    BY Zenon, <1>17, <1>0 DEF Types, Control, Counted, InFlight, InWord, Panics
  <2>2. rc'[s] = rc[s]
    BY Zenon, <1>17 DEF Panics
  <2> QED
    BY Zenon, <1>0, <2>1, <2>2
<1>18. CASE FetchOr(h)
  <2>1. Counted(s)' = Counted(s)
    BY Zenon, <1>18, <1>0 DEF Types, Control, Counted, InFlight, InWord, FetchOr
  <2>2. rc'[s] = rc[s]
    BY Zenon, <1>18 DEF FetchOr
  <2> QED
    BY Zenon, <1>0, <2>1, <2>2
<1>19. CASE PushAvailable(h)
  <2>1. Counted(s)' = Counted(s)
    BY Zenon, <1>19, <1>0 DEF Types, Control, Counted, InFlight, InWord, PushAvailable
  <2>2. rc'[s] = rc[s]
    BY Zenon, <1>19 DEF PushAvailable
  <2> QED
    BY Zenon, <1>0, <2>1, <2>2
<1>20. CASE Revoke(h)
  <2>1. Counted(s)' = Counted(s)
    BY Zenon, <1>20, <1>0 DEF Types, Control, Counted, InFlight, InWord, Revoke
  <2>2. rc'[s] = rc[s]
    BY Zenon, <1>20 DEF Revoke
  <2> QED
    BY Zenon, <1>0, <2>1, <2>2
<1>21. CASE RevokeFails(h)
  <2>1. Counted(s)' = Counted(s)
    BY Zenon, <1>21, <1>0 DEF Types, Control, Counted, InFlight, InWord, RevokeFails
  <2>2. rc'[s] = rc[s]
    BY Zenon, <1>21 DEF RevokeFails
  <2> QED
    BY Zenon, <1>0, <2>1, <2>2
<1>22. CASE FreePage(h)
  <2>1. Counted(s)' = Counted(s)
    BY Zenon, <1>22, <1>0 DEF Types, Control, Counted, InFlight, InWord, FreePage, Settled
  <2>2. rc'[s] = rc[s]
    BY Zenon, <1>22 DEF FreePage, Settled
  <2> QED
    BY Zenon, <1>0, <2>1, <2>2
<1>23. CASE DropCached(h)
  <2>1. PICK o \in cache[h] : IncN(h, o[1], {o[2]}, FreeTransition(o[1]))
    BY Zenon, <1>23 DEF DropCached
  <2>2. o[1] \in Slags /\ o[2] \in Index /\ o = <<o[1], o[2]>>
    BY DEF Types, Objects
  <2>3. Gives(h, o[1], {o[2]}, FreeTransition(o[1]))
    BY Zenon, <1>23, <2>1, <2>2 DEF DropCached, Gives, FreeTransition, Transitions
  <2>4. InCache(h, o[1], o[2])
    BY Zenon, <2>2 DEF InCache
  <2>5. o[2] \notin Counted(o[1])
    <3>1. PICK R : OneAt(o[1], o[2], R)
      BY Zenon, <2>2
    <3> QED
      BY Zenon, <2>2, <2>4, <3>1 DEF Counted, OneAt, With
  <2>6. {o[2]} \cap Counted(o[1]) = {}
    BY Zenon, <2>5
  <2> QED
    BY Zenon, <2>2, <2>3, <2>6, GiveCount DEF CountExact
<1>24. CASE DropSlag(h)
  <2>1. Counted(s)' = Counted(s)
    BY Zenon, <1>24, <1>0 DEF Types, Control, Counted, InFlight, InWord, DropSlag
  <2>2. rc'[s] = rc[s]
    BY Zenon, <1>24 DEF DropSlag
  <2> QED
    BY Zenon, <1>0, <2>1, <2>2
<1> QED
  BY Zenon, <1>1, <1>2, <1>3, <1>4, <1>6, <1>7, <1>8, <1>9, <1>10, <1>11, <1>12, <1>13,
     <1>14, <1>15, <1>16, <1>17, <1>18, <1>19, <1>20, <1>21, <1>22, <1>23, <1>24 DEF
     SlagStep

(* An exact count lies between 0 and the number of objects of the slag.    *)
LEMMA CountBound ==
    ASSUME Types, CountExact
    PROVE  TypeOK
PROOF
<1>1. ASSUME NEW s \in Slags
      PROVE  rc[s] \in 0 .. NObjects
  <2>1. Counted(s) \in SUBSET Index /\ rc[s] = Cardinality(Counted(s))
    BY Zenon DEF CountExact, Counted, Types
  <2>2. Cardinality(Counted(s)) \in Nat /\ Cardinality(Counted(s)) <= NObjects
    BY Zenon, <2>1, IndexFacts, FS_Subset
  <2> QED
    BY <2>1, <2>2, ConstantsAssumption
<1> QED
  BY Zenon, <1>1 DEF TypeOK

(* Adding to the count of one slag, as inc_n does, lowers no count.        *)
LEMMA AddedCount ==
    ASSUME NEW s \in Slags, NEW x \in Slags, NEW n \in Nat,
           rc \in [Slags -> Int], rc' = [rc EXCEPT ![s] = @ + n]
    PROVE  rc'[x] >= rc[x]
  OBVIOUS

(* No common step lowers the count of an unclaimed slag: only dec_n lowers *)
(* a count, that of a slag its handle has claimed.                         *)
LEMMA GrowStep ==
    ASSUME NEW h \in Handles, SlagStep(h), Settled, TypeOK, Holding,
           NEW s \in Slags, s \notin claimed
    PROVE  rc'[s] >= rc[s]
PROOF
<1> USE DEF header, pools, iter, freeing
<1>0. Types /\ rc \in [Slags -> Int] /\ rc[s] \in 0 .. NObjects
  BY Zenon DEF TypeOK, Types
<1>a. ASSUME NEW x \in Slags, NEW n \in Nat, rc' = [rc EXCEPT ![x] = @ + n]
      PROVE  rc'[s] >= rc[s]
  BY <1>0, <1>a
<1>b. ASSUME NEW x, rc' = [rc EXCEPT ![x] = NObjects]
      PROVE  rc'[s] >= rc[s]
  BY <1>0, <1>b, ConstantsAssumption
<1>1. CASE AllocPage(h) \/ NewHandle(h)
  <2>1. rc' = rc \/ \E x \in Slags : rc' = [rc EXCEPT ![x] = NObjects]
    BY Zenon, <1>1 DEF AllocPage, NewHandle, InitHeader
  <2> QED
    BY <1>0, <1>b, <2>1
<1>2. CASE DecN(h)
  <2>1. slag[h] \in claimed
    BY ZenonT(30), <1>0, <1>2 DEF Types, Holding, ClaimedByOwner, Claimant, HasClaim, DecN
  <2>2. rc' = [rc EXCEPT ![slag[h]] = @ - Cardinality(cur_word[h])]
    BY Zenon, <1>2 DEF DecN
  <2>3. rc'[s] = rc[s]
    BY Zenon, <1>0, <2>1, <2>2
  <2> QED
    BY <1>0, <2>3
<1>4. CASE DropCached(h)
  <2>1. PICK o \in cache[h] : IncN(h, o[1], {o[2]}, FreeTransition(o[1]))
    BY Zenon, <1>4 DEF DropCached
  <2>2. o \in Objects
    BY Zenon, <1>0 DEF Types
  <2>3. o[1] \in Slags /\ Cardinality({o[2]}) = 1
    BY Zenon, <2>2, FS_Singleton DEF Objects
  <2>4. rc' = [rc EXCEPT ![o[1]] = @ + 1]
    BY Zenon, <2>1, <2>3 DEF IncN
  <2> QED
    BY Zenon, <1>a, <2>3, <2>4
<1>5. CASE DropWord(h)
  <2>1. slag[h] \in Slags /\ Cardinality(cur_word[h]) \in Nat
    BY Zenon, <1>0, IndexFacts DEF Types
  <2>2. rc' = rc \/ rc' = [rc EXCEPT ![slag[h]] = @ + Cardinality(cur_word[h])]
    BY Zenon, <1>5 DEF DropWord, IncN
  <2> QED
    BY <1>0, <1>a, <2>1, <2>2
<1>6. CASE FreePage(h)
  <2>1. rc' = rc
    BY Zenon, <1>6 DEF FreePage, Settled
  <2> QED
    BY <1>0, <2>1
<1>7. CASE UNCHANGED rc
  BY <1>0, <1>7
<1> QED
  BY Zenon, <1>1, <1>2, <1>4, <1>5, <1>6, <1>7 DEF SlagStep, AllocCached, BeginAlloc,
     CacheObject, FirstRefresh, RefreshIter, PopAvailable, OutOfMemory, Claim, NewIter,
     RefreshWord, AllocNext, Panics, FetchOr, PushAvailable, Revoke, RevokeFails, DropSlag,
     Unclaim, SwapWord

(* A step that changes no variable of the allocator keeps all of this.     *)
LEMMA QuietStep ==
    ASSUME UNCHANGED vars, Types, Control, AllCreated, Holding, CountExact
    PROVE  /\ Types' /\ Control' /\ AllCreated' /\ Holding' /\ CountExact'
           /\ NoSlagLost => NoSlagLost'
           /\ \A s \in Slags, i \in Index : \A R : OneAt(s, i, R) => OneAt(s, i, R)'
PROOF
<1>1. Types' /\ Control' /\ AllCreated'
  BY Zenon DEF vars, header, pools, iter, freeing, Types, Control, AllCreated
<1>2. \A k \in Handles, s \in Slags :
        /\ Owner(k, s)' <=> Owner(k, s)
        /\ Carrier(k, s)' <=> Carrier(k, s)
        /\ Claimant(k, s)' <=> Claimant(k, s)
  BY DEF vars, iter, freeing, Owner, Carrier, Claimant, HasClaim
<1>3. Holding' /\ (NoSlagLost => NoSlagLost')
  BY Zenon, <1>1, <1>2, QuietHolding DEF SameHolders, vars, header, pools
<1>4. CountExact'
  BY Zenon DEF vars, header, pools, iter, freeing, CountExact, Counted, InFlight, InWord
<1>5. ASSUME NEW s \in Slags, NEW i \in Index, NEW R, OneAt(s, i, R)
      PROVE  OneAt(s, i, R)'
  <2>1. \A k \in Handles :
          /\ InFlight(k, s, i)' <=> InFlight(k, s, i)
          /\ InWord(k, s, i)' <=> InWord(k, s, i)
          /\ InCache(k, s, i)' <=> InCache(k, s, i)
    BY Zenon DEF vars, iter, freeing, InFlight, InWord, InCache
  <2>2. meta' = meta /\ bitset' = bitset /\ live' = live
    BY Zenon DEF vars, header
  <2> QED
    BY Zenon, <1>5, <2>1, <2>2 DEF OneAt, With
<1> QED
  BY Zenon, <1>1, <1>3, <1>4, <1>5
-----------------------------------------------------------------------------
\* The inductive invariant.
IInv ==
    /\ Types
    /\ Control
    /\ AllCreated
    /\ CacheIsLocal
    /\ Holding
    /\ NoSlagLost
    /\ OnePlace
    /\ CountExact

(* A step of LocalCache is one of the common steps or a free of an object  *)
(* of another slag, and none puts an object of another slag on the stack   *)
(* of a handle.                                                            *)
LEMMA LocalStep ==
    ASSUME NEW h \in Handles, Call(h) \/ Step(h), Types, Control, CacheIsLocal
    PROVE  /\ SlagStep(h) \/ FreeRemote(h)
           /\ CacheIsLocal'
PROOF
<1>1. SlagStep(h) \/ FreeRemote(h)
  <2>1. ASSUME Refresh(h) PROVE RefreshIter(h)
    BY <2>1 DEF Refresh, RefreshIter, Types
  <2>2. EmptyIterator(h) => Panics(h)
    BY Zenon DEF EmptyIterator, Panics, IterExhausted
  <2>3. FreeLocal(h) => CacheObject(h)
    BY Zenon DEF FreeLocal, CacheObject
  <2> QED
    BY Zenon, <2>1, <2>2, <2>3 DEF Call, Step, SlagStep
<1>2. CacheIsLocal'
  <2> USE DEF iter, Goto, Types, Control, CacheIsLocal
  <2>1. CASE NewHandle(h)
    BY <2>1 DEF NewHandle, InitHeader
  <2>2. CASE AllocCached(h)
    BY <2>2 DEF AllocCached
  <2>3. CASE BeginAlloc(h)
    BY ZenonT(30), <2>3 DEF BeginAlloc
  <2>4. CASE FreeLocal(h)
    BY <2>4 DEF FreeLocal
  <2>5. CASE FreeRemote(h)
    BY SMTT(30), <2>5 DEF FreeRemote, IncN
  <2>6. CASE DropWord(h)
    BY <2>6 DEF DropWord, IncN
  <2>7. CASE FirstRefresh(h)
    BY Zenon, <2>7 DEF FirstRefresh, Unclaim
  <2>8. CASE Refresh(h)
    BY ZenonT(30), <2>8 DEF Refresh, Unclaim, IterExhausted
  <2>9. CASE PopAvailable(h)
    BY <2>9 DEF PopAvailable
  <2>10. CASE AllocPage(h)
    BY <2>10 DEF AllocPage, InitHeader
  <2>11. CASE OutOfMemory(h)
    BY Zenon, <2>11 DEF OutOfMemory
  <2>12. CASE Claim(h)
    BY Zenon, <2>12 DEF Claim
  <2>13. CASE NewIter(h)
    BY Zenon, <2>13 DEF NewIter, SwapWord
  <2>14. CASE RefreshWord(h)
    BY Zenon, <2>14 DEF RefreshWord, SwapWord
  <2>15. CASE DecN(h)
    BY Zenon, <2>15 DEF DecN
  <2>16. CASE AllocNext(h)
    BY Zenon, <2>16 DEF AllocNext
  <2>17. CASE EmptyIterator(h)
    BY Zenon, <2>17 DEF EmptyIterator, IterExhausted
  <2>18. CASE FetchOr(h)
    BY Zenon, <2>18 DEF FetchOr
  <2>19. CASE PushAvailable(h)
    BY Zenon, <2>19 DEF PushAvailable
  <2>20. CASE Revoke(h)
    BY Zenon, <2>20 DEF Revoke
  <2>21. CASE RevokeFails(h)
    BY Zenon, <2>21 DEF RevokeFails
  <2>22. CASE FreePage(h)
    BY ZenonT(30), <2>22 DEF FreePage
  <2>23. CASE DropCached(h)
    BY <2>23 DEF DropCached, IncN
  <2>24. CASE DropSlag(h)
    BY Zenon, <2>24 DEF DropSlag
  <2> QED
    BY ZenonT(30), <2>1, <2>2, <2>3, <2>4, <2>5, <2>6, <2>7, <2>8, <2>9, <2>10, <2>11, <2>12, <2>13,
       <2>14, <2>15, <2>16, <2>17, <2>18, <2>19, <2>20, <2>21, <2>22, <2>23, <2>24 DEF
       Call, Step
<1> QED
  BY Zenon, <1>1, <1>2

(* A free of an object of another slag keeps the invariant: the object     *)
(* moves from the program into the free, and the slag into the hands of    *)
(* the handle if the count crosses the cutoff.                             *)
LEMMA RemoteStep ==
    ASSUME NEW h \in Handles, FreeRemote(h), IInv
    PROVE  /\ Types' /\ Control' /\ AllCreated' /\ Holding' /\ NoSlagLost' /\ CountExact'
           /\ OnePlace'
           /\ \A s \in Slags : rc'[s] >= rc[s]
PROOF
<1>0. Types /\ Control /\ OnePlace
  BY Zenon DEF IInv
<1>1. PICK o \in live : live' = live \ {o} /\ IncN(h, o[1], {o[2]}, FreeTransition(o[1]))
  BY Zenon DEF FreeRemote
<1>2. o[1] \in Slags /\ o[2] \in Index /\ o = <<o[1], o[2]>> /\ {o[2]} \in SUBSET Index
  BY <1>0 DEF Types, Objects
<1>3. /\ Gives(h, o[1], {o[2]}, FreeTransition(o[1]))
      /\ pc[h] = "idle" /\ cache' = cache
  BY <1>1, <1>2 DEF FreeRemote, Gives, FreeTransition, Transitions
<1>4. InOnePlace(o[1], o[2]) /\ meta[o[1]] = "m"
  BY Zenon, <1>0, <1>2 DEF OnePlace, InOnePlace
<1>5. FreeTransition(o[1]) = "Available" <=> Crosses(o[1], Cardinality({o[2]}))
  BY Zenon, <1>0, <1>2, SingleCrosses
<1>6. Types' /\ Control' /\ AllCreated'
  <2>1. live' \in SUBSET Objects /\ cache' \in [Handles -> SUBSET Objects]
    BY Zenon, <1>0, <1>1, <1>3 DEF Types
  <2> QED
    BY Zenon, <1>3, <2>1, GiveTypes DEF IInv
<1>7. Holding' /\ NoSlagLost'
  BY Zenon, <1>3, <1>4, <1>5, <1>6, GiveHolding DEF IInv
<1>8. CountExact'
  <2>1. o[2] \notin Counted(o[1])
    BY Zenon, <1>2, <1>4 DEF Counted, InOnePlace, With
  <2>2. {o[2]} \cap Counted(o[1]) = {}
    BY Zenon, <2>1
  <2> QED
    BY Zenon, <1>3, <2>2, GiveCount DEF IInv
<1>9. ASSUME NEW s \in Slags, NEW i \in Index
      PROVE  InOnePlace(s, i)'
  <2> USE DEF pools, Goto
  <2>0. InOnePlace(s, i)
    BY Zenon, <1>0 DEF OnePlace
  <2>1. meta' = meta /\ bitset' = bitset
    BY Zenon, <1>1 DEF IncN
  <2>2. <<s, i>> \in live' <=> <<s, i>> \in live /\ <<s, i>> # o
    BY ZenonT(30), <1>1
  <2>3. \A k \in Handles : InFlight(k, s, i)' <=> InFlight(k, s, i) \/ (k = h /\ <<s, i>> = o)
    BY <1>0, <1>1, <1>3 DEF Types, Control, Objects, InFlight, IncN
  <2>4. \A k \in Handles : InWord(k, s, i)' <=> InWord(k, s, i)
    BY Zenon, <1>1, <1>3 DEF InWord, IncN, Gives
  <2>5. \A k \in Handles : InCache(k, s, i)' <=> InCache(k, s, i)
    BY Zenon, <1>3 DEF InCache
  <2> QED
    BY Zenon, <1>1, <2>0, <2>1, <2>2, <2>3, <2>4, <2>5 DEF InOnePlace, With
<1>10. ASSUME NEW s \in Slags
       PROVE  rc'[s] >= rc[s]
  <2>1. rc' = [rc EXCEPT ![o[1]] = @ + 1]
    BY Zenon, <1>1, FS_Singleton DEF IncN
  <2> QED
    BY <1>0, <1>2, <2>1 DEF Types
<1> QED
  BY Zenon, <1>6, <1>7, <1>8, <1>9, <1>10 DEF OnePlace

(* The inductive invariant holds in every state of LocalCache, if the      *)
(* handles exist from the start and pages keep their contents.             *)
THEOREM Invariance ==
    ASSUME Settled
    PROVE  Spec => []IInv
PROOF
<1>1. ASSUME Init PROVE IInv
  <2> USE <1>1
  <2>1. Types
    BY IndexFacts, ConstantsAssumption DEF Init, Types, PCs, Transitions, Settled
  <2>2. Control /\ AllCreated /\ CacheIsLocal
    BY Zenon DEF Init, Control, AllCreated, CacheIsLocal, Settled
  <2>3. \A s \in Slags : \A h \in Handles :
          /\ ~Carrier(h, s)
          /\ ~Claimant(h, s)
          /\ Owner(h, s) <=> slag[h] = s
    BY ZenonT(30) DEF Init, Carrier, Owner, Claimant, HasClaim, Settled
  <2>4. Holding /\ NoSlagLost
    BY SMTT(30), <2>3, ConstantsAssumption DEF Init, Holding, OneHolder, ClaimedByOwner,
       HeldIsReusable,
       NoSlagLost, NullIsPage, Held, Pooled, Settled
  <2>5. OnePlace
    BY DEF Init, OnePlace, InOnePlace, With, InFlight, InWord, InCache, Settled
  <2>6. CountExact
    <3>1. ASSUME NEW s \in Slags
          PROVE  rc[s] = Cardinality(Counted(s))
      <4>1. CASE \E h \in Handles : slag[h] = s
        <5>1. Counted(s) = Index /\ rc[s] = NObjects
          BY Zenon, <4>1 DEF Init, Counted, InFlight, InWord, Settled
        <5> QED
          BY Zenon, <5>1, IndexFacts
      <4>2. CASE ~\E h \in Handles : slag[h] = s
        <5>1. Counted(s) = {} /\ rc[s] = 0
          BY Zenon, <4>2 DEF Init, Counted, InFlight, InWord, Settled
        <5> QED
          BY Zenon, <5>1, FS_EmptySet
      <4> QED
        BY Zenon, <4>1, <4>2
    <3> QED
      BY Zenon, <3>1 DEF CountExact
  <2> QED
    BY Zenon, <2>1, <2>2, <2>4, <2>5, <2>6 DEF IInv
<1>a. \A s \in Slags, i \in Index : InOnePlace(s, i) <=> OneAt(s, i, {})
  <2> SUFFICES ASSUME NEW s \in Slags, NEW i \in Index
               PROVE  InOnePlace(s, i) <=> OneAt(s, i, {})
    BY Zenon
  <2>1. ASSUME InOnePlace(s, i) PROVE OneAt(s, i, {})
    BY Zenon, <2>1 DEF InOnePlace, OneAt
  <2>2. ASSUME OneAt(s, i, {}) PROVE InOnePlace(s, i)
    BY Zenon, <2>2 DEF InOnePlace, OneAt
  <2> QED BY Zenon, <2>1, <2>2
<1>b. \A s \in Slags, i \in Index : InOnePlace(s, i)' <=> OneAt(s, i, {})'
  <2> SUFFICES ASSUME NEW s \in Slags, NEW i \in Index
               PROVE  InOnePlace(s, i)' <=> OneAt(s, i, {})'
    BY Zenon
  <2>1. ASSUME InOnePlace(s, i)' PROVE OneAt(s, i, {})'
    BY Zenon, <2>1 DEF InOnePlace, OneAt
  <2>2. ASSUME OneAt(s, i, {})' PROVE InOnePlace(s, i)'
    BY Zenon, <2>2 DEF InOnePlace, OneAt
  <2> QED BY Zenon, <2>1, <2>2
<1>2. ASSUME IInv, [Next]_vars PROVE IInv'
  <2> USE <1>2
  <2>0. \A s \in Slags, i \in Index : OneAt(s, i, {})
    BY Zenon, <1>a DEF IInv, OnePlace
  <2>1. ASSUME NEW h \in Handles, Call(h) \/ Step(h)
        PROVE  IInv'
    <3>1. CacheIsLocal' /\ (SlagStep(h) \/ FreeRemote(h))
      BY Zenon, <2>1, LocalStep DEF IInv
    <3>2. CASE FreeRemote(h)
      BY Zenon, <3>1, <3>2, RemoteStep DEF IInv
    <3>3. CASE SlagStep(h)
      <4>1. Types' /\ Control' /\ AllCreated'
        BY Zenon, <3>3, TypesStep DEF IInv
      <4>2. \A o \in cache[h] : meta[o[1]] = "m"
        <5>1. ASSUME NEW o \in cache[h]
              PROVE  meta[o[1]] = "m"
          <6>1. o[1] \in Slags /\ o[2] \in Index /\ o = <<o[1], o[2]>>
            BY DEF IInv, Types, Objects
          <6>2. InCache(h, o[1], o[2])
            BY Zenon, <6>1 DEF InCache
          <6> QED
            BY ZenonT(30), <6>1, <6>2 DEF IInv, OnePlace, InOnePlace, With
        <5> QED
          BY Zenon, <5>1
      <4>3. Holding' /\ NoSlagLost'
        BY Zenon, <3>3, <4>2, HoldingStep DEF IInv
      <4>4. OnePlace'
        BY Zenon, <1>b, <2>0, <3>3, PlaceStep DEF IInv, OnePlace
      <4>5. CountExact'
        BY Zenon, <2>0, <3>3, CountStep DEF IInv
      <4> QED
        BY Zenon, <3>1, <4>1, <4>3, <4>4, <4>5 DEF IInv
    <3> QED
      BY Zenon, <3>1, <3>2, <3>3
  <2>2. CASE UNCHANGED vars
    <3>1. CacheIsLocal'
      BY Zenon, <2>2 DEF IInv, CacheIsLocal, vars, iter
    <3>2. OnePlace'
      BY Zenon, <1>b, <2>0, <2>2, QuietStep DEF IInv, OnePlace
    <3> QED
      BY Zenon, <2>2, <3>1, <3>2, QuietStep DEF IInv
  <2> QED
    BY Zenon, <2>1, <2>2 DEF Next
<1>3. (Init => IInv) /\ (IInv /\ [Next]_vars => IInv')
  BY Zenon, <1>1, <1>2
<1> QED
  BY <1>3, PTL DEF Spec

(* The counts and all other variables keep their types: RefCount::dec_n    *)
(* never underflows, RefCount::inc_n never exceeds the objects of a slag.  *)
THEOREM TypeCorrect ==
    ASSUME Settled
    PROVE  Spec => []TypeOK
PROOF
<1>1. IInv => TypeOK
  BY Zenon, CountBound DEF IInv
<1> QED
  BY <1>1, Invariance, PTL

(* A slag is handed over exclusively: it is never in two pools, nor in a   *)
(* pool and with a handle, nor with two handles, in any race of refresh,   *)
(* free, revoke and drop.                                                  *)
THEOREM ExclusiveHandOver ==
    ASSUME Settled
    PROVE  Spec => []OneHolder
PROOF
<1>1. IInv => OneHolder
  BY Zenon DEF IInv, Holding
<1> QED
  BY <1>1, Invariance, PTL

(* The claimed bit of a slag is set exactly while a handle owns it, so the *)
(* claims made by refresh always succeed.                                  *)
THEOREM ClaimBits ==
    ASSUME Settled
    PROVE  Spec => []ClaimedByOwner
PROOF
<1>1. IInv => ClaimedByOwner
  BY Zenon DEF IInv, Holding
<1> QED
  BY <1>1, Invariance, PTL

(* A slag that is popped from a pool has Cutoff free objects at least.     *)
THEOREM ReusableSlags ==
    ASSUME Settled
    PROVE  Spec => []HeldIsReusable
PROOF
<1>1. IInv => HeldIsReusable
  BY Zenon DEF IInv, Holding
<1> QED
  BY <1>1, Invariance, PTL

(* With LocalCache no slag that reaches the cutoff is forgotten by all     *)
(* handles and pools.                                                      *)
THEOREM NoLostSlags ==
    ASSUME Settled
    PROVE  Spec => []NoSlagLost
PROOF
<1>1. IInv => NoSlagLost
  BY Zenon DEF IInv
<1> QED
  BY <1>1, Invariance, PTL

(* An object is in one place at a time: no two allocations return the same *)
(* object without a free between them, and no object is lost.              *)
THEOREM NoDoubleAllocation ==
    ASSUME Settled
    PROVE  Spec => []OnePlace
PROOF
<1>1. IInv => OnePlace
  BY Zenon DEF IInv
<1> QED
  BY <1>1, Invariance, PTL

(* The reference count is exact, up to the frees and refreshes that are    *)
(* between their two atomic steps.                                         *)
THEOREM ExactCounts ==
    ASSUME Settled
    PROVE  Spec => []CountExact
PROOF
<1>1. IInv => CountExact
  BY Zenon DEF IInv
<1> QED
  BY <1>1, Invariance, PTL

(* The stack of a LocalCache holds objects of its current slag only.       *)
THEOREM LocalStacks ==
    ASSUME Settled
    PROVE  Spec => []CacheIsLocal
PROOF
<1>1. IInv => CacheIsLocal
  BY Zenon DEF IInv
<1> QED
  BY <1>1, Invariance, PTL

(* The count of an unclaimed slag never goes down, the premise of the      *)
(* argument in SlagAllocator::refresh.                                     *)
THEOREM MonotoneCounts ==
    ASSUME Settled
    PROVE  Spec => UnclaimedOnlyGrows
PROOF
<1>1. ASSUME IInv, [Next]_vars
      PROVE  [\A s \in Slags : s \notin claimed => rc'[s] >= rc[s]]_vars
  <2> SUFFICES ASSUME NEW h \in Handles, Call(h) \/ Step(h), NEW s \in Slags, s \notin claimed
               PROVE  rc'[s] >= rc[s]
    BY Zenon, <1>1 DEF Next
  <2>1. SlagStep(h) \/ FreeRemote(h)
    BY Zenon, <1>1, LocalStep DEF IInv
  <2>2. TypeOK /\ Holding
    BY Zenon, <1>1, CountBound DEF IInv
  <2> QED
    BY Zenon, <1>1, <2>1, <2>2, GrowStep, RemoteStep
<1> QED
  BY <1>1, Invariance, PTL DEF Spec, UnclaimedOnlyGrows
-----------------------------------------------------------------------------
\* The objects of h that return_memory has taken off the stack.
Batch(h) == collided[h] \cup coalesced[h]

\* The handles with object i of slag s in their batch.
Returning(s, i) == {h \in Handles : <<s, i>> \in Batch(h)}

\* Handle h is in return_memory, between two frees or inside one.
Returns(h) ==
    \/ pc[h] = "spill"
    \/ pc[h] \in {"or", "push", "revoke", "freepage"} /\ ret[h] = "spill"

\* Batches exist in return_memory only, and have no object twice.
Batches ==
    /\ collided \in [Handles -> SUBSET Objects]
    /\ coalesced \in [Handles -> SUBSET Objects]
    /\ \A h \in Handles :
        /\ Batch(h) # {} => Returns(h)
        /\ collided[h] \cap coalesced[h] = {}
        /\ \A k \in Handles : h # k => Batch(h) \cap Batch(k) = {}

\* Each object is in one place, its batch included.
Places == \A s \in Slags, i \in Index : OneAt(s, i, Returning(s, i))

\* The inductive invariant.
MagazineInv ==
    /\ Types
    /\ Control
    /\ AllCreated
    /\ Holding
    /\ CountExact
    /\ Batches
    /\ Places

(* A step of MagazineCache that leaves the batches alone is a common step, *)
(* and does not take a handle out of return_memory.                        *)
LEMMA CommonStep ==
    ASSUME NEW h \in Handles, MagazineCall(h) \/ MagazineStep(h), Types
    PROVE  \/ /\ SlagStep(h) /\ UNCHANGED returning
              /\ \A k \in Handles : Returns(k) => Returns(k)'
           \/ FreeFullStack(h) \/ ReturnCollided(h) \/ ReturnWord(h) \/ ReturnDone(h)
PROOF
<1>1. ASSUME MagazineRefresh(h) PROVE RefreshIter(h)
  BY <1>1 DEF MagazineRefresh, RefreshIter, Types
<1>2. EmptySlag(h) => Panics(h)
  BY Zenon DEF EmptySlag, Panics
<1>3. FreeCached(h) => CacheObject(h) /\ UNCHANGED returning
  BY Zenon DEF FreeCached, CacheObject
<1>4. IterNext(h) => AllocNext(h) \/ RefreshWord(h)
  BY Zenon DEF IterNext
<1>5. ASSUME SlagStep(h), NEW k \in Handles, Returns(k)
      PROVE  Returns(k)'
  <2> USE DEF header, pools, iter, freeing, Goto
  <2>1. CASE k # h
    <3>1. pc'[k] = pc[k] /\ ret'[k] = ret[k]
      <4> USE <1>5, <2>1 DEF Types
      <4>1. CASE NewHandle(h) \/ AllocCached(h) \/ BeginAlloc(h) \/ CacheObject(h)
        BY Zenon, <4>1 DEF NewHandle, AllocCached, BeginAlloc, CacheObject
      <4>2. CASE DropWord(h) \/ DropCached(h) \/ DropSlag(h)
        BY Zenon, <4>2 DEF DropWord, DropCached, DropSlag, IncN
      <4>3. CASE FirstRefresh(h) \/ RefreshIter(h) \/ PopAvailable(h) \/ AllocPage(h)
                 \/ OutOfMemory(h) \/ Claim(h)
        BY Zenon, <4>3 DEF FirstRefresh, RefreshIter, Unclaim, PopAvailable, AllocPage,
           OutOfMemory, Claim
      <4>4. CASE NewIter(h) \/ RefreshWord(h) \/ DecN(h) \/ AllocNext(h) \/ Panics(h)
        BY Zenon, <4>4 DEF NewIter, RefreshWord, SwapWord, DecN, AllocNext, Panics
      <4>5. CASE FetchOr(h) \/ PushAvailable(h) \/ Revoke(h) \/ RevokeFails(h) \/ FreePage(h)
        BY Zenon, <4>5 DEF FetchOr, PushAvailable, Revoke, RevokeFails, FreePage
      <4> QED
        BY Zenon, <4>1, <4>2, <4>3, <4>4, <4>5 DEF SlagStep
    <3> QED
      BY Zenon, <1>5, <3>1 DEF Returns
  <2>2. CASE k = h
    <3>1. pc[h] \in {"spill", "or", "push", "revoke", "freepage"} /\ (pc[h] # "spill" => ret[h] = "spill")
      BY ZenonT(30), <1>5, <2>2 DEF Returns
    <3>2. FetchOr(h) \/ PushAvailable(h) \/ Revoke(h) \/ RevokeFails(h) \/ FreePage(h)
      BY ZenonT(30), <1>5, <3>1 DEF SlagStep, NewHandle, AllocCached, BeginAlloc, CacheObject, DropWord,
         DropCached, DropSlag, FirstRefresh, RefreshIter, IterExhausted, PopAvailable, AllocPage,
         OutOfMemory, Claim, NewIter, RefreshWord, DecN, AllocNext, Panics
    <3>3. ret' = ret /\ pc[h] # "spill" /\ pc'[h] \in {"push", "revoke", "freepage", ret[h]}
      BY Zenon, <3>2 DEF FetchOr, PushAvailable, Revoke, RevokeFails, FreePage, Types
    <3> QED
      BY Zenon, <2>2, <3>1, <3>3 DEF Returns
  <2> QED
    BY Zenon, <2>1, <2>2
<1> QED
  BY Zenon, <1>1, <1>2, <1>3, <1>4, <1>5 DEF MagazineCall, MagazineStep, SlagStep

(* free with a full stack keeps the invariant: the object goes from the    *)
(* program to the stack, the upper half of the stack into the batch.       *)
LEMMA SpillStep ==
    ASSUME NEW h \in Handles, FreeFullStack(h), MagazineInv
    PROVE  MagazineInv' /\ rc' = rc
PROOF
<1> USE DEF header, pools, iter, freeing, Goto
<1>0. Types /\ Control /\ Batches /\ Places /\ pc[h] = "idle"
  BY Zenon DEF MagazineInv, FreeFullStack
<1>1. PICK o \in live, upper \in SUBSET cache[h], out \in SUBSET cache[h] :
        /\ out \subseteq upper
        /\ live' = live \ {o}
        /\ cache' = [cache EXCEPT ![h] = (@ \ upper) \cup {o}]
        /\ collided' = [collided EXCEPT ![h] = out]
        /\ coalesced' = [coalesced EXCEPT ![h] = upper \ out]
  BY Zenon DEF FreeFullStack
<1>2. /\ UNCHANGED <<meta, claimed, rc, bitset, available, pages, slag, cur_word, cur_index>>
      /\ UNCHANGED <<tries, tgt, mask, trans>>
      /\ ret' = [ret EXCEPT ![h] = "spill"] /\ pc' = [pc EXCEPT ![h] = "spill"]
  BY Zenon DEF FreeFullStack
<1>3. Batch(h) = {} /\ o \in Objects /\ upper \in SUBSET Objects
  BY Zenon, <1>0 DEF Batches, Returns, Types
<1>4. /\ Batch(h)' = upper
      /\ \A k \in Handles : k # h => Batch(k)' = Batch(k)
  BY <1>0, <1>1 DEF Batch, Batches
<1>5. Types'
  <2>1. cache' \in [Handles -> SUBSET Objects] /\ live' \in SUBSET Objects
    BY Zenon, <1>0, <1>1, <1>3 DEF Types
  <2>2. ret' \in [Handles -> {"idle", "iter", "spill", "drop", "dead"}] /\ pc' \in [Handles -> PCs]
    BY Zenon, <1>0, <1>2 DEF Types, PCs
  <2> QED
    BY Zenon, <1>0, <1>2, <2>1, <2>2 DEF Types
<1>6. Control' /\ AllCreated'
  BY ZenonT(30), <1>0, <1>1, <1>2 DEF MagazineInv, Types, Control, AllCreated
<1>7. Holding'
  <2>1. SameHolders
    BY <1>0, <1>2 DEF Types, SameHolders, Owner, Carrier, Claimant, HasClaim
  <2> QED
    BY Zenon, <1>0, <1>2, <1>5, <2>1, QuietHolding DEF MagazineInv
<1>8. CountExact'
  <2>1. \A k \in Handles : pc'[k] = "dec" <=> pc[k] = "dec"
    BY Zenon, <1>0, <1>2 DEF Types
  <2>2. \A s \in Slags : Counted(s)' = Counted(s)
    BY Zenon, <1>2, <2>1 DEF Counted, InFlight, InWord
  <2> QED
    BY Zenon, <1>2, <2>2 DEF MagazineInv, CountExact
<1>9. ASSUME NEW s \in Slags, NEW i \in Index
      PROVE  OneAt(s, i, Returning(s, i))'
  <2>0. OneAt(s, i, Returning(s, i))
    BY Zenon, <1>0 DEF Places
  <2>1. \A k \in Handles :
          /\ InFlight(k, s, i)' <=> InFlight(k, s, i)
          /\ InWord(k, s, i)' <=> InWord(k, s, i)
    BY Zenon, <1>2 DEF InFlight, InWord
  <2>2. \A k \in Handles : InCache(k, s, i)' <=>
          \/ InCache(k, s, i) /\ ~(k = h /\ <<s, i>> \in upper)
          \/ k = h /\ <<s, i>> = o
    BY Zenon, <1>0, <1>1 DEF InCache, Types
  <2>3. \A k \in Handles : k \in Returning(s, i)' <=>
          k \in Returning(s, i) \/ (k = h /\ <<s, i>> \in upper)
    BY Zenon, <1>3, <1>4 DEF Returning
  <2>4. <<s, i>> \in live' <=> <<s, i>> \in live /\ <<s, i>> # o
    BY Zenon, <1>1
  <2>5. <<s, i>> \in upper => InCache(h, s, i)
    BY Zenon, <1>1 DEF InCache
  <2>6. Returning(s, i) \subseteq Handles /\ Returning(s, i)' \subseteq Handles
    BY Zenon DEF Returning
  <2>7. CASE <<s, i>> = o
    <3>1. <<s, i>> \notin upper /\ Returning(s, i) = {} /\ \A k \in Handles : ~With(k, s, i)
      BY Zenon, <1>1, <2>0, <2>5, <2>7 DEF OneAt, With
    <3>2. Returning(s, i)' = {} 
      BY Zenon, <2>3, <2>6, <3>1
    <3> QED
      BY Zenon, <1>1, <1>2, <2>0, <2>1, <2>2, <2>4, <2>7, <3>1, <3>2 DEF OneAt, With
  <2>8. CASE <<s, i>> \in upper
    <3>1. /\ <<s, i>> # o /\ Returning(s, i) = {} /\ <<s, i>> \notin live /\ i \notin bitset[s]
          /\ meta[s] = "m"
          /\ \A k \in Handles : With(k, s, i) => k = h /\ ~InFlight(k, s, i) /\ ~InWord(k, s, i)
      BY Zenon, <1>1, <2>0, <2>5, <2>8 DEF OneAt, With
    <3>2. h \in Returning(s, i)' /\ \A k \in Handles : ~With(k, s, i)'
      BY Zenon, <2>1, <2>2, <2>3, <2>8, <3>1 DEF With
    <3> QED
      BY Zenon, <1>2, <2>1, <2>2, <2>4, <3>1, <3>2 DEF OneAt, With
  <2>9. CASE <<s, i>> # o /\ <<s, i>> \notin upper
    <3>1. Returning(s, i)' = Returning(s, i)
      BY Zenon, <2>3, <2>6, <2>9
    <3> QED
      BY Zenon, <1>2, <2>0, <2>1, <2>2, <2>4, <2>9, <3>1 DEF OneAt, With
  <2> QED
    BY Zenon, <2>7, <2>8, <2>9
<1>10. Batches'
  <2>1. collided' \in [Handles -> SUBSET Objects] /\ coalesced' \in [Handles -> SUBSET Objects]
    BY SMTT(30), <1>0, <1>1, <1>3 DEF Batches
  <2>2. ASSUME NEW k \in Handles
        PROVE  (Batch(k)' # {} => Returns(k)') /\ collided'[k] \cap coalesced'[k] = {}
    BY Zenon, <1>0, <1>1, <1>2, <1>4 DEF Batches, Returns, Types
  <2>3. ASSUME NEW k \in Handles, k # h
        PROVE  Batch(k) \cap upper = {}
    <3>1. SUFFICES ASSUME NEW p \in upper, p \in Batch(k) PROVE FALSE
      BY Zenon
    <3>2. p \in Objects
      BY Zenon, <1>3, <3>1
    <3>3. p[1] \in Slags /\ p[2] \in Index /\ p = <<p[1], p[2]>>
      BY <3>2 DEF Objects
    <3>4. InCache(h, p[1], p[2]) /\ k \in Returning(p[1], p[2])
      BY Zenon, <1>1, <2>3, <3>1, <3>3 DEF InCache, Returning
    <3> QED
      BY Zenon, <1>0, <3>3, <3>4 DEF Places, OneAt, With
  <2> QED
    BY ZenonT(30), <1>0, <1>4, <2>1, <2>2, <2>3 DEF Batches
<1> QED
  BY Zenon, <1>2, <1>5, <1>6, <1>7, <1>8, <1>9, <1>10 DEF MagazineInv, Places

(* A free of the objects m of slag s out of the batch of a handle keeps    *)
(* the invariant, whether it is the free of one object or the bulk_free of *)
(* a word.                                                                 *)
LEMMA ReturnStep ==
    ASSUME NEW h \in Handles, NEW s \in Slags, NEW m \in SUBSET Index, NEW tr \in Transitions,
           MagazineInv, pc[h] = "spill", IncN(h, s, m, tr), UNCHANGED <<live, ret, cur_word, cache>>,
           m # {}, {s} \X m \subseteq Batch(h),
           collided' \in [Handles -> SUBSET Objects], coalesced' \in [Handles -> SUBSET Objects],
           \A k \in Handles : collided'[k] \subseteq collided[k] /\ coalesced'[k] \subseteq coalesced[k],
           \A k \in Handles : Batch(k)' = IF k = h THEN Batch(h) \ ({s} \X m) ELSE Batch(k),
           tr = "Available" => Crosses(s, Cardinality(m))
    PROVE  MagazineInv' /\ \A x \in Slags : rc'[x] >= rc[x]
PROOF
<1> USE DEF pools, Goto
<1>0. Types /\ Control /\ Batches /\ Places /\ Cardinality(m) \in Nat
  BY Zenon, IndexFacts DEF MagazineInv
<1>1. Gives(h, s, m, tr)
  BY Zenon DEF Gives
<1>2. Types' /\ Control' /\ AllCreated'
  <2>1. live' \in SUBSET Objects /\ cache' \in [Handles -> SUBSET Objects]
    BY Zenon, <1>0 DEF Types
  <2> QED
    BY Zenon, <1>1, <2>1, GiveTypes DEF MagazineInv
<1>3. ASSUME NEW i \in m
      PROVE  /\ i \in Index /\ h \in Returning(s, i) /\ OneAt(s, i, Returning(s, i))
             /\ meta[s] = "m"
  <2>1. i \in Index /\ h \in Returning(s, i)
    BY Zenon DEF Returning
  <2> QED
    BY Zenon, <1>0, <2>1 DEF Places, OneAt
<1>4. Holding'
  BY Zenon, <1>1, <1>2, <1>3, GiveHolding DEF MagazineInv
<1>5. CountExact'
  <2>1. m \cap Counted(s) = {}
    BY Zenon, <1>3 DEF Counted, OneAt, With
  <2> QED
    BY Zenon, <1>1, <2>1, GiveCount DEF MagazineInv
<1>6. ASSUME NEW x \in Slags, NEW i \in Index
      PROVE  OneAt(x, i, Returning(x, i))'
  <2>0. OneAt(x, i, Returning(x, i))
    BY Zenon, <1>0 DEF Places
  <2>1. meta' = meta /\ bitset' = bitset
    BY Zenon DEF IncN
  <2>2. \A k \in Handles : InFlight(k, x, i)' <=> InFlight(k, x, i) \/ (k = h /\ x = s /\ i \in m)
    BY Zenon, <1>0 DEF Types, Control, InFlight, IncN
  <2>3. \A k \in Handles :
          /\ InWord(k, x, i)' <=> InWord(k, x, i)
          /\ InCache(k, x, i)' <=> InCache(k, x, i)
    BY Zenon DEF InWord, InCache, IncN
  <2>4. \A k \in Handles : k \in Returning(x, i)' <=>
          k \in Returning(x, i) /\ ~(k = h /\ x = s /\ i \in m)
    <3>1. <<x, i>> \in {s} \X m <=> x = s /\ i \in m
      BY Zenon
    <3>2. \A k \in Handles : <<x, i>> \in Batch(k)' <=> <<x, i>> \in Batch(k) /\ ~(k = h /\ <<x, i>> \in {s} \X m)
      BY Zenon
    <3> QED BY Zenon, <3>1, <3>2 DEF Returning
  <2>5. Returning(x, i) \subseteq Handles /\ Returning(x, i)' \subseteq Handles
    BY Zenon DEF Returning
  <2>6. CASE x = s /\ i \in m
    <3>1. h \in Returning(x, i) /\ \A k \in Handles : k \in Returning(x, i) => k = h
      BY Zenon, <1>0, <1>3, <2>6 DEF Returning, Batches
    <3>2. Returning(x, i)' = {}
      BY Zenon, <2>4, <2>5, <2>6, <3>1
    <3>3. /\ i \notin bitset[x] /\ <<x, i>> \notin live /\ meta[x] = "m"
          /\ \A k \in Handles : ~With(k, x, i)
      BY Zenon, <2>0, <3>1 DEF OneAt
    <3> QED
      BY Zenon, <2>1, <2>2, <2>3, <2>6, <3>2, <3>3 DEF OneAt, With
  <2>7. CASE ~(x = s /\ i \in m)
    <3>1. Returning(x, i)' = Returning(x, i)
      BY Zenon, <2>4, <2>5, <2>7
    <3> QED
      BY Zenon, <2>0, <2>1, <2>2, <2>3, <2>7, <3>1 DEF OneAt, With
  <2> QED
    BY Zenon, <2>6, <2>7
<1>7. Batches'
  <2>1. \A k \in Handles : Batch(k)' \subseteq Batch(k)
    BY ZenonT(30)
  <2>2. \A k \in Handles : Returns(k) => Returns(k)'
    BY ZenonT(30), <1>0 DEF Types, Control, Returns, IncN
  <2>3. ASSUME NEW k \in Handles
        PROVE  (Batch(k)' # {} => Returns(k)') /\ collided'[k] \cap coalesced'[k] = {}
    BY Zenon, <1>0, <2>1, <2>2 DEF Batches
  <2>4. ASSUME NEW k \in Handles, NEW l \in Handles, k # l
        PROVE  Batch(k)' \cap Batch(l)' = {}
    BY ZenonT(30), <1>0, <2>1, <2>4 DEF Batches
  <2> QED
    BY Zenon, <2>3, <2>4 DEF Batches
<1>8. ASSUME NEW x \in Slags
      PROVE  rc'[x] >= rc[x]
  <2>1. rc' = [rc EXCEPT ![s] = @ + Cardinality(m)]
    BY Zenon DEF IncN
  <2>2. rc \in [Slags -> Int] /\ Cardinality(m) \in Nat
    BY Zenon, <1>0 DEF Types
  <2> QED
    BY Zenon, <2>1, <2>2, AddedCount
<1> QED
  BY Zenon, <1>2, <1>4, <1>5, <1>6, <1>7, <1>8 DEF MagazineInv, Places

(* Every step of MagazineCache keeps the invariant, and none lowers the    *)
(* count of an unclaimed slag.                                             *)
LEMMA NextKeeps ==
    ASSUME NEW h \in Handles, MagazineCall(h) \/ MagazineStep(h), Settled, MagazineInv
    PROVE  MagazineInv' /\ \A s \in Slags : s \notin claimed => rc'[s] >= rc[s]
PROOF
<1>0. /\ Types /\ Control /\ AllCreated /\ Holding /\ CountExact /\ Batches /\ Places
      /\ rc \in [Slags -> Int]
  BY Zenon DEF MagazineInv, Types
<1>1. ASSUME SlagStep(h), UNCHANGED returning, \A k \in Handles : Returns(k) => Returns(k)'
      PROVE  MagazineInv' /\ \A s \in Slags : s \notin claimed => rc'[s] >= rc[s]
  <2>1. Types' /\ Control' /\ AllCreated'
    BY Zenon, <1>0, <1>1, TypesStep
  <2>2. \A o \in cache[h] : meta[o[1]] = "m"
    <3>1. ASSUME NEW o \in cache[h]
          PROVE  meta[o[1]] = "m"
      <4>1. o[1] \in Slags /\ o[2] \in Index /\ o = <<o[1], o[2]>>
        BY <1>0 DEF Types, Objects
      <4>2. InCache(h, o[1], o[2])
        BY Zenon, <4>1 DEF InCache
      <4> QED
        BY Zenon, <1>0, <4>1, <4>2 DEF Places, OneAt, With
    <3> QED
      BY Zenon, <3>1
  <2>3. Holding'
    BY Zenon, <1>0, <1>1, <2>2, HoldingStep
  <2>4. CountExact'
    BY Zenon, <1>0, <1>1, CountStep DEF Places
  <2>5. Places'
    <3>1. ASSUME NEW s \in Slags, NEW i \in Index
          PROVE  OneAt(s, i, Returning(s, i))'
      <4>1. PICK R : R = Returning(s, i)
        BY Zenon
      <4>2. OneAt(s, i, R)
        BY Zenon, <1>0, <4>1 DEF Places
      <4>3. OneAt(s, i, R)'
        BY Zenon, <1>0, <1>1, <4>2, PlaceStep
      <4>4. Returning(s, i)' = R
        BY Zenon, <1>1, <4>1 DEF Returning, Batch, returning
      <4> QED
        BY Zenon, <4>3, <4>4
    <3> QED
      BY Zenon, <3>1 DEF Places
  <2>6. Batches'
    BY Zenon, <1>0, <1>1 DEF Batches, Batch, returning
  <2>7. TypeOK
    BY Zenon, <1>0, CountBound
  <2>8. \A s \in Slags : s \notin claimed => rc'[s] >= rc[s]
    BY Zenon, <1>0, <1>1, <2>7, GrowStep
  <2> QED
    BY Zenon, <2>1, <2>3, <2>4, <2>5, <2>6, <2>8 DEF MagazineInv
<1>2. CASE FreeFullStack(h)
  <2>1. MagazineInv' /\ rc' = rc
    BY Zenon, <1>2, SpillStep
  <2> QED
    BY <1>0, <2>1
<1>3. CASE ReturnCollided(h)
  <2>1. PICK o \in collided[h] :
          /\ collided' = [collided EXCEPT ![h] = @ \ {o}]
          /\ IncN(h, o[1], {o[2]}, FreeTransition(o[1]))
    BY Zenon, <1>3 DEF ReturnCollided
  <2>2. o[1] \in Slags /\ o[2] \in Index /\ o = <<o[1], o[2]>> /\ {o[2]} \in SUBSET Index
    BY <1>0 DEF Batches, Objects
  <2>3. {o[1]} \X {o[2]} = {o}
    BY <2>2
  <2>4. FreeTransition(o[1]) \in Transitions /\ {o[2]} # {}
    BY Zenon DEF FreeTransition, Transitions
  <2>5. FreeTransition(o[1]) = "Available" => Crosses(o[1], Cardinality({o[2]}))
    BY Zenon, <1>0, <2>2, SingleCrosses
  <2>6. /\ collided' \in [Handles -> SUBSET Objects] /\ coalesced' = coalesced
        /\ \A k \in Handles : collided'[k] = IF k = h THEN collided[h] \ {o} ELSE collided[k]
    BY ZenonT(30), <1>0, <1>3, <2>1 DEF Batches, ReturnCollided
  <2>7. \A k \in Handles : Batch(k)' = IF k = h THEN Batch(h) \ {o} ELSE Batch(k)
    BY <1>0, <2>1, <2>6 DEF Batch, Batches
  <2>8. /\ {o[1]} \X {o[2]} \subseteq Batch(h) /\ coalesced' \in [Handles -> SUBSET Objects]
        /\ \A k \in Handles : collided'[k] \subseteq collided[k] /\ coalesced'[k] \subseteq coalesced[k]
        /\ \A k \in Handles : Batch(k)' = IF k = h THEN Batch(h) \ ({o[1]} \X {o[2]}) ELSE Batch(k)
    BY Zenon, <1>0, <2>1, <2>3, <2>6, <2>7 DEF Batch, Batches
  <2>9. pc[h] = "spill" /\ UNCHANGED <<live, ret, cur_word, cache>>
    BY Zenon, <1>3 DEF ReturnCollided
  <2> QED
    BY Zenon, <2>1, <2>2, <2>4, <2>5, <2>6, <2>8, <2>9, ReturnStep
<1>4. CASE ReturnWord(h)
  <2>1. PICK p \in coalesced[h] :
          LET group == {o \in coalesced[h] : WordOfObject(o) = WordOfObject(p)}
              m == {o[2] : o \in group} IN
          /\ coalesced' = [coalesced EXCEPT ![h] = @ \ group]
          /\ IncN(h, WordOfObject(p)[1], m, BulkTransition(WordOfObject(p)[1], Cardinality(m)))
    BY Zenon, <1>4 DEF ReturnWord
  <2> DEFINE group == {o \in coalesced[h] : WordOfObject(o) = WordOfObject(p)}
             m == {o[2] : o \in group}
             tr == BulkTransition(p[1], Cardinality(m))
  <2>2. \A o \in coalesced[h] : o[1] \in Slags /\ o[2] \in Index /\ o = <<o[1], o[2]>>
    BY <1>0 DEF Batches, Objects
  <2>3. WordOfObject(p)[1] = p[1] /\ \A o \in group : o[1] = p[1]
    BY DEF WordOfObject
  <2>4. {p[1]} \X m = group
    <3>1. ASSUME NEW q \in group PROVE q \in {p[1]} \X m
      BY <2>2, <2>3
    <3>2. ASSUME NEW q \in {p[1]} \X m PROVE q \in group
      <4>1. PICK o \in group : q[2] = o[2]
        BY <3>2
      <4>2. q[1] = p[1] /\ q = <<q[1], q[2]>>
        BY <3>2
      <4>3. o[1] = p[1] /\ o = <<o[1], o[2]>>
        BY Zenon, <2>2, <2>3
      <4> QED
        BY ZenonT(30), <4>1, <4>2, <4>3
    <3> QED
      BY Zenon, <3>1, <3>2
  <2>5. p[1] \in Slags /\ m \in SUBSET Index /\ m # {}
    BY Zenon, <2>2
  <2>6. coalesced' = [coalesced EXCEPT ![h] = @ \ group] /\ IncN(h, p[1], m, tr)
    BY Zenon, <2>1, <2>3
  <2> HIDE DEF group, m
  <2>7. tr \in Transitions /\ (tr = "Available" => Crosses(p[1], Cardinality(m)))
    BY Zenon DEF BulkTransition, Transitions, Crosses
  <2> HIDE DEF tr
  <2>8. /\ coalesced' \in [Handles -> SUBSET Objects] /\ collided' = collided /\ collided[h] = {}
        /\ \A k \in Handles : coalesced'[k] = IF k = h THEN coalesced[h] \ group ELSE coalesced[k]
    BY Zenon, <1>0, <1>4, <2>6 DEF Batches, ReturnWord
  <2>9. group \subseteq Batch(h)
    BY Zenon DEF group, Batch
  <2>10. \A k \in Handles : Batch(k)' = IF k = h THEN Batch(h) \ group ELSE Batch(k)
    BY <1>0, <2>8 DEF Batch, Batches
  <2>11. /\ {p[1]} \X m \subseteq Batch(h) /\ collided' \in [Handles -> SUBSET Objects]
         /\ \A k \in Handles : collided'[k] \subseteq collided[k] /\ coalesced'[k] \subseteq coalesced[k]
         /\ \A k \in Handles : Batch(k)' = IF k = h THEN Batch(h) \ ({p[1]} \X m) ELSE Batch(k)
    BY Zenon, <1>0, <2>4, <2>8, <2>9, <2>10 DEF Batches
  <2>12. pc[h] = "spill" /\ UNCHANGED <<live, ret, cur_word, cache>>
    BY Zenon, <1>4 DEF ReturnWord
  <2>13. PICK M \in SUBSET Index, T \in Transitions : M = m /\ T = tr
    BY Zenon, <2>5, <2>7
  <2>14. /\ M # {} /\ IncN(h, p[1], M, T) /\ {p[1]} \X M \subseteq Batch(h)
         /\ \A k \in Handles : Batch(k)' = IF k = h THEN Batch(h) \ ({p[1]} \X M) ELSE Batch(k)
         /\ T = "Available" => Crosses(p[1], Cardinality(M))
    BY Zenon, <2>5, <2>6, <2>7, <2>11, <2>13
  <2>15. /\ coalesced' \in [Handles -> SUBSET Objects] /\ collided' \in [Handles -> SUBSET Objects]
         /\ \A k \in Handles : collided'[k] \subseteq collided[k] /\ coalesced'[k] \subseteq coalesced[k]
         /\ p[1] \in Slags
    BY Zenon, <2>5, <2>8, <2>11
  <2> QED
    BY Zenon, <2>12, <2>14, <2>15, ReturnStep
<1>5. CASE ReturnDone(h)
  <2> USE DEF header, pools, iter, freeing, Goto
  <2>1. /\ UNCHANGED <<meta, claimed, rc, bitset, available, pages, live, slag, cur_word>>
        /\ UNCHANGED <<cur_index, cache, tries, tgt, mask, trans, collided, coalesced>>
        /\ pc[h] = "spill" /\ collided[h] = {} /\ coalesced[h] = {}
        /\ ret' = [ret EXCEPT ![h] = "idle"] /\ pc' = [pc EXCEPT ![h] = "idle"]
    BY ZenonT(30), <1>5 DEF ReturnDone, returning
  <2>2. Types'
    BY ZenonT(30), <1>0, <2>1 DEF Types, PCs
  <2>3. Control' /\ AllCreated'
    BY ZenonT(30), <1>0, <2>1 DEF Types, Control, AllCreated
  <2>4. SameHolders
    BY ZenonT(30), <1>0, <2>1 DEF Types, SameHolders, Owner, Carrier, Claimant, HasClaim
  <2>5. Holding'
    BY ZenonT(30), <1>0, <2>1, <2>2, <2>4, QuietHolding
  <2>6. \A k \in Handles : pc'[k] = "dec" <=> pc[k] = "dec"
    BY ZenonT(30), <1>0, <2>1 DEF Types
  <2>7. CountExact'
    BY ZenonT(30), <1>0, <2>1, <2>6 DEF CountExact, Counted, InFlight, InWord
  <2>8. Places'
    <3>1. ASSUME NEW s \in Slags, NEW i \in Index
          PROVE  OneAt(s, i, Returning(s, i))'
      <4>1. \A k \in Handles :
              /\ InFlight(k, s, i)' <=> InFlight(k, s, i)
              /\ InWord(k, s, i)' <=> InWord(k, s, i)
              /\ InCache(k, s, i)' <=> InCache(k, s, i)
        BY Zenon, <2>1 DEF InFlight, InWord, InCache
      <4>2. Returning(s, i)' = Returning(s, i)
        BY Zenon, <2>1 DEF Returning, Batch
      <4>3. OneAt(s, i, Returning(s, i))
        BY Zenon, <1>0 DEF Places
      <4> QED
        BY Zenon, <2>1, <4>1, <4>2, <4>3 DEF OneAt, With
    <3> QED
      BY Zenon, <3>1 DEF Places
  <2>9. \A k \in Handles : k # h => (Returns(k)' <=> Returns(k))
    BY ZenonT(30), <1>0, <2>1 DEF Returns, Types
  <2>10. Batches'
    BY Zenon, <1>0, <2>1, <2>9 DEF Batches, Batch
  <2>11. \A s \in Slags : rc'[s] >= rc[s]
    <3>1. rc' = rc /\ rc \in [Slags -> Int]
      BY Zenon, <1>0, <2>1
    <3> QED BY SMTT(30), <3>1
  <2> QED
    BY Zenon, <2>2, <2>3, <2>5, <2>7, <2>8, <2>10, <2>11 DEF MagazineInv
<1> QED
  BY Zenon, <1>0, <1>1, <1>2, <1>3, <1>4, <1>5, CommonStep

(* The inductive invariant holds in every state of MagazineCache, if the   *)
(* handles exist from the start and pages keep their contents.             *)
THEOREM MagazineInvariance ==
    ASSUME Settled
    PROVE  MagazineSpec => []MagazineInv
PROOF
<1>1. ASSUME MagazineInit PROVE MagazineInv
  <2> USE <1>1 DEF MagazineInit
  <2>1. Types
    BY IndexFacts, ConstantsAssumption DEF Init, Types, PCs, Transitions, Settled
  <2>2. Control /\ AllCreated
    BY Zenon DEF Init, Control, AllCreated, Settled
  <2>3. \A s \in Slags : \A h \in Handles :
          /\ ~Carrier(h, s)
          /\ ~Claimant(h, s)
          /\ Owner(h, s) <=> slag[h] = s
    BY ZenonT(30) DEF Init, Carrier, Owner, Claimant, HasClaim, Settled
  <2>4. Holding
    BY <2>3, ConstantsAssumption DEF Init, Holding, OneHolder, ClaimedByOwner,
       HeldIsReusable, NullIsPage, Held, Pooled, Settled
  <2>5. \A h \in Handles : Batch(h) = {}
    BY DEF Batch
  <2>6. Batches
    BY <2>5 DEF Batches
  <2>7. ASSUME NEW s \in Slags, NEW i \in Index
        PROVE  OneAt(s, i, Returning(s, i))
    <3>1. Returning(s, i) = {}
      BY Zenon, <2>5 DEF Returning
    <3>2. <<s, i>> \notin live /\ \A h \in Handles : ~With(h, s, i)
      BY Zenon DEF Init, With, InFlight, InWord, InCache
    <3>3. meta[s] = "m" <=> i \in bitset[s]
      BY Zenon DEF Init
    <3> QED
      BY Zenon, <3>1, <3>2, <3>3 DEF OneAt, With
  <2>8. CountExact
    <3>1. ASSUME NEW s \in Slags
          PROVE  rc[s] = Cardinality(Counted(s))
      <4>1. CASE \E h \in Handles : slag[h] = s
        <5>1. Counted(s) = Index /\ rc[s] = NObjects
          BY Zenon, <4>1 DEF Init, Counted, InFlight, InWord, Settled
        <5> QED
          BY Zenon, <5>1, IndexFacts
      <4>2. CASE ~\E h \in Handles : slag[h] = s
        <5>1. Counted(s) = {} /\ rc[s] = 0
          BY Zenon, <4>2 DEF Init, Counted, InFlight, InWord, Settled
        <5> QED
          BY Zenon, <5>1, FS_EmptySet
      <4> QED
        BY Zenon, <4>1, <4>2
    <3> QED
      BY Zenon, <3>1 DEF CountExact
  <2> QED
    BY ZenonT(30), <2>1, <2>2, <2>4, <2>6, <2>7, <2>8 DEF MagazineInv, Places
<1>2. ASSUME MagazineInv, [MagazineNext]_mvars PROVE MagazineInv'
  <2> USE <1>2
  <2>1. CASE MagazineNext
    BY Zenon, <2>1, NextKeeps DEF MagazineNext
  <2>2. CASE UNCHANGED mvars
    <3>1. UNCHANGED vars /\ UNCHANGED returning
      BY Zenon, <2>2 DEF mvars
    <3>2. \A k \in Handles : Returns(k)' <=> Returns(k)
      BY Zenon, <3>1 DEF Returns, vars
    <3>3. Batches'
      BY Zenon, <3>1, <3>2 DEF MagazineInv, Batches, Batch, returning
    <3>4. ASSUME NEW s \in Slags, NEW i \in Index
          PROVE  OneAt(s, i, Returning(s, i))'
      <4>1. PICK R : R = Returning(s, i)
        BY Zenon
      <4>2. OneAt(s, i, R)
        BY Zenon, <4>1 DEF MagazineInv, Places
      <4>3. OneAt(s, i, R)'
        BY Zenon, <3>1, <4>2, QuietStep DEF MagazineInv
      <4>4. Returning(s, i)' = R
        BY Zenon, <3>1, <4>1 DEF Returning, Batch, returning
      <4> QED
        BY Zenon, <4>3, <4>4
    <3> QED
      BY Zenon, <3>1, <3>3, <3>4, QuietStep DEF MagazineInv, Places
  <2> QED
    BY Zenon, <2>1, <2>2
<1>3. (MagazineInit => MagazineInv) /\ (MagazineInv /\ [MagazineNext]_mvars => MagazineInv')
  BY Zenon, <1>1, <1>2
<1> QED
  BY <1>3, PTL DEF MagazineSpec

(* The counts and all other variables of the allocator keep their types,   *)
(* and the reference counts are exact, also with the bulk frees of         *)
(* MagazineCache: dec_n never underflows, inc_n never exceeds the objects  *)
(* of a slag.                                                              *)
THEOREM MagazineCounts ==
    ASSUME Settled
    PROVE  MagazineSpec => [](TypeOK /\ CountExact)
PROOF
<1>1. MagazineInv => TypeOK /\ CountExact
  BY Zenon, CountBound DEF MagazineInv
<1> QED
  BY <1>1, MagazineInvariance, PTL

(* A slag is handed over exclusively, with the bulk frees of               *)
(* MagazineCache as well: it is never in two pools, nor in a pool and with *)
(* a handle, nor with two handles.                                         *)
THEOREM MagazineHandOver ==
    ASSUME Settled
    PROVE  MagazineSpec => []OneHolder
PROOF
<1>1. MagazineInv => OneHolder
  BY Zenon DEF MagazineInv, Holding
<1> QED
  BY <1>1, MagazineInvariance, PTL

(* The claimed bit of a slag is set exactly while a handle owns it, and a  *)
(* slag that is popped from a pool has Cutoff free objects at least, with  *)
(* MagazineCache as well.                                                  *)
THEOREM MagazineReuse ==
    ASSUME Settled
    PROVE  MagazineSpec => [](ClaimedByOwner /\ HeldIsReusable)
PROOF
<1>1. MagazineInv => ClaimedByOwner /\ HeldIsReusable
  BY Zenon DEF MagazineInv, Holding
<1> QED
  BY <1>1, MagazineInvariance, PTL

(* An object is in one place at a time, the batch of return_memory being   *)
(* one: no two allocations return the same object without a free between   *)
(* them, and no object is lost.                                            *)
THEOREM MagazineOnePlace ==
    ASSUME Settled
    PROVE  MagazineSpec => []OnePlaceMagazine
PROOF
<1>1. ASSUME MagazineInv PROVE OnePlaceMagazine
  <2> SUFFICES ASSUME NEW s \in Slags, NEW i \in Index
               PROVE  (IF i \in bitset[s] THEN 1 ELSE 0) + (IF <<s, i>> \in live THEN 1 ELSE 0)
                       + Cardinality({h \in Handles : InCache(h, s, i)})
                       + Cardinality({h \in Handles : <<s, i>> \in collided[h] \cup coalesced[h]})
                       + Cardinality({h \in Handles : InFlight(h, s, i)})
                       + Cardinality({h \in Handles : InWord(h, s, i)})
                      = IF meta[s] = "m" THEN 1 ELSE 0
    BY Zenon DEF OnePlaceMagazine
  <2> DEFINE C == {h \in Handles : InCache(h, s, i)}
             B == {h \in Handles : <<s, i>> \in collided[h] \cup coalesced[h]}
             F == {h \in Handles : InFlight(h, s, i)}
             W == {h \in Handles : InWord(h, s, i)}
  <2>0. OneAt(s, i, B) /\ \A h \in B, k \in B : h = k
    BY Zenon, <1>1 DEF MagazineInv, Places, Returning, Batch, Batches
  <2>1. Cardinality({}) = 0 /\ \A h : Cardinality({h}) = 1
    BY Zenon, FS_EmptySet, FS_Singleton
  <2>2. CASE i \in bitset[s] \/ <<s, i>> \in live
    <3>1. C = {} /\ B = {} /\ F = {} /\ W = {}
      BY Zenon, <2>0, <2>2 DEF OneAt, With
    <3>2. meta[s] = "m" /\ ~(i \in bitset[s] /\ <<s, i>> \in live)
      BY Zenon, <2>0, <2>2 DEF OneAt
    <3>3. Cardinality(C) = 0 /\ Cardinality(B) = 0 /\ Cardinality(F) = 0 /\ Cardinality(W) = 0
      BY Zenon, <2>1, <3>1
    <3> HIDE DEF C, B, F, W
    <3>4. /\ 1 + 0 + Cardinality(C) + Cardinality(B) + Cardinality(F) + Cardinality(W) = 1
          /\ 0 + 1 + Cardinality(C) + Cardinality(B) + Cardinality(F) + Cardinality(W) = 1
      BY <3>3
    <3> QED
      BY Zenon, <2>2, <3>2, <3>4 DEF C, B, F, W
  <2>3. CASE i \notin bitset[s] /\ <<s, i>> \notin live /\ B # {}
    <3>1. PICK h \in B : TRUE
      BY Zenon, <2>3
    <3>2. B = {h}
      BY Zenon, <2>0, <3>1
    <3>3. C = {} /\ F = {} /\ W = {} /\ meta[s] = "m"
      BY Zenon, <2>0, <2>3 DEF OneAt, With
    <3>4. Cardinality(C) = 0 /\ Cardinality(B) = 1 /\ Cardinality(F) = 0 /\ Cardinality(W) = 0
      BY Zenon, <2>1, <3>2, <3>3
    <3> HIDE DEF C, B, F, W
    <3>5. 0 + 0 + Cardinality(C) + Cardinality(B) + Cardinality(F) + Cardinality(W) = 1
      BY <3>4
    <3> QED
      BY Zenon, <2>3, <3>3, <3>5 DEF C, B, F, W
  <2>4. CASE i \notin bitset[s] /\ <<s, i>> \notin live /\ B = {} /\ meta[s] = "m"
    <3>1. PICK h \in Handles : With(h, s, i)
      BY Zenon, <2>0, <2>4 DEF OneAt
    <3>2. \A k \in Handles : With(k, s, i) => k = h
      BY Zenon, <2>0, <3>1 DEF OneAt
    <3>3. /\ Cardinality(C) = IF InCache(h, s, i) THEN 1 ELSE 0
          /\ Cardinality(F) = IF InFlight(h, s, i) THEN 1 ELSE 0
          /\ Cardinality(W) = IF InWord(h, s, i) THEN 1 ELSE 0
      <4>1. /\ C = IF InCache(h, s, i) THEN {h} ELSE {}
            /\ F = IF InFlight(h, s, i) THEN {h} ELSE {}
            /\ W = IF InWord(h, s, i) THEN {h} ELSE {}
        BY Zenon, <3>1, <3>2 DEF With
      <4> QED
        BY Zenon, <2>1, <4>1
    <3>4. Cardinality(B) = 0
      BY ZenonT(30), <2>1, <2>4
    <3> HIDE DEF C, B, F, W
    <3>5. Cardinality(C) + Cardinality(F) + Cardinality(W) = 1
      <4>1. \/ InCache(h, s, i) /\ ~InFlight(h, s, i) /\ ~InWord(h, s, i)
            \/ ~InCache(h, s, i) /\ InFlight(h, s, i) /\ ~InWord(h, s, i)
            \/ ~InCache(h, s, i) /\ ~InFlight(h, s, i) /\ InWord(h, s, i)
        BY Zenon, <2>0, <3>1 DEF OneAt, With
      <4>2. \/ Cardinality(C) = 1 /\ Cardinality(F) = 0 /\ Cardinality(W) = 0
            \/ Cardinality(C) = 0 /\ Cardinality(F) = 1 /\ Cardinality(W) = 0
            \/ Cardinality(C) = 0 /\ Cardinality(F) = 0 /\ Cardinality(W) = 1
        BY Zenon, <3>3, <4>1
      <4> QED BY <4>2
    <3>6. 0 + 0 + Cardinality(C) + Cardinality(B) + Cardinality(F) + Cardinality(W) = 1
      BY <3>3, <3>4, <3>5
    <3> QED
      BY Zenon, <2>4, <3>6 DEF C, B, F, W
  <2>5. CASE meta[s] # "m"
    <3>1. i \notin bitset[s] /\ <<s, i>> \notin live /\ C = {} /\ B = {} /\ F = {} /\ W = {}
      BY Zenon, <2>0, <2>5 DEF OneAt, With
    <3>2. Cardinality(C) = 0 /\ Cardinality(B) = 0 /\ Cardinality(F) = 0 /\ Cardinality(W) = 0
      BY Zenon, <2>1, <3>1
    <3> HIDE DEF C, B, F, W
    <3>3. 0 + 0 + Cardinality(C) + Cardinality(B) + Cardinality(F) + Cardinality(W) = 0
      BY <3>2
    <3> QED
      BY Zenon, <2>5, <3>1, <3>3 DEF C, B, F, W
  <2> QED
    BY Zenon, <2>2, <2>3, <2>4, <2>5
<1>2. MagazineInv => OnePlaceMagazine
  BY Zenon, <1>1
<1> QED
  BY <1>2, MagazineInvariance, PTL

(* The count of an unclaimed slag never goes down with MagazineCache       *)
(* either, the premise of the argument in SlagAllocator::refresh.          *)
THEOREM MagazineGrowth ==
    ASSUME Settled
    PROVE  MagazineSpec => UnclaimedOnlyGrows
PROOF
<1>1. ASSUME MagazineInv, [MagazineNext]_mvars
      PROVE  [\A s \in Slags : s \notin claimed => rc'[s] >= rc[s]]_vars
  BY Zenon, <1>1, NextKeeps DEF MagazineNext, mvars
<1> QED
  BY <1>1, MagazineInvariance, PTL DEF MagazineSpec, UnclaimedOnlyGrows
=============================================================================
