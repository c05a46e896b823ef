----------------------------- MODULE LocalCache -----------------------------
(***************************************************************************)
(* LocalCache (elfmalloc/src/frontends.rs): a cache in front of a          *)
(* SlagAllocator that keeps the freed objects of the current slag on a     *)
(* stack and frees all others to their slag at once.                       *)
(***************************************************************************)
EXTENDS SlagProperties

(* The refresh of LocalCache::alloc when its iterator has run out.         *)
Refresh(h) ==
    /\ IterExhausted(h)
    /\ tries[h] = 0
    /\ tries' = [tries EXCEPT ![h] = 1]
    /\ Unclaim(h)

(* expect("New iterator should have values") fails.                        *)
EmptyIterator(h) ==
    /\ IterExhausted(h)
    /\ tries[h] > 0
    /\ Goto(h, "empty")
    /\ UNCHANGED <<header, pools, live, ret, iter, cache, tries, freeing>>

(* LocalCache::free of an object of the current slag ...                   *)
FreeLocal(h) ==
    /\ pc[h] = "idle"
    /\ \E o \in live :
        /\ o[1] = slag[h]
        /\ live' = live \ {o}
        /\ cache' = [cache EXCEPT ![h] = @ \cup {o}]
    /\ UNCHANGED <<header, pools, pc, ret, iter, tries, freeing>>

(* ... and of any other object.                                            *)
FreeRemote(h) ==
    /\ pc[h] = "idle"
    /\ \E o \in live :
        /\ o[1] # slag[h]
        /\ live' = live \ {o}
        /\ IncN(h, o[1], {o[2]}, FreeTransition(o[1]))
    /\ UNCHANGED <<ret, cur_word, cache>>

(* The calls the program makes on an idle handle, and the steps of a call  *)
(* in progress.                                                            *)
Call(h) ==
    \/ NewHandle(h)
    \/ AllocCached(h)
    \/ BeginAlloc(h)
    \/ FreeLocal(h)
    \/ FreeRemote(h)
    \/ DropWord(h)

Step(h) ==
    \/ FirstRefresh(h)
    \/ Refresh(h)
    \/ PopAvailable(h)
    \/ AllocPage(h)
    \/ OutOfMemory(h)
    \/ Claim(h)
    \/ NewIter(h)
    \/ RefreshWord(h)
    \/ DecN(h)
    \/ AllocNext(h)
    \/ EmptyIterator(h)
    \/ FetchOr(h)
    \/ PushAvailable(h)
    \/ Revoke(h)
    \/ RevokeFails(h)
    \/ FreePage(h)
    \/ DropCached(h)
    \/ DropSlag(h)

Next == \E h \in Handles : Call(h) \/ Step(h)

Spec == Init /\ [][Next]_vars

(* A thread inside a call keeps running.                                   *)
FairSpec == Spec /\ \A h \in Handles : WF_vars(Step(h))
-----------------------------------------------------------------------------
(* "Only pointers local to the current Slag are placed in this stack"      *)
(* (frontends.rs:31): the stack never holds an object of a slag the handle *)
(* has let go, so it cannot outgrow the NObjects entries it was given.     *)
CacheIsLocal ==
    \A h \in Handles : \A o \in cache[h] : o[1] = slag[h]
=============================================================================
