------------------------------ MODULE BagPipe ------------------------------
(***************************************************************************)
(* BagPipe (bagpipe/src/lib.rs): a bag that spreads its items over several *)
(* queues, the pipes.  Each thread has a handle of its own, with a place   *)
(* where it starts, a stride, and how often its last calls have failed,    *)
(* which is how many pipes it tries next time.  A step of a handle is one  *)
(* call on one pipe, or one access to a shared counter.                    *)
(***************************************************************************)
EXTENDS Integers, FiniteSets, FiniteSetsExt

CONSTANTS
    Handles,     \* the handles, one per thread; First is the one new() makes
    First,
    Items,
    Len,         \* the number of pipes
    Threshold,   \* THRESHOLD_DIFF
    MaxFailures, \* bound on push_failures and pop_failures
    MaxAhead     \* bound on how far the pops of a pipe run ahead of its pushes

Pipes == 0 .. Len - 1
Cleaner == "cleaner"   \* whoever the last drop gives the items to

\* The number of pipes is a power of two: it has no odd divisor but 1.
ASSUME BagPipeAssumption ==
    /\ First \in Handles /\ Cleaner \notin Handles
    /\ IsFiniteSet(Handles) /\ IsFiniteSet(Items)
    /\ Len \in Nat \ {0}
    /\ \A d \in 2 .. Len, m \in 1 .. Len : d * m = Len => d % 2 = 0
    /\ Threshold \in Nat \ {0}
    /\ MaxFailures \in Nat \ {0} /\ 2 * MaxFailures + 1 > Len
    /\ MaxAhead \in Nat \ {0}

VARIABLES
    items,     \* what is in each pipe
    ahead,     \* the cells of each pipe that pops have spoilt for later pushes
    counted,   \* the sum of the counters; nothing reads one by itself
    all_refs,
    live,      \* the handles that exist ...
    born,      \* ... and those that have existed
    offset,
    stride,
    push_failures,
    pop_failures,
    cur_diff,
    owned,     \* the items each thread has outside the bag
    op,        \* the call each handle is in
    seen,      \* the items in the bag ever since its current pass began
    cleaning   \* the pipe that the last drop empties

shared == <<items, ahead, counted>>
local == <<offset, stride, push_failures, pop_failures, cur_diff>>
vars == <<shared, all_refs, live, born, local, owned, op, seen, cleaning>>

Idle == [name |-> "idle"]
Contents == UNION {items[p] : p \in Pipes}
\* What counts of an offset: the pipe it stands for.
Pipe(n) == n % Len
Capped(n) == IF n > MaxFailures THEN MaxFailures ELSE n
Abs(n) == IF n < 0 THEN -n ELSE n
-----------------------------------------------------------------------------
(* The pipes, as the queues behave when a call is one step.  A pop that    *)
(* finds nothing spoils a cell; the push that gets this cell fails.        *)
PushOk(p, v) ==
    /\ ahead[p] = 0
    /\ items' = [items EXCEPT ![p] = @ \cup {v}]
    /\ UNCHANGED ahead

PushFails(p) ==
    /\ ahead[p] > 0
    /\ ahead' = [ahead EXCEPT ![p] = @ - 1]
    /\ UNCHANGED items

PopOk(p, v) ==
    /\ v \in items[p]
    /\ items' = [items EXCEPT ![p] = @ \ {v}]
    /\ UNCHANGED ahead

PopFails(p) ==
    /\ items[p] = {}
    /\ ahead' = [ahead EXCEPT ![p] = IF @ < MaxAhead THEN @ + 1 ELSE @]
    /\ UNCHANGED items

\* The first pop past the tail cannot tell the pipe is empty, nor can one
\* that another thread's push overtakes.
PopStatus(h, p) ==
    IF ahead[p] = 0 THEN {"transient"}
    ELSE {"empty"} \cup
         {"transient" : g \in {g \in Handles \ {h} : op[g].name \in {"push", "bulk"}}}
-----------------------------------------------------------------------------
Init ==
    /\ items = [p \in Pipes |-> {}]
    /\ ahead = [p \in Pipes |-> 0]
    /\ counted = 0
    /\ all_refs = 1
    /\ live = {First}
    /\ born = {First}
    /\ offset = [h \in Handles |-> Pipe(1)]
    /\ stride = [h \in Handles |-> 1]
    /\ push_failures = [h \in Handles |-> 0]
    /\ pop_failures = [h \in Handles |-> 0]
    /\ cur_diff = [h \in Handles |-> 0]
    /\ owned = [h \in Handles \cup {Cleaner} |-> IF h = First THEN Items ELSE {}]
    /\ op = [h \in Handles |-> Idle]
    /\ seen = [h \in Handles |-> {}]
    /\ cleaning = -1

\* Mutant: the seed itself is the stride, which may be even.
CloneEvenStride(g, h) ==
    LET seed == all_refs + 1 IN
    /\ g \in live
    /\ h \notin born
    /\ all_refs' = all_refs + 1
    /\ live' = live \cup {h}
    /\ born' = born \cup {h}
    /\ offset' = [offset EXCEPT ![h] = Pipe(seed)]
    /\ stride' = [stride EXCEPT ![h] = seed]
    /\ UNCHANGED <<shared, push_failures, pop_failures, cur_diff, owned, op, seen, cleaning>>

(* A new handle starts elsewhere; its stride is odd, so that it comes to   *)
(* every pipe.                                                             *)
Clone(g, h) ==
    LET step == (all_refs + 1) * 2 + 1 IN
    /\ g \in live
    /\ h \notin born
    /\ all_refs' = all_refs + 1
    /\ live' = live \cup {h}
    /\ born' = born \cup {h}
    /\ offset' = [offset EXCEPT ![h] = Pipe(step)]
    /\ stride' = [stride EXCEPT ![h] = step]
    /\ UNCHANGED <<shared, push_failures, pop_failures, cur_diff, owned, op, seen, cleaning>>

Ready(h) == h \in live /\ op[h] = Idle

\* Mutant: only a positive difference is handed on.
PropagatePositive(h, d) ==
    /\ cur_diff' = [cur_diff EXCEPT ![h] = IF @ + d <= -Threshold THEN 0 ELSE @ + d]
    /\ op' = [op EXCEPT ![h] = IF cur_diff[h] + d >= Threshold THEN [name |-> "flush"] ELSE Idle]

(* propagate_diff: count locally, and go on to the shared counter when the *)
(* difference is large enough.                                             *)
Propagate(h, d) ==
    /\ cur_diff' = [cur_diff EXCEPT ![h] = @ + d]
    /\ op' = [op EXCEPT ![h] = IF Abs(cur_diff[h] + d) >= Threshold THEN [name |-> "flush"]
                                                                    ELSE Idle]

AddToCounter(h) ==
    counted' = counted + cur_diff[h]

(* push_diff, at the end of a call.                                        *)
Flush(h) ==
    /\ op[h].name = "flush"
    /\ AddToCounter(h)
    /\ cur_diff' = [cur_diff EXCEPT ![h] = 0]
    /\ op' = [op EXCEPT ![h] = Idle]
    /\ UNCHANGED <<items, ahead, all_refs, live, born, offset, stride, push_failures,
                   pop_failures, owned, seen, cleaning>>
-----------------------------------------------------------------------------
Failed(h, ctr) ==
    /\ offset' = [offset EXCEPT ![h] = Pipe(@ + stride[h])]
    /\ ctr' = [ctr EXCEPT ![h] = Capped(@ + 1)]

Relaxed(h, ctr) == ctr' = [ctr EXCEPT ![h] = @ \div 2] /\ UNCHANGED offset

\* A first round of push_failures + 1 pipes, whose last one is not waited for.
PushRound(h, v, must) ==
    [name |-> "push", item |-> v, must |-> must, final |-> FALSE,
     ix |-> offset[h], left |-> push_failures[h] + 1]

(* try_push_mut, and push_mut which must succeed.                          *)
StartPush(h) ==
    /\ Ready(h)
    /\ \E v \in owned[h], must \in BOOLEAN :
        op' = [op EXCEPT ![h] = PushRound(h, v, must)]
    /\ UNCHANGED <<shared, all_refs, live, born, local, owned, seen, cleaning>>

(* The item is in.  At the last pipe of push_mut's second round, push has  *)
(* waited for that.                                                        *)
Pushed(h) ==
    LET o == op[h] IN
    /\ o.name = "push"
    /\ PushOk(o.ix, o.item)
    /\ owned' = [owned EXCEPT ![h] = @ \ {o.item}]
    /\ IF o.final /\ o.left = 1 THEN Failed(h, push_failures) ELSE Relaxed(h, push_failures)
    /\ Propagate(h, 1)
    /\ UNCHANGED <<counted, all_refs, live, born, stride, pop_failures, seen, cleaning>>

\* Mutant: the second round of push_mut gives up like the first.
PushNextPipeGivesUp(h) ==
    LET o == op[h] IN
    /\ o.name = "push"
    /\ PushFails(o.ix)
    /\ IF o.left > 1
       THEN /\ op' = [op EXCEPT ![h].ix = Pipe(@ + stride[h]), ![h].left = @ - 1]
            /\ UNCHANGED <<offset, push_failures, owned>>
       ELSE /\ Failed(h, push_failures)
            /\ op' = [op EXCEPT ![h] = Idle]
            /\ owned' = IF o.must THEN [owned EXCEPT ![h] = @ \ {o.item}] ELSE owned
    /\ UNCHANGED <<counted, all_refs, live, born, stride, pop_failures, cur_diff,
                   seen, cleaning>>

(* The pipe is not ready: wait for it, try the next one, or give up, which *)
(* push_mut follows with a second round.                                   *)
PushNextPipe(h) ==
    LET o == op[h] IN
    /\ o.name = "push"
    /\ PushFails(o.ix)
    /\ IF o.final /\ o.left = 1
       THEN UNCHANGED <<op, offset, push_failures>>
       ELSE IF o.left > 1
       THEN /\ op' = [op EXCEPT ![h].ix = Pipe(@ + stride[h]), ![h].left = @ - 1]
            /\ UNCHANGED <<offset, push_failures>>
       ELSE /\ Failed(h, push_failures)
            /\ op' = [op EXCEPT ![h] =
                        IF o.must THEN [o EXCEPT !.ix = offset'[h], !.final = TRUE,
                                                 !.left = push_failures'[h] + 1]
                                  ELSE Idle]
    /\ UNCHANGED <<counted, all_refs, live, born, stride, pop_failures, cur_diff,
                   owned, seen, cleaning>>
-----------------------------------------------------------------------------
PopRound(off, failures, loop) ==
    [name |-> "pop", loop |-> loop, empties |-> 0, ix |-> off, left |-> 2 * failures + 1]

(* try_pop_mut, and pop_mut which repeats it until it is told Empty.       *)
StartPop(h) ==
    /\ Ready(h)
    /\ \E loop \in BOOLEAN :
        op' = [op EXCEPT ![h] = PopRound(offset[h], pop_failures[h], loop)]
    /\ seen' = [seen EXCEPT ![h] = Contents]
    /\ UNCHANGED <<shared, all_refs, live, born, local, owned, cleaning>>

\* An item leaves: no pop in progress has to find it.
Unsee(v) == seen' = [g \in Handles |-> seen[g] \ {v}]

Popped(h) ==
    LET o == op[h] IN
    /\ o.name = "pop"
    /\ \E v \in items[o.ix] :
        /\ PopOk(o.ix, v)
        /\ owned' = [owned EXCEPT ![h] = @ \cup {v}]
        /\ Unsee(v)
    /\ Relaxed(h, pop_failures)
    /\ Propagate(h, -1)
    /\ UNCHANGED <<counted, all_refs, live, born, stride, push_failures, cleaning>>

\* Mutant: a round that was too short is repeated at the same length.
PopNextPipeSameLength(h) ==
    LET o == op[h]
        p == o.ix
    IN  /\ o.name = "pop"
        /\ PopFails(p)
        /\ \E st \in PopStatus(h, p) :
            LET n == IF st = "empty" THEN o.empties + 1 ELSE 0 IN
            IF o.left = 1
            THEN /\ offset' = [offset EXCEPT ![h] = Pipe(@ + stride[h])]
                 /\ op' = [op EXCEPT ![h] = IF o.loop THEN PopRound(offset'[h], pop_failures[h], TRUE)
                                                      ELSE Idle]
                 /\ seen' = [seen EXCEPT ![h] = Contents]
                 /\ UNCHANGED pop_failures
            ELSE IF n = Len
            THEN /\ Relaxed(h, pop_failures)
                 /\ op' = [op EXCEPT ![h] = [name |-> "empty"]]
                 /\ UNCHANGED seen
            ELSE /\ op' = [op EXCEPT ![h].ix = Pipe(@ + stride[h]), ![h].left = @ - 1,
                                     ![h].empties = n]
                 /\ UNCHANGED <<offset, pop_failures, seen>>
        /\ UNCHANGED <<counted, all_refs, live, born, stride, push_failures, cur_diff,
                       owned, cleaning>>

(* Nothing in the pipe.  At the end of the round the pop has failed, even  *)
(* if it has seen every pipe empty; before that, Len empty pipes in a row  *)
(* make it answer Empty.                                                   *)
PopNextPipe(h) ==
    LET o == op[h]
        p == o.ix
    IN  /\ o.name = "pop"
        /\ PopFails(p)
        /\ \E st \in PopStatus(h, p) :
            LET n == IF st = "empty" THEN o.empties + 1 ELSE 0 IN
            IF o.left = 1
            THEN /\ Failed(h, pop_failures)
                 /\ op' = [op EXCEPT ![h] = IF o.loop THEN PopRound(offset'[h], pop_failures'[h], TRUE)
                                                      ELSE Idle]
                 /\ seen' = [seen EXCEPT ![h] = Contents]
            ELSE IF n = Len
            THEN /\ Relaxed(h, pop_failures)
                 /\ op' = [op EXCEPT ![h] = [name |-> "empty"]]
                 /\ UNCHANGED seen
            ELSE /\ op' = [op EXCEPT ![h].ix = Pipe(@ + stride[h]), ![h].left = @ - 1,
                                     ![h].empties = n]
                 /\ UNCHANGED <<offset, pop_failures, seen>>
        /\ UNCHANGED <<counted, all_refs, live, born, stride, push_failures, cur_diff,
                       owned, cleaning>>

ReturnEmpty(h) ==
    /\ op[h].name = "empty"
    /\ op' = [op EXCEPT ![h] = Idle]
    /\ seen' = [seen EXCEPT ![h] = {}]
    /\ UNCHANGED <<shared, all_refs, live, born, local, owned, cleaning>>
-----------------------------------------------------------------------------
(* bulk_add: each item goes down the next pipe that takes it; what went in *)
(* is counted at the end.                                                  *)
StartBulk(h) ==
    /\ Ready(h)
    /\ op' = [op EXCEPT ![h] = [name |-> "bulk", left |-> owned[h], ix |-> offset[h], n |-> 0]]
    /\ UNCHANGED <<shared, all_refs, live, born, local, owned, seen, cleaning>>

BulkPushed(h) ==
    LET o == op[h] IN
    /\ o.name = "bulk"
    /\ \E v \in o.left :
        /\ PushOk(o.ix, v)
        /\ owned' = [owned EXCEPT ![h] = @ \ {v}]
        /\ op' = [op EXCEPT ![h].left = @ \ {v}, ![h].ix = Pipe(@ + stride[h]), ![h].n = @ + 1]
    /\ UNCHANGED <<counted, all_refs, live, born, local, seen, cleaning>>

BulkNextPipe(h) ==
    LET o == op[h] IN
    /\ o.name = "bulk" /\ o.left # {}
    /\ PushFails(o.ix)
    /\ op' = [op EXCEPT ![h].ix = Pipe(@ + stride[h])]
    /\ UNCHANGED <<counted, all_refs, live, born, local, owned, seen, cleaning>>

BulkEnd(h) ==
    /\ op[h].name = "bulk" /\ op[h].left = {}
    /\ Propagate(h, op[h].n)
    /\ UNCHANGED <<shared, all_refs, live, born, offset, stride, push_failures, pop_failures,
                   owned, seen, cleaning>>
-----------------------------------------------------------------------------
(* A handle goes: its difference goes to the counters.  The last one takes *)
(* the pipes with it.                                                      *)
Drop(h) ==
    /\ Ready(h)
    /\ AddToCounter(h)
    /\ cur_diff' = [cur_diff EXCEPT ![h] = 0]
    /\ live' = live \ {h}
    /\ cleaning' = IF live = {h} THEN 0 ELSE cleaning
    /\ UNCHANGED <<items, ahead, all_refs, born, offset, stride, push_failures, pop_failures,
                   owned, op, seen>>

(* cleanup_all: pop each pipe until it says Empty.                         *)
CleanItem ==
    /\ cleaning \in Pipes
    /\ \E v \in items[cleaning] :
        /\ PopOk(cleaning, v)
        /\ owned' = [owned EXCEPT ![Cleaner] = @ \cup {v}]
    /\ UNCHANGED <<counted, all_refs, live, born, local, op, seen, cleaning>>

CleanNext ==
    /\ cleaning \in Pipes
    /\ PopFails(cleaning)
    /\ cleaning' = IF ahead[cleaning] = 0 THEN cleaning ELSE cleaning + 1
    /\ UNCHANGED <<counted, all_refs, live, born, local, owned, op, seen>>

Step(h) ==
    \/ Flush(h) \/ Pushed(h) \/ PushNextPipe(h) \/ Popped(h) \/ PopNextPipe(h)
    \/ ReturnEmpty(h) \/ BulkPushed(h) \/ BulkNextPipe(h) \/ BulkEnd(h)

Next ==
    \/ \E g, h \in Handles : Clone(g, h)
    \/ \E h \in Handles : StartPush(h) \/ StartPop(h) \/ StartBulk(h) \/ Drop(h) \/ Step(h)
    \/ CleanItem \/ CleanNext

Spec == Init /\ [][Next]_vars

(* A thread in a call keeps running.                                       *)
FairSpec == Spec /\ (\A h \in Handles : WF_vars(Step(h))) /\ WF_vars(CleanItem \/ CleanNext)
-----------------------------------------------------------------------------
(* The pipes together are one weak bag: an item is in one of them or with  *)
(* one thread, whatever pipe its push ended at, and those left at the last *)
(* drop go to the clean-up.                                                *)
Bag == INSTANCE WeakBag WITH Clients <- Handles \cup {Cleaner}, bag <- Contents
IsWeakBag == Bag!Spec

(* pop_mut answers Empty although the pipes are looked at one by one; it   *)
(* is wrong only about items that came or went meanwhile ("this is not     *)
(* linearizable, but I believe it is sequentially consistent", lib.rs:482):*)
(* an item that was there during the whole last round is found, for the    *)
(* stride leads to every pipe (the assertion of try_pop_internal, 490).    *)
EmptyIsHonest == \A h \in Handles : op[h].name = "empty" => seen[h] = {}

InFlight(h) == IF op[h].name = "bulk" THEN op[h].n ELSE 0

(* size_guess is off by what the handles have not handed on, and by no     *)
(* more; each has less than the threshold.  So the counters are exact once *)
(* every handle that pushed or popped is dropped ("a very weak quiescent   *)
(* consistency", lib.rs:221-227).                                          *)
GuessIsClose ==
    cleaning = -1 =>
        /\ counted + MapThenSumSet(LAMBDA h : cur_diff[h] + InFlight(h), live) = Cardinality(Contents)
        /\ \A h \in live : op[h].name # "flush" => Abs(cur_diff[h]) < Threshold

(* The calls are obstruction-free: a call during which the other threads   *)
(* have stopped between calls returns, through failed rounds, spoilt cells *)
(* and empty pipes.                                                        *)
ReturnsAlone ==
    \A h \in Handles : []<>(op[h] = Idle \/ \E g \in Handles \ {h} : op[g] # Idle)
=============================================================================
