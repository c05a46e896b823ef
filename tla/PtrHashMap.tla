----------------------------- MODULE PtrHashMap -----------------------------
(***************************************************************************)
(* PtrHashMap (slab-alloc/src/ptr_map.rs): a hash table from pointers to   *)
(* slabs.  A table is a record of the buckets of vec and of the number of  *)
(* entries.  A bucket and the buckets chained to it are one sequence of    *)
(* slots, BUCKET_SIZE for each of them; a slot is empty or a pair of a key *)
(* and a value.                                                            *)
(***************************************************************************)
EXTENDS Integers, Sequences, FiniteSets
LOCAL INSTANCE SequencesExt

CONSTANT BUCKET_SIZE

NoEntry == <<>>
IsEntry(e) == e # NoEntry
Bucket == [i \in 1 .. BUCKET_SIZE |-> NoEntry]

NewMap(size, align) ==
    [vec |-> [h \in 0 .. size - 1 |-> Bucket], size |-> 0, align |-> align]

Buckets(m) == Cardinality(DOMAIN m.vec)

\* The key is shifted by its alignment and masked by a power of two.
HashWithLen(m, ptr, len) == (ptr \div m.align) % len

Hash(m, ptr) == HashWithLen(m, ptr, Buckets(m))

(* Bucket::get.  None stands for the panic of a lookup that finds nothing. *)
None == -1

Get(m, ptr) ==
    LET b == m.vec[Hash(m, ptr)]
        i == SelectInSeq(b, LAMBDA e : IsEntry(e) /\ e[1] = ptr)
    IN  IF i = 0 THEN None ELSE b[i][2]

(* Bucket::insert, of the entries es one after the other: each goes to the *)
(* first empty slot; when there is none a bucket is chained at the end.    *)
BucketInsert(b, es) ==
    LET holes == Cardinality({i \in DOMAIN b : ~ IsEntry(b[i])})
        chained == IF Len(es) <= holes THEN 0
                   ELSE (Len(es) - holes + BUCKET_SIZE - 1) \div BUCKET_SIZE
        slots == b \o [i \in 1 .. chained * BUCKET_SIZE |-> NoEntry]
        Nth(i) == Cardinality({j \in 1 .. i : ~ IsEntry(slots[j])})
    IN  [i \in DOMAIN slots |->
            IF IsEntry(slots[i]) \/ Nth(i) > Len(es) THEN slots[i] ELSE es[Nth(i)]]

(* Bucket::delete.  The loop of remove_last runs over BUCKET_SIZE..idx,    *)
(* which is empty: no last entry is found and the slot is left empty.      *)
BucketDelete(b, ptr) ==
    LET i == SelectInSeq(b, LAMBDA e : IsEntry(e) /\ e[1] = ptr)
    IN  [b EXCEPT ![i] = NoEntry]

(* grow: twice as many buckets.  The entries whose next hash bit is set    *)
(* move to the new bucket, the others are packed to the front of theirs.   *)
Grow(m) ==
    LET len == Buckets(m)
        Of(b, h) == SelectSeq(b, LAMBDA e :
                        IsEntry(e) /\ HashWithLen(m, e[1], 2 * len) = h)
        Packed(b, h) == LET es == Of(b, h) IN
            [i \in DOMAIN b |-> IF i <= Len(es) THEN es[i] ELSE NoEntry]
    IN  [m EXCEPT !.vec = [h \in 0 .. 2 * len - 1 |->
            IF h < len THEN Packed(m.vec[h], h)
            ELSE BucketInsert(Bucket, Of(m.vec[h - len], h))]]

\* Mutant: the upper half is only cut off.
ShrinkDrops(m) ==
    [m EXCEPT !.vec = [h \in 0 .. (Buckets(m) \div 2) - 1 |-> m.vec[h]]]

(* shrink: the entries of the upper half are inserted in the lower half.   *)
Shrink(m) ==
    LET len == Buckets(m) \div 2
    IN  [m EXCEPT !.vec = [h \in 0 .. len - 1 |->
            BucketInsert(m.vec[h], SelectSeq(m.vec[h + len], IsEntry))]]

Insert(m, ptr, v) ==
    LET g == IF m.size = Buckets(m) THEN Grow(m) ELSE m
    IN  [g EXCEPT !.vec[Hash(g, ptr)] = BucketInsert(@, <<<<ptr, v>>>>),
                  !.size = @ + 1]

Delete(m, ptr) ==
    LET g == IF m.size = Buckets(m) \div 2 THEN Shrink(m) ELSE m
    IN  [g EXCEPT !.vec[Hash(g, ptr)] = BucketDelete(@, ptr),
                  !.size = @ - 1]
=============================================================================
