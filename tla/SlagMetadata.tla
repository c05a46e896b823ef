---------------------------- MODULE SlagMetadata ----------------------------
(***************************************************************************)
(* How a page is divided into objects (mod metadata of elfmalloc/slag.rs): *)
(* compute_metadata's search for the best layout.  Sizes are bytes.        *)
(***************************************************************************)
EXTENDS Integers, Sequences, FiniteSets

LOCAL INSTANCE SequencesExt

WordBits == 64
WordSize == 8
slag_size == 64

is_power_of_two(n) == \E k \in 0 .. 30 : n = 2 ^ k
log2_up(n) == CHOOSE k \in 0 .. 30 : 2 ^ k >= n /\ (k = 0 \/ 2 ^ (k - 1) < n)
next_power_of_two(n) == 2 ^ log2_up(n)
round_up_to(n, unit) == ((n + unit - 1) \div unit) * unit

bitset_bytes(n, gran) == (round_up_to(n * gran, WordBits) \div WordBits) * WordSize

\* Where the objects begin: power-of-two sizes are aligned to their size.
alignment(size) == IF is_power_of_two(size) THEN size ELSE 1
objects_offset(align, n, gran) ==
    round_up_to(slag_size + bitset_bytes(n, gran), align)
total_bytes(size, align, gran, n) ==
    objects_offset(align, n, gran) + n * size

\* As many objects as fit, and at least one.
n_objects(size, align, gran, usable_size) ==
    CHOOSE n \in 1 .. usable_size :
        /\ total_bytes(size, align, gran, n + 1) > usable_size
        /\ n = 1 \/ total_bytes(size, align, gran, n) <= usable_size

(* The bits by which the pattern of object bits moves from word to word.   *)
slush_size(gran) == gran - (WordBits % gran)

(* meta_inner: the layout with one bit for every 2^shift bytes.  The score *)
(* is in bytes, the code's in shares of usable_size.                       *)
meta_inner(size, page_size, shift, usable) ==
    LET unit == 2 ^ shift
        padded == round_up_to(size, unit)
        gran == padded \div unit
        usable_size == IF usable < page_size THEN usable ELSE page_size
        align == alignment(padded)
        n == n_objects(padded, align, gran, usable_size)
        bytes == n * size
        fits == bytes <= usable_size
    IN  [score |-> IF fits /\ slush_size(gran) <= WordBits THEN bytes
                   ELSE IF fits \/ slush_size(gran) <= WordBits THEN -bytes ELSE bytes,
         words |-> bitset_bytes(n, gran) \div WordSize,
         n_objects |-> n,
         objects_offset |-> objects_offset(align, n, gran),
         object_size |-> padded,
         shift |-> shift,
         cutoff_objects |-> IF n * 6 < 10 THEN 1 ELSE (n * 6) \div 10]

Abs(x) == IF x < 0 THEN -x ELSE x

\* Mutant: of two layouts with the same score the one with more words.
BetterMoreWords(o1, o2, usable) ==
    \/ o1.score < o2.score
    \/ Abs(o1.score - o2.score) <= (usable - 1) \div 100000 /\ o1.words < o2.words

(* A higher score, or the same with fewer words.                           *)
Better(o1, o2, usable) ==
    \/ o1.score < o2.score
    \/ Abs(o1.score - o2.score) <= (usable - 1) \div 100000 /\ o1.words > o2.words

compute_metadata(obj_size, page_size, usable) ==
    LET all == [shift \in 1 .. log2_up(obj_size) |-> meta_inner(obj_size, page_size, shift, usable)]
        none == [score |-> -10 * usable, words |-> 1000]
    IN  FoldLeft(LAMBDA o1, o2 : IF Better(o1, o2, usable) THEN o2 ELSE o1, none, all)

bits_per_object(m) == m.object_size \div 2 ^ m.shift
=============================================================================
