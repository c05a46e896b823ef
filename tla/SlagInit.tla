------------------------------ MODULE SlagInit ------------------------------
(***************************************************************************)
(* Slag::init (elfmalloc/slag.rs): a page becomes a slag with the layout   *)
(* compute_metadata has found for a size class.  A step writes one word of *)
(* the bit-set; a word is the set of its bits.                             *)
(***************************************************************************)
EXTENDS SlagMetadata

CONSTANT Layouts     \* the size classes, as pairs of object and page size

VARIABLES
    sizes,           \* the size class
    meta,            \* its metadata
    word,            \* the word that is written next
    mask, slush,     \* the loop's mask and cur_slush
    wrote            \* what the last step wrote

vars == <<sizes, meta, word, mask, slush, wrote>>

WholeWord == 0 .. WordBits - 1
object_mask(m) == {b \in WholeWord : b % bits_per_object(m) = 0}
rem_mask(m) ==
    LET rem == (m.n_objects * bits_per_object(m)) % WordBits
    IN  IF rem = 0 THEN WholeWord ELSE 0 .. rem - 1

Shl(bits, k) == {b + k : b \in bits} \cap WholeWord
Shr(bits, k) == {b - k : b \in bits} \cap WholeWord

Init ==
    /\ sizes \in Layouts
    /\ meta = compute_metadata(sizes[1], sizes[2], sizes[2])
    /\ word = 0
    /\ mask = object_mask(meta)
    /\ slush = {}
    /\ wrote = {}

(* The pattern of the first word is shifted by the slush from word to word;*)
(* what it loses at the end comes back a word later.                       *)
NextMask ==
    LET k == slush_size(bits_per_object(meta)) IN
    IF mask = WholeWord THEN UNCHANGED <<mask, slush>>
    ELSE mask' = Shl(mask, k) \cup slush /\ slush' = Shr(mask, WordBits - k)

WriteWord ==
    /\ word < meta.words
    /\ wrote' = IF word = meta.words - 1 THEN mask \cap rem_mask(meta) ELSE mask
    /\ NextMask
    /\ word' = word + 1
    /\ UNCHANGED <<sizes, meta>>

Next == WriteWord

Spec == Init /\ [][Next]_vars
-----------------------------------------------------------------------------
(* The layout found for a size: the objects lie in the page behind the     *)
(* bit-set, aligned as get_layout reports ("all power-of-two sizes are     *)
(* aligned to their size", slag.rs:212), and large enough; and the bits    *)
(* that init sets are those of the objects, one each: the first of the bits*)
(* that stand for an object's memory, whatever word it falls into.         *)
LayoutSound ==
    LET size == sizes[1]
        gran == bits_per_object(meta)
    IN  /\ meta.objects_offset + meta.n_objects * meta.object_size <= sizes[2]
        /\ slag_size + meta.words * WordSize <= meta.objects_offset
        /\ is_power_of_two(size) => meta.objects_offset % size = 0
        /\ meta.object_size >= size
        /\ meta.cutoff_objects \in 1 .. meta.n_objects
        /\ word > 0 =>
            wrote = {b \in WholeWord : LET bit == (word - 1) * WordBits + b IN
                        bit % gran = 0 /\ bit \div gran < meta.n_objects}
=============================================================================
