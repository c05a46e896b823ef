------------------------------ MODULE MCDepot ------------------------------
(***************************************************************************)
(* The magazines and their depot, and beside them, in behaviours of their  *)
(* own, the initialisation of a slag.                                      *)
(***************************************************************************)
EXTENDS Depot, TLC

VARIABLES part, sizes, meta, word, mask, slush, wrote

\* ElfMalloc's classes with the pages they have, and others as typed allocators
\* may have them.
Layouts ==
    {<<c, IF c < 65536 THEN 262144 ELSE 2097152>> :
        c \in {8} \cup {16 * i : i \in 1 .. 12} \cup {256 * 2 ^ i : i \in 0 .. 12}}
    \cup {<<8 * i + 4, 16384>> : i \in 1 .. 12}

Slag == INSTANCE SlagInit

\* Objects are interchangeable.
Symmetry == Permutations(Objects)

slagVars == <<sizes, meta, word, mask, slush, wrote>>

DepotInit ==
    /\ part \in {"depot", "slag"}
    /\ Init /\ Slag!Init
    /\ part = "depot" => sizes = <<8, 262144>>
    /\ part = "slag" => max_size = 0

DepotNext ==
    /\ \/ part = "depot" /\ Next /\ UNCHANGED slagVars
       \/ part = "slag" /\ Slag!Next /\ UNCHANGED vars
    /\ UNCHANGED part

DepotSpec == DepotInit /\ [][DepotNext]_<<part, vars, slagVars>>

(* compute_metadata's layouts, and the words that Slag::init writes.       *)
LayoutSound == part = "slag" => Slag!LayoutSound
=============================================================================
