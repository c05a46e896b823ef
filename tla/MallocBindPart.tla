--------------------------- MODULE MallocBindPart ---------------------------
(***************************************************************************)
(* The C functions (MallocBind) as one of the parts of MCMemory: their     *)
(* constants and variables, what they assume, and what is checked of them. *)
(***************************************************************************)
EXTENDS MemoryBase, Integers

CONSTANTS Ptrs, Amounts, Aligns, pagesize

VARIABLES os, heap, finder, owned, call

C == INSTANCE MallocBind

ASSUME MallocBindAssumption ==
    /\ Ptrs \subseteq Nat /\ Amounts \subseteq Nat /\ Aligns \subseteq Nat
    /\ pagesize \in Nat \ {0}

cVars == <<os, heap, finder, owned, call>>

(* The C functions return what was asked for, and c_free and c_realloc     *)
(* find the Layout of the object (malloc-bind).                            *)
CFunctionsSound == part = "c" => C!LayoutKnown /\ C!RequestMet
=============================================================================
