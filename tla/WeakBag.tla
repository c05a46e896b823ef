------------------------------ MODULE WeakBag ------------------------------
(***************************************************************************)
(* What a weak bag promises (bagpipe/src/bag.rs): an item that a client    *)
(* pushes is in the bag until one client gets it, by a pop or by a revoke. *)
(* A push or a pop may fail at any time, without effect; there is no order *)
(* among the items.                                                        *)
(***************************************************************************)
CONSTANTS
    Clients,   \* the threads that share the bag
    Items      \* what they pass through it

VARIABLES
    bag,       \* the items in the bag
    owned      \* the items each client has outside the bag

Init ==
    /\ bag = {}
    /\ owned \in [Clients -> SUBSET Items]
    /\ \A v \in Items : \E c \in Clients :
        \A d \in Clients : v \in owned[d] <=> d = c

(* try_push returns Ok.                                                    *)
Push(c, v) ==
    /\ v \in owned[c]
    /\ owned' = [owned EXCEPT ![c] = @ \ {v}]
    /\ bag' = bag \cup {v}

(* try_pop returns the item, or revoke returns true.                       *)
Get(c, v) ==
    /\ v \in bag
    /\ bag' = bag \ {v}
    /\ owned' = [owned EXCEPT ![c] = @ \cup {v}]

Next == \E c \in Clients, v \in Items : Push(c, v) \/ Get(c, v)

Spec == Init /\ [][Next]_<<bag, owned>>
=============================================================================
