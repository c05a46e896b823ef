----------------------------- MODULE MCFAAQueue -----------------------------
(* Clients with the same roles are interchangeable, and so are the items.  *)
EXTENDS FAAQueue, TLC

SameRoles(c, d) ==
    /\ c \in Pushers <=> d \in Pushers
    /\ c \in Poppers <=> d \in Poppers
    /\ c \in Revokers <=> d \in Revokers

Sym ==
    {p \in Permutations(Clients) : \A c \in Clients : SameRoles(c, p[c])}
        \cup Permutations(Items)
=============================================================================
