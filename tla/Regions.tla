------------------------------- MODULE Regions -------------------------------
(***************************************************************************)
(* What a heap (malloc and free, ChaiOS/liballoc.h) promises: a region     *)
(* that is handed out is not NULL, lies in the memory there is, and no     *)
(* part of it is in another region until it is given back.                 *)
(***************************************************************************)
EXTENDS Integers

CONSTANTS Memory,       \* the addresses there are
          Sizes         \* the sizes asked for

VARIABLE regions        \* from the address of a region to its size

Init == regions = [p \in {} |-> 0]

Apart(p, s, q, t) == p + s <= q \/ q + t <= p

Hand(p, s) ==
    /\ p \notin DOMAIN regions \cup {0}
    /\ regions' = [q \in DOMAIN regions \cup {p} |-> IF q = p THEN s ELSE regions[q]]
    /\ p .. (p + s - 1) \subseteq Memory
    /\ \A q \in DOMAIN regions : Apart(p, s, q, regions[q])

Return(p) ==
    /\ p \in DOMAIN regions
    /\ regions' = [q \in DOMAIN regions \ {p} |-> regions[q]]

Next == \E p \in Memory : Return(p) \/ \E s \in Sizes : Hand(p, s)

Spec == Init /\ [][Next]_regions
==============================================================================
