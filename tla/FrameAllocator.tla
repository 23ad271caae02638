--------------------------- MODULE FrameAllocator ---------------------------
(***************************************************************************)
(* What a physical memory manager (CPMemMngr, ChaiOS/pmmngr.h) promises:   *)
(* a frame is in the hands of at most one caller at a time, from the       *)
(* moment it is taken until that caller gives it back, and a reserved      *)
(* frame is in nobody's.                                                   *)
(***************************************************************************)
CONSTANTS Callers, Frames, Reserved

VARIABLE held       \* held[c]: the frames in the hands of caller c

Init == held = [c \in Callers |-> {}]

Taken == UNION {held[c] : c \in Callers}

Take(c, f) == /\ f \notin Taken \cup Reserved
              /\ held' = [held EXCEPT ![c] = @ \cup {f}]

Give(c, f) == /\ f \in held[c]
              /\ held' = [held EXCEPT ![c] = @ \ {f}]

Next == \E c \in Callers, f \in Frames : Take(c, f) \/ Give(c, f)

Spec == Init /\ [][Next]_held
==============================================================================
