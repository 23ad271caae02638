-------------------------------- MODULE Mutex --------------------------------
(***************************************************************************)
(* What a CSpinlock promises its callers: the lock has at most one owner,  *)
(* it is taken only while it is free, and only its owner gives it back.    *)
(***************************************************************************)
CONSTANT Callers

VARIABLE owners     \* the callers between acquireSpinlock and releaseSpinlock

Init == owners = {}

Take(c) == /\ owners = {}
           /\ owners' = {c}

Give(c) == /\ owners = {c}
           /\ owners' = {}

Next == \E c \in Callers : Take(c) \/ Give(c)

Spec == Init /\ [][Next]_owners
==============================================================================
