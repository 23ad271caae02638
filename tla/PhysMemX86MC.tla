----------------------------- MODULE PhysMemX86MC -----------------------------
(***************************************************************************)
(* PhysMemX86 for TLC, with a history variable: unused[c] is the set of    *)
(* frames whose bit has been clear ever since c's current                  *)
(* allocateSinglePage began its search.                                    *)
(***************************************************************************)
EXTENDS PhysMemX86

VARIABLE unused

SearchBegins(c) == pc'[c] = "scan" /\ pc[c] \notin {"scan", "bit"}
                                   /\ ~(pc[c] = "unlock" /\ Claiming(c))

HInit == Init /\ unused = [c \in Callers |-> {}]

HNext == /\ Next
         /\ unused' = [c \in Callers |->
                IF pc'[c] \notin {"scan", "bit", "lock", "load", "store", "unlock", "fail"}
                THEN {}
                ELSE (IF SearchBegins(c) THEN Frames ELSE unused[c]) \ used']

HSpec == HInit /\ [][HNext]_<<vars, unused>>

HFairSpec == HSpec /\ \A c \in Callers : WF_vars(Step(c))

\* An unlimited allocateSinglePage answers "out of memory" only if no frame
\* was free during the whole of its search, although it never looks at the
\* bitmap under the lock before it has chosen a frame.
FailsOnlyWhenFull ==
    \A c \in Callers : pc[c] = "fail" /\ max[c] = 0 => unused[c] = {}
==============================================================================
