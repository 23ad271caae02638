----------------------------- MODULE VirtMemX86MC -----------------------------
(***************************************************************************)
(* VirtMemX86 for TLC: what callers ask for.  Frames 0 and 1 are           *)
(* firmware's (string.cpp maps the BIOS data area, frame 0), those from 90 *)
(* on a device's.                                                          *)
(***************************************************************************)
EXTENDS VirtMemX86

CONSTANT Kernel

Use(o, a, l, v, f) == [op |-> o, attr |-> a, len |-> l, at |-> v, to |-> f]

\* The kernel takes single pages and maps one in the middle of the directory
\* entry behind the boot code's.  A driver maps two pages at a time, anywhere
\* or at the end of the boot code's table.  FreeSinglePage reads the frame to
\* give back at the directory index: it is the right one only for the page
\* whose two indices agree, number 6, and that one is freed here (FailedUses
\* shows the others).
MapUses ==
    [c \in Callers |->
        IF c = Kernel
        THEN {Use("allocate", "kernel", 1, 0, 0), Use("mapAt", "user", 1, 6, 90)}
        ELSE {Use("map", "kernel", 2, 0, 0), Use("mapAt", "kernel", 2, 4, 95),
              Use("allocate", "user", 1, 0, 0)}]

\* An allocation of two pages where there are frames for one.
FailedUses == [c \in Callers |-> {Use("allocate", "kernel", 2, 0, 0)}]
==============================================================================
