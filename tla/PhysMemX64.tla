------------------------------ MODULE PhysMemX64 ------------------------------
(***************************************************************************)
(* The physical memory manager of the x64 kernel, CX64DefaultPMemMngr      *)
(* (ChaiOS/arch/x64/pmmngrx64.cpp): allocateSinglePage without a limit,    *)
(* the only form the kernel calls, and freeSinglePage.                     *)
(*                                                                         *)
(* It differs from PhysMemX86 in three ways: the search has three passes   *)
(* (above 4GB, above 16MB, below), a bit is picked with the 32-bit mask    *)
(* 1 << x, and after the locked test-and-set has succeeded and the lock is *)
(* released the bit is set once more with no lock and the lock is released *)
(* once more.                                                              *)
(***************************************************************************)
EXTENDS Integers, FiniteSets

CONSTANTS Callers,
          FramesPerWord,    \* frames in one size_t of the scan (64), even
          FramesPerByte,    \* frames in one byte of setUsedUnlocked (8)
          Words,            \* words of the bitmap
          MemSize,          \* m_memorySize, in frames
          IdealStart,       \* m_IdealAllocStart, in frames: 4GB, 16MB or 0
          DmaStart,         \* 16MB, in frames
          Reserved          \* frames the boot memory map leaves used

Frames == 0 .. (Words * FramesPerWord - 1)

VARIABLES
    used,               \* the frames whose bit is set
    lock,               \* m_bufferLock
    owned,              \* owned[c]: frames returned to c, not given back yet
    pc,
    freeing,            \* c is in freeSinglePage, not in allocateSinglePage
    n, memSz, start,    \* locals of allocateSinglePage
    addr, reg, was      \* the frame, the byte loaded, wasUsed

scan == <<n, memSz, start>>
vars == <<used, lock, owned, pc, freeing, scan, addr, reg, was>>

ByteOf(f) == {g \in Frames : g \div FramesPerByte = f \div FramesPerByte}
InWord(w) == {f \in Frames : f \div FramesPerWord = w}

\* Frame f is bit x of its word.
Bit(f) == f % FramesPerWord

\* What entry & (1 << x) reads for the bit x of f: a 32-bit mask, so the top
\* one is sign-extended over the whole upper half of the 64-bit word.
Mask(f) == IF Bit(f) = FramesPerWord \div 2 - 1
           THEN {g \in InWord(f \div FramesPerWord) : Bit(g) >= Bit(f)}
           ELSE {f}

\* The bits of word w the while loop can stop at.  A shift by 32 or more
\* wraps round (the processor takes the count modulo 32) and meets the same
\* masks again, so the upper half of a word is never a candidate.
Candidates(w) == {f \in InWord(w) : /\ Bit(f) < FramesPerWord \div 2
                                    /\ Mask(f) \cap used = {}}

Init ==
    /\ used = Reserved
    /\ lock = 0
    /\ owned   = [c \in Callers |-> {}]
    /\ pc      = [c \in Callers |-> "idle"]
    /\ freeing = [c \in Callers |-> FALSE]
    /\ n       = [c \in Callers |-> 0]     /\ memSz = [c \in Callers |-> 0]
    /\ start   = [c \in Callers |-> 0]     /\ addr  = [c \in Callers |-> 0]
    /\ reg     = [c \in Callers |-> {}]    /\ was   = [c \in Callers |-> FALSE]
------------------------------------------------------------------------------
Goto(c, label) == pc' = [pc EXCEPT ![c] = label]

\* startSearch: the words from s up to the end e.
StartSearch(c, s, e) == /\ start' = [start EXCEPT ![c] = s]
                        /\ memSz' = [memSz EXCEPT ![c] = e]
                        /\ n'     = [n EXCEPT ![c] = s \div FramesPerWord]
                        /\ Goto(c, "scan")

\* Nothing in this pass: down to the next zone, or return NULL.
NextPass(c) ==
    \/ start[c] > DmaStart /\ StartSearch(c, DmaStart, start[c] - DmaStart)
    \/ start[c] \in 1 .. DmaStart /\ StartSearch(c, 0, start[c])
    \/ start[c] = 0 /\ Goto(c, "fail") /\ UNCHANGED scan

Allocate(c) ==
    /\ pc[c] \in {"idle", "fail"}
    /\ StartSearch(c, IdealStart, MemSize)
    /\ freeing' = [freeing EXCEPT ![c] = FALSE]
    /\ UNCHANGED <<used, lock, owned, addr, reg, was>>

FreeSinglePage(c, f) ==
    /\ pc[c] \in {"idle", "fail"}
    /\ f \in owned[c]
    /\ owned' = [owned EXCEPT ![c] = @ \ {f}]
    /\ addr' = [addr EXCEPT ![c] = f]
    /\ freeing' = [freeing EXCEPT ![c] = TRUE]
    /\ Goto(c, "lock")
    /\ UNCHANGED <<used, lock, scan, reg, was>>

Bound(c) == (memSz[c] - 1) \div FramesPerWord + 1

\* One round of the for loop at loopStart, an unlocked read of one word.
ScanWord(c) ==
    /\ pc[c] = "scan"
    /\ \/ /\ n[c] < Bound(c) /\ InWord(n[c]) \subseteq used
          /\ n' = [n EXCEPT ![c] = @ + 1]
          /\ UNCHANGED <<pc, memSz, start>>
       \/ n[c] = Bound(c) /\ NextPass(c)
       \/ /\ n[c] > Bound(c) \/ (n[c] < Bound(c) /\ ~(InWord(n[c]) \subseteq used))
          /\ Goto(c, "bit")
          /\ UNCHANGED scan
    /\ UNCHANGED <<used, lock, owned, freeing, addr, reg, was>>

\* The second unlocked read: the first candidate bit, checked against the end
\* of memory, or on to the next word when there is none.
PickBit(c) ==
    /\ pc[c] = "bit"
    /\ \/ /\ Candidates(n[c]) = {}
          /\ n' = [n EXCEPT ![c] = @ + 1]
          /\ Goto(c, "scan")
          /\ UNCHANGED <<memSz, start, addr>>
       \/ \E f \in Candidates(n[c]) :
             /\ \A g \in Candidates(n[c]) : f <= g
             /\ \/ f >= MemSize /\ NextPass(c) /\ UNCHANGED addr
                \/ /\ f < MemSize
                   /\ addr' = [addr EXCEPT ![c] = f]
                   /\ Goto(c, "lock")
                   /\ UNCHANGED scan
    /\ UNCHANGED <<used, lock, owned, freeing, reg, was>>

AcquireLock(c) ==
    /\ pc[c] = "lock" /\ lock = 0
    /\ lock' = 1
    /\ Goto(c, "load")
    /\ UNCHANGED <<used, owned, freeing, scan, addr, reg, was>>

\* The read half of setUsed or setUsedUnlocked; only the first of the two
\* calls in allocateSinglePage looks at the result.
LoadByte(c) ==
    /\ reg' = [reg EXCEPT ![c] = used \cap ByteOf(addr[c])]
    /\ \/ /\ pc[c] = "load" /\ Goto(c, "store")
          /\ was' = [was EXCEPT ![c] = ~freeing[c] /\ addr[c] \in used]
       \/ pc[c] = "loadAgain" /\ Goto(c, "storeAgain") /\ UNCHANGED was
    /\ UNCHANGED <<used, lock, owned, freeing, scan, addr>>

\* The write half: the whole byte is stored.
StoreByte(c) ==
    /\ \/ pc[c] = "store" /\ Goto(c, "unlock")
       \/ pc[c] = "storeAgain" /\ Goto(c, "unlockAgain")
    /\ used' = (used \ ByteOf(addr[c])) \cup
               (IF freeing[c] THEN reg[c] \ {addr[c]} ELSE reg[c] \cup {addr[c]})
    /\ reg' = [reg EXCEPT ![c] = {}]
    /\ UNCHANGED <<lock, owned, freeing, scan, addr, was>>

\* releaseSpinlock after the locked part: freeSinglePage is over, a claim
\* that came too late searches on, one that won sets the bit again.
Unlock(c) ==
    /\ pc[c] = "unlock"
    /\ lock' = 0
    /\ Goto(c, IF freeing[c] THEN "idle" ELSE IF was[c] THEN "scan" ELSE "loadAgain")
    /\ UNCHANGED <<used, owned, freeing, scan, addr, reg, was>>

\* The releaseSpinlock at the end of allocateSinglePage, and its return: the
\* lock is not held by c any more, whoever holds it now.
UnlockAgain(c) ==
    /\ pc[c] = "unlockAgain"
    /\ lock' = 0
    /\ owned' = [owned EXCEPT ![c] = @ \cup {addr[c]}]
    /\ Goto(c, "idle")
    /\ UNCHANGED <<used, freeing, scan, addr, reg, was>>

Next == \E c \in Callers :
            \/ Allocate(c) \/ \E f \in owned[c] : FreeSinglePage(c, f)
            \/ ScanWord(c) \/ PickBit(c) \/ AcquireLock(c) \/ LoadByte(c)
            \/ StoreByte(c) \/ Unlock(c) \/ UnlockAgain(c)

Spec == Init /\ [][Next]_vars
------------------------------------------------------------------------------
\* No frame belongs to two callers: what the lock and the second look at the
\* bit ("Conceivable that changed in interim") are there for.
NoDoubleAllocation ==
    \A c, d \in Callers : c # d => owned[c] \cap owned[d] = {}

\* With one caller, "Memory full" and the NULL it leads to mean that the
\* bitmap has no clear bit left.
NullMeansFull == \A c \in Callers : pc[c] = "fail" => Frames \subseteq used
==============================================================================
