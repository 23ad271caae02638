------------------------------ MODULE PhysMemX86 ------------------------------
(***************************************************************************)
(* The physical memory manager of the i386 kernel, CX86DefaultPMemMngr     *)
(* (ChaiOS/arch/i386/pmmngrx86.cpp), used by several callers at once.      *)
(*                                                                         *)
(* One bit per page frame says whether the frame is used.                  *)
(* allocateSinglePage scans the bitmap a word at a time WITHOUT the lock,  *)
(* picks the first clear bit of a word it reads a second time, and only    *)
(* then takes m_bufferLock, tests the bit again and sets it; setUsed and   *)
(* setUsedUnlocked are read-modify-writes of one byte.  allocate(len)      *)
(* strings single pages together and gives them all back and starts again  *)
(* when they do not follow one another.                                    *)
(*                                                                         *)
(* Addresses are frame numbers; frame 0 is NULL, the failure result.       *)
(***************************************************************************)
EXTENDS Integers, FiniteSets

CONSTANTS Callers,          \* threads and CPUs using the manager
          FramesPerWord,    \* frames in one word of the scan (32)
          FramesPerByte,    \* frames in one byte of setUsed (8)
          Words,            \* words of the bitmap
          MemSize,          \* m_memorySize, in frames
          IdealStart,       \* m_IdealAllocStart, in frames
          Reserved,         \* frames the boot memory map leaves used
          Lengths,          \* lengths, in frames, callers ask for
          Limits            \* maxAcceptableAddr values, in frames (0: none)

Frames == 0 .. (Words * FramesPerWord - 1)

\* What the boot code guarantees (initialize and the multiboot memory map):
\* the low megabyte, so frame 0, is used, and so is what lies past the end of
\* memory in the last word; 16MB, the ideal start, is word-aligned.
ASSUME SizesOK ==
    /\ FramesPerWord \in Nat \ {0} /\ FramesPerByte \in Nat \ {0}
    /\ Words \in Nat \ {0}
    /\ MemSize \in 1 .. (Words * FramesPerWord)
    /\ IdealStart \in 0 .. (MemSize - 1)
    /\ IdealStart % FramesPerWord = 0
ASSUME ReservedOK == /\ Reserved \subseteq Frames
                     /\ 0 \in Reserved
                     /\ \A f \in Frames : f >= MemSize => f \in Reserved
ASSUME RequestsOK == /\ Lengths \subseteq Nat \ {0}
                     /\ Limits \subseteq 0 .. MemSize

VARIABLES
    used,       \* the frames whose bit is set
    lock,       \* m_bufferLock: 0 free, 1 taken
    owned,      \* owned[c]: frames returned to c and not given back yet
    pc,         \* where c is inside the manager
    want, max,  \* allocate's arguments
    base, cnt,  \* the run base .. base+cnt-1: gathered by allocate, or being freed
    prog,       \* allocateProg: the single page just claimed, 0 when none
    then,       \* what the frees are for: "none" while allocating, else
                \* "restart" (goto loopBegin), "fail" (return 0), "done"
    n, memSz, start,    \* allocateSinglePage: word index, end, allocStart
    addr,       \* the candidate frame
    reg, was    \* the byte read under the lock, and wasUsed

call == <<want, max>>
run  == <<base, cnt, prog, then>>
scan == <<n, memSz, start>>
vars == <<used, lock, owned, pc, call, run, scan, addr, reg, was>>

WordOf(f) == f \div FramesPerWord
ByteOf(f) == {g \in Frames : g \div FramesPerByte = f \div FramesPerByte}

\* The clear bits of word w.
ClearIn(w) == {f \in Frames \ used : WordOf(f) = w}

Run(c) == base[c] .. (base[c] + cnt[c] - 1)

\* Frames an operation of c in progress holds: neither free nor yet c's own.
InHand(c) == Run(c) \cup ({prog[c]} \ {0})

Init ==
    /\ used = Reserved
    /\ lock = 0
    /\ owned = [c \in Callers |-> {}]
    /\ pc    = [c \in Callers |-> "idle"]
    /\ want  = [c \in Callers |-> 0]     /\ max  = [c \in Callers |-> 0]
    /\ base  = [c \in Callers |-> 0]     /\ cnt  = [c \in Callers |-> 0]
    /\ prog  = [c \in Callers |-> 0]     /\ then = [c \in Callers |-> "none"]
    /\ n     = [c \in Callers |-> 0]     /\ start = [c \in Callers |-> 0]
    /\ memSz = [c \in Callers |-> 0]     /\ addr = [c \in Callers |-> 0]
    /\ reg   = [c \in Callers |-> {}]    /\ was  = [c \in Callers |-> FALSE]
------------------------------------------------------------------------------
\* Locals that go out of scope are cleared: those of allocateSinglePage when it
\* returns, those of allocate and free when the call returns.
LeaveScan(c) == /\ n'     = [n EXCEPT ![c] = 0]
                /\ memSz' = [memSz EXCEPT ![c] = 0]
                /\ start' = [start EXCEPT ![c] = 0]

Return(c) == /\ pc'   = [pc EXCEPT ![c] = "idle"]
             /\ want' = [want EXCEPT ![c] = 0]
             /\ max'  = [max EXCEPT ![c] = 0]
             /\ base' = [base EXCEPT ![c] = 0]
             /\ cnt'  = [cnt EXCEPT ![c] = 0]
             /\ then' = [then EXCEPT ![c] = "none"]

\* The head of allocateSinglePage(m): a limit at or below the ideal start
\* drops the ideal start, and memSz becomes the limit LESS the start.
BeginScan(c, m) ==
    LET s == IF m # 0 /\ m <= IdealStart THEN 0 ELSE IdealStart
    IN  /\ start' = [start EXCEPT ![c] = s]
        /\ memSz' = [memSz EXCEPT ![c] = IF m = 0 THEN MemSize ELSE m - s]
        /\ n'     = [n EXCEPT ![c] = s \div FramesPerWord]
        /\ pc'    = [pc EXCEPT ![c] = "scan"]

\* Mutant of NextPass: never look below the ideal start.
NextPassNever(c) == pc' = [pc EXCEPT ![c] = "fail"] /\ LeaveScan(c)

\* Mutant of NextPass: forget allocStart = 0.
NextPassForever(c) ==
    IF start[c] # 0
    THEN /\ memSz' = [memSz EXCEPT ![c] = start[c]]
         /\ n'     = [n EXCEPT ![c] = 0]
         /\ pc'    = [pc EXCEPT ![c] = "scan"]
         /\ UNCHANGED start
    ELSE pc' = [pc EXCEPT ![c] = "fail"] /\ LeaveScan(c)

\* A pass found nothing: search below the start once, else return NULL.
NextPass(c) ==
    IF start[c] # 0
    THEN /\ memSz' = [memSz EXCEPT ![c] = start[c]]
         /\ start' = [start EXCEPT ![c] = 0]
         /\ n'     = [n EXCEPT ![c] = 0]
         /\ pc'    = [pc EXCEPT ![c] = "scan"]
    ELSE pc' = [pc EXCEPT ![c] = "fail"] /\ LeaveScan(c)

\* allocate(l, m); allocateSinglePage(m) is the case l = 1.
Allocate(c, l, m) ==
    /\ pc[c] = "idle"
    /\ want' = [want EXCEPT ![c] = l]
    /\ max'  = [max EXCEPT ![c] = m]
    /\ BeginScan(c, m)
    /\ UNCHANGED <<used, lock, owned, run, addr, reg, was>>

\* free(a, l): the caller gives frames of its own back; freeSinglePage is l = 1.
Free(c, a, l) ==
    /\ pc[c] = "idle"
    /\ a .. (a + l - 1) \subseteq owned[c]
    /\ owned' = [owned EXCEPT ![c] = @ \ (a .. (a + l - 1))]
    /\ base'  = [base EXCEPT ![c] = a]
    /\ cnt'   = [cnt EXCEPT ![c] = l]
    /\ then'  = [then EXCEPT ![c] = "done"]
    /\ pc'    = [pc EXCEPT ![c] = "lock"]
    /\ UNCHANGED <<used, lock, call, prog, scan, addr, reg, was>>

Bound(c) == (memSz[c] - 1) \div FramesPerWord + 1

\* One round of the for loop at loopStart, an unlocked read of one word; the
\* loop leaves with n = Bound when every word up to the end was full.
ScanWord(c) ==
    /\ pc[c] = "scan"
    /\ \/ /\ n[c] < Bound(c) /\ ClearIn(n[c]) = {}
          /\ n' = [n EXCEPT ![c] = @ + 1]
          /\ UNCHANGED <<pc, memSz, start>>
       \/ /\ n[c] = Bound(c)
          /\ NextPass(c)
       \/ /\ n[c] > Bound(c) \/ (n[c] < Bound(c) /\ ClearIn(n[c]) # {})
          /\ pc' = [pc EXCEPT ![c] = "bit"]
          /\ UNCHANGED scan
    /\ UNCHANGED <<used, lock, owned, call, run, addr, reg, was>>

\* Mutant of PickBit: no check that the address is below the end.
PickBitAnywhere(c) ==
    /\ pc[c] = "bit"
    /\ \/ /\ ClearIn(n[c]) = {}
          /\ pc' = [pc EXCEPT ![c] = "scan"]
          /\ UNCHANGED addr
       \/ \E f \in ClearIn(n[c]) :
             /\ \A g \in ClearIn(n[c]) : f <= g
             /\ addr' = [addr EXCEPT ![c] = f]
             /\ pc' = [pc EXCEPT ![c] = "lock"]
    /\ UNCHANGED <<used, lock, owned, call, run, scan, reg, was>>

\* entry = buffer[n], a second unlocked read: its first clear bit is the
\* candidate, unless the word has filled up meanwhile (back to loopStart) or
\* the address is past the end of this pass.
PickBit(c) ==
    /\ pc[c] = "bit"
    /\ \/ /\ ClearIn(n[c]) = {}
          /\ pc' = [pc EXCEPT ![c] = "scan"]
          /\ UNCHANGED <<addr, scan>>
       \/ \E f \in ClearIn(n[c]) :
             /\ \A g \in ClearIn(n[c]) : f <= g
             /\ IF f >= memSz[c]
                THEN NextPass(c) /\ UNCHANGED addr
                ELSE /\ addr' = [addr EXCEPT ![c] = f]
                     /\ pc' = [pc EXCEPT ![c] = "lock"]
                     /\ UNCHANGED scan
    /\ UNCHANGED <<used, lock, owned, call, run, reg, was>>
------------------------------------------------------------------------------
Claiming(c) == then[c] = "none"

\* The frame whose bit c is about to change: the candidate of
\* allocateSinglePage, or the next frame of free(base, cnt), and after them
\* the page that did not follow on.
Target(c) == IF Claiming(c) THEN addr[c]
             ELSE IF cnt[c] > 0 THEN base[c] ELSE prog[c]

\* Mutant of AcquireLock: do not wait for the lock.
AcquireLockNow(c) ==
    /\ pc[c] = "lock"
    /\ lock' = 1
    /\ pc' = [pc EXCEPT ![c] = "load"]
    /\ UNCHANGED <<used, owned, call, run, scan, addr, reg, was>>

\* m_bufferLock.acquireSpinlock(), in setUsed and allocateSinglePage.
AcquireLock(c) ==
    /\ pc[c] = "lock"
    /\ lock = 0
    /\ lock' = 1
    /\ pc' = [pc EXCEPT ![c] = "load"]
    /\ UNCHANGED <<used, owned, call, run, scan, addr, reg, was>>

\* The read half of the read-modify-write, with wasUsed taken from it.
LoadByte(c) ==
    /\ pc[c] = "load"
    /\ reg' = [reg EXCEPT ![c] = used \cap ByteOf(Target(c))]
    /\ was' = [was EXCEPT ![c] = Claiming(c) /\ Target(c) \in used]
    /\ pc'  = [pc EXCEPT ![c] = "store"]
    /\ UNCHANGED <<used, lock, owned, call, run, scan, addr>>

\* Mutant of StoreSet: ignore wasUsed.
StoreSetBlindly(c) ==
    /\ pc[c] = "store" /\ Claiming(c)
    /\ used' = (used \ ByteOf(addr[c])) \cup reg[c] \cup {addr[c]}
    /\ prog' = [prog EXCEPT ![c] = addr[c]]
    /\ addr' = [addr EXCEPT ![c] = 0]
    /\ reg'  = [reg EXCEPT ![c] = {}]
    /\ was'  = [was EXCEPT ![c] = FALSE]
    /\ pc'   = [pc EXCEPT ![c] = "unlock"]
    /\ UNCHANGED <<lock, owned, call, base, cnt, then, scan>>

\* buffer[offset] |= bit of setUsedUnlocked: the whole byte is stored.
StoreSet(c) ==
    /\ pc[c] = "store" /\ Claiming(c)
    /\ used' = (used \ ByteOf(addr[c])) \cup reg[c] \cup {addr[c]}
    /\ prog' = [prog EXCEPT ![c] = IF was[c] THEN 0 ELSE addr[c]]
    /\ addr' = [addr EXCEPT ![c] = 0]
    /\ reg'  = [reg EXCEPT ![c] = {}]
    /\ pc'   = [pc EXCEPT ![c] = "unlock"]
    /\ UNCHANGED <<lock, owned, call, base, cnt, then, scan, was>>

\* Mutant of StoreClear: the loop of free counts past its end.
StoreClearTooMany(c) ==
    /\ pc[c] = "store" /\ ~Claiming(c)
    /\ used' = ((used \ ByteOf(Target(c))) \cup reg[c]) \ {Target(c)}
    /\ base' = [base EXCEPT ![c] = @ + 1]
    /\ cnt'  = [cnt EXCEPT ![c] = @ - 1]
    /\ reg'  = [reg EXCEPT ![c] = {}]
    /\ pc'   = [pc EXCEPT ![c] = "unlock"]
    /\ UNCHANGED <<lock, owned, call, prog, then, scan, addr, was>>

\* buffer[offset] &= ~bit of setUsed, called by free for one frame.
StoreClear(c) ==
    /\ pc[c] = "store" /\ ~Claiming(c)
    /\ used' = ((used \ ByteOf(Target(c))) \cup reg[c]) \ {Target(c)}
    /\ IF cnt[c] > 0
       THEN /\ base' = [base EXCEPT ![c] = @ + 1]
            /\ cnt'  = [cnt EXCEPT ![c] = @ - 1]
            /\ UNCHANGED prog
       ELSE prog' = [prog EXCEPT ![c] = 0] /\ UNCHANGED <<base, cnt>>
    /\ reg' = [reg EXCEPT ![c] = {}]
    /\ pc'  = [pc EXCEPT ![c] = "unlock"]
    /\ UNCHANGED <<lock, owned, call, then, scan, addr, was>>

\* Mutant of UnlockClaim: goto loopStart without releasing the lock.
UnlockClaimKeepsLock(c) ==
    /\ pc[c] = "unlock" /\ Claiming(c)
    /\ IF was[c]
       THEN pc' = [pc EXCEPT ![c] = "scan"] /\ UNCHANGED <<scan, lock>>
       ELSE pc' = [pc EXCEPT ![c] = "got"] /\ LeaveScan(c) /\ lock' = 0
    /\ was' = [was EXCEPT ![c] = FALSE]
    /\ UNCHANGED <<used, owned, call, run, addr, reg>>

\* releaseSpinlock() of allocateSinglePage: if the bit was set by somebody
\* else in the meantime the search goes on from the same word.
UnlockClaim(c) ==
    /\ pc[c] = "unlock" /\ Claiming(c)
    /\ lock' = 0
    /\ IF was[c]
       THEN pc' = [pc EXCEPT ![c] = "scan"] /\ UNCHANGED scan
       ELSE pc' = [pc EXCEPT ![c] = "got"] /\ LeaveScan(c)
    /\ was' = [was EXCEPT ![c] = FALSE]
    /\ UNCHANGED <<used, owned, call, run, addr, reg>>

\* releaseSpinlock() of setUsed, and the end of the loop in free: on with the
\* next frame, or on with what the frees were for.
UnlockFree(c) ==
    /\ pc[c] = "unlock" /\ ~Claiming(c)
    /\ lock' = 0
    /\ \/ /\ InHand(c) # {}
          /\ pc' = [pc EXCEPT ![c] = "lock"]
          /\ UNCHANGED <<call, base, cnt, then, scan>>
       \/ /\ InHand(c) = {} /\ then[c] = "restart"
          /\ then' = [then EXCEPT ![c] = "none"]
          /\ base' = [base EXCEPT ![c] = 0]
          /\ BeginScan(c, max[c])
          /\ UNCHANGED <<call, cnt>>
       \/ /\ InHand(c) = {} /\ then[c] # "restart"
          /\ Return(c)
          /\ UNCHANGED scan
    /\ UNCHANGED <<used, owned, prog, addr, reg, was>>
------------------------------------------------------------------------------
\* allocateSinglePage returned a page to allocate: it is the first or follows
\* the run, and the last one completes the region ...
Extend(c) ==
    /\ pc[c] = "got"
    /\ cnt[c] = 0 \/ prog[c] = base[c] + cnt[c]
    /\ IF cnt[c] + 1 = want[c]
       THEN /\ owned' = [owned EXCEPT ![c] = @ \cup InHand(c)]
            /\ Return(c)
            /\ UNCHANGED scan
       ELSE /\ base' = [base EXCEPT ![c] = IF cnt[c] = 0 THEN prog[c] ELSE @]
            /\ cnt'  = [cnt EXCEPT ![c] = @ + 1]
            /\ BeginScan(c, max[c])
            /\ UNCHANGED <<owned, call, then>>
    /\ prog' = [prog EXCEPT ![c] = 0]
    /\ UNCHANGED <<used, lock, addr, reg, was>>

\* Mutant of StartAgain: forget freeSinglePage(allocateProg).
StartAgainLeaks(c) ==
    /\ pc[c] = "got"
    /\ cnt[c] # 0 /\ prog[c] # base[c] + cnt[c]
    /\ prog' = [prog EXCEPT ![c] = 0]
    /\ then' = [then EXCEPT ![c] = "restart"]
    /\ pc'   = [pc EXCEPT ![c] = "lock"]
    /\ UNCHANGED <<used, lock, owned, call, base, cnt, scan, addr, reg, was>>

\* ... or it does not follow: free everything and goto loopBegin.
StartAgain(c) ==
    /\ pc[c] = "got"
    /\ cnt[c] # 0 /\ prog[c] # base[c] + cnt[c]
    /\ then' = [then EXCEPT ![c] = "restart"]
    /\ pc'   = [pc EXCEPT ![c] = "lock"]
    /\ UNCHANGED <<used, lock, owned, call, base, cnt, prog, scan, addr, reg, was>>

\* allocateSinglePage returned NULL: free what was gathered, return 0.
GiveUp(c) ==
    /\ pc[c] = "fail"
    /\ IF cnt[c] = 0
       THEN Return(c)
       ELSE /\ then' = [then EXCEPT ![c] = "fail"]
            /\ pc'   = [pc EXCEPT ![c] = "lock"]
            /\ UNCHANGED <<call, base, cnt>>
    /\ UNCHANGED <<used, lock, owned, prog, scan, addr, reg, was>>

\* The steps of a call in progress.
Step(c) ==
    \/ ScanWord(c) \/ PickBit(c)
    \/ AcquireLock(c) \/ LoadByte(c) \/ StoreSet(c) \/ StoreClear(c)
    \/ UnlockClaim(c) \/ UnlockFree(c)
    \/ Extend(c) \/ StartAgain(c) \/ GiveUp(c)

Call(c) ==
    \/ \E l \in Lengths, m \in Limits : Allocate(c, l, m)
    \/ \E a \in owned[c], l \in Lengths : Free(c, a, l)

Next == \E c \in Callers : Call(c) \/ Step(c)

Spec == Init /\ [][Next]_vars

\* A caller inside the manager keeps running; nobody has to call it.
FairSpec == Spec /\ \A c \in Callers : WF_vars(Step(c))
------------------------------------------------------------------------------
TypeOK ==
    /\ used \subseteq Frames
    /\ lock \in {0, 1}
    /\ owned \in [Callers -> SUBSET Frames]
    /\ pc \in [Callers -> {"idle", "scan", "bit", "lock", "load", "store",
                           "unlock", "got", "fail"}]
    /\ want \in [Callers -> Nat] /\ max \in [Callers -> 0 .. MemSize]
    /\ base \in [Callers -> Nat] /\ cnt \in [Callers -> Nat]
    /\ prog \in [Callers -> Frames]
    /\ then \in [Callers -> {"none", "restart", "fail", "done"}]
    /\ n \in [Callers -> Nat] /\ memSz \in [Callers -> Nat]
    /\ start \in [Callers -> Nat]
    /\ addr \in [Callers -> Frames]
    /\ reg \in [Callers -> SUBSET Frames] /\ was \in [Callers -> BOOLEAN]

Held(c) == owned[c] \cup InHand(c)

\* No frame is in two hands at once, whether it was returned to a caller or
\* an allocation or free in progress still holds it; nor is a reserved frame
\* in anybody's.  allocateSinglePage chooses the frame with no lock held.
NoDoubleAllocation ==
    /\ \A c, d \in Callers : c # d => Held(c) \cap Held(d) = {}
    /\ \A c \in Callers : Held(c) \cap Reserved = {} /\ owned[c] \cap InHand(c) = {}

\* The bitmap is exact: a bit is set for the reserved frames and for the
\* frames somebody holds, and for no other.  A set bit nobody holds is a
\* leaked frame, which no later call can find; a clear bit of a held frame
\* will be handed out again.
BitmapExact ==
    \A f \in Frames :
        f \in used <=> (f \in Reserved \/ \E c \in Callers : f \in Held(c))

\* The manager implements the abstract frame allocator: the store of the byte
\* under the lock is where a frame changes hands.
Abstract == INSTANCE FrameAllocator WITH held <- [c \in Callers |-> Held(c)]
ImplementsFrameAllocator == Abstract!Spec

\* A page that allocateSinglePage returns is not NULL and lies below the
\* caller's limit and inside memory.
ResultInRange ==
    \A c \in Callers : pc[c] = "got" =>
        prog[c] \in 1 .. ((IF max[c] = 0 THEN MemSize ELSE max[c]) - 1)

\* A call for a single page, or a free, that is not disturbed for ever
\* returns: once the other callers stay out of the manager, so does the last
\* one inside.  (Of a region it does not hold: allocate gives everything back
\* before it starts again, and finds the same pages.)
CallsReturnAlone == \A c \in Callers :
    <>[](want[c] <= 1 /\ \A d \in Callers \ {c} : pc[d] = "idle") => []<>(pc[c] = "idle")

\* The retry loop (goto loopStart when somebody else took the bit) is
\* lock-free: the callers cannot keep each other searching for ever without
\* one of them coming out of allocateSinglePage or setUsed.
SomebodyComesOut == []<>(\E c \in Callers : pc[c] \in {"idle", "got", "fail"})
==============================================================================
