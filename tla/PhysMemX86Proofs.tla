--------------------------- MODULE PhysMemX86Proofs ---------------------------
(***************************************************************************)
(* Proofs about the i386 physical memory manager, for any callers, bitmap  *)
(* size, memory map and requests: no frame is handed out twice and the     *)
(* bitmap is exact, whatever the interleaving of the unlocked scans, the   *)
(* locked updates and the frees; a page is within the caller's limits, and *)
(* a search fails only when no frame was free all the while.               *)
(***************************************************************************)
EXTENDS PhysMemX86MC, TLAPS

Locked == {"load", "store", "unlock"}

\* m_bufferLock is set while a caller is between acquire and release, and
\* then there is only one such caller.
LockInv == /\ \A c \in Callers : pc[c] \in Locked => lock = 1
           /\ \A c, d \in Callers : pc[c] \in Locked /\ pc[d] \in Locked => c = d

\* What the locals of a call are worth at each place in it.
PlaceInv == \A c \in Callers :
    /\ pc[c] = "idle" => cnt[c] = 0
    /\ pc[c] \in {"idle", "scan", "bit", "fail"} => then[c] = "none" /\ prog[c] = 0
    /\ pc[c] = "got" => then[c] = "none" /\ prog[c] # 0
    /\ pc[c] \in {"lock", "load", "store"} =>
          IF then[c] = "none" THEN prog[c] = 0 ELSE cnt[c] > 0 \/ prog[c] # 0
    /\ pc[c] = "unlock" /\ then[c] = "none" => (was[c] <=> prog[c] = 0)

\* Between its read and its store, the byte has not changed.
ByteInv == \A c \in Callers : pc[c] = "store" =>
    /\ reg[c] = used \cap ByteOf(Target(c))
    /\ was[c] <=> (Claiming(c) /\ Target(c) \in used)

\* The run of a call lies in memory and does not contain its loose page.
RunInv == \A c \in Callers : Run(c) \subseteq Frames /\ prog[c] \notin Run(c)

\* NoDoubleAllocation is not inductive: that the store under the lock claims
\* a frame nobody holds needs the bitmap to be exact and the byte just read to
\* be current, hence the lock.
IInv == /\ TypeOK /\ LockInv /\ PlaceInv /\ ByteInv /\ RunInv
        /\ NoDoubleAllocation /\ BitmapExact
------------------------------------------------------------------------------
LEMMA ConstantFacts ==
    /\ MemSize \in Nat /\ IdealStart \in Nat /\ IdealStart < MemSize
    /\ Reserved \subseteq Frames /\ 0 \in Frames /\ 0 \in Reserved
    /\ Frames \subseteq Nat
    /\ Lengths \subseteq Nat \ {0}
    /\ \A m \in Limits : m \in Nat /\ m <= MemSize
BY SizesOK, ReservedOK, RequestsOK DEF Frames

LEMMA DivNat == \A k \in Nat : k \div FramesPerWord \in Nat
<1> SUFFICES ASSUME NEW k \in Nat PROVE k \div FramesPerWord \in Nat
  OBVIOUS
<1>1. FramesPerWord \in Nat /\ FramesPerWord > 0
  BY SizesOK
<1> QED
  BY <1>1, Z3

\* A frame is in its own byte.
LEMMA InOwnByte == \A f \in Frames : f \in ByteOf(f) /\ ByteOf(f) \subseteq Frames
BY DEF ByteOf

\* The head of allocateSinglePage sets its locals to naturals.
LEMMA BeginScanTypes ==
    ASSUME TypeOK, NEW c \in Callers, NEW m \in Nat, m <= MemSize, BeginScan(c, m)
    PROVE  /\ n' \in [Callers -> Nat] /\ memSz' \in [Callers -> Nat]
           /\ start' \in [Callers -> Nat]
<1>1. (IF m # 0 /\ m <= IdealStart THEN 0 ELSE IdealStart) \in Nat
  BY ConstantFacts
<1>2. (IF m # 0 /\ m <= IdealStart THEN 0 ELSE IdealStart) \div FramesPerWord \in Nat
  BY <1>1, DivNat
<1>3. (IF m = 0 THEN MemSize
       ELSE m - (IF m # 0 /\ m <= IdealStart THEN 0 ELSE IdealStart)) \in Nat
  BY ConstantFacts
<1> QED
  BY <1>1, <1>2, <1>3 DEF BeginScan, TypeOK

LEMMA InitIInv == Init => IInv
<1> SUFFICES ASSUME Init PROVE IInv
  OBVIOUS
<1>1. TypeOK
  BY ConstantFacts DEF Init, TypeOK
<1>2. \A c \in Callers : Run(c) = {} /\ InHand(c) = {}
  BY DEF Init, Run, InHand
<1>3. LockInv /\ PlaceInv /\ ByteInv
  BY DEF Init, LockInv, PlaceInv, ByteInv, Locked
<1>4. RunInv
  BY <1>2 DEF RunInv
<1>5. NoDoubleAllocation /\ BitmapExact
  BY <1>2 DEF Init, NoDoubleAllocation, BitmapExact, Held
<1> QED
  BY <1>1, <1>3, <1>4, <1>5 DEF IInv
------------------------------------------------------------------------------
\* Steps that move no frame between hands keep the holdings as they are.
LEMMA HoldingsStay ==
    ASSUME NoDoubleAllocation, BitmapExact, used' = used,
           \A c \in Callers : Held(c)' = Held(c) /\ (owned[c] \cap InHand(c))' = {}
    PROVE  NoDoubleAllocation' /\ BitmapExact'
BY DEF NoDoubleAllocation, BitmapExact

\* Steps outside the lock's section, of a caller that is not inside it
\* afterwards either, keep LockInv and ByteInv of everybody.
LEMMA OutsideLock ==
    ASSUME IInv, NEW c \in Callers, NEW p, pc' = [pc EXCEPT ![c] = p],
           pc[c] \notin Locked, p \notin Locked,
           UNCHANGED <<used, lock, reg, was>>,
           \A d \in Callers \ {c} : Target(d)' = Target(d) /\ Claiming(d)' = Claiming(d)
    PROVE  LockInv' /\ ByteInv'
<1>1. LockInv'
  BY DEF IInv, TypeOK, LockInv
<1>2. ByteInv'
  BY DEF IInv, TypeOK, ByteInv, Locked
<1> QED
  BY <1>1, <1>2

\* The locals that holdings and targets are made of, left alone.
LEMMA FrameOfRun ==
    ASSUME UNCHANGED <<run, owned, addr>>
    PROVE  \A c \in Callers : /\ Run(c)' = Run(c) /\ InHand(c)' = InHand(c)
                              /\ Held(c)' = Held(c) /\ (owned[c] \cap InHand(c))' = owned[c] \cap InHand(c)
                              /\ Target(c)' = Target(c) /\ Claiming(c)' = Claiming(c)
BY DEF run, Run, InHand, Held, Target, Claiming

LEMMA AllocateStep ==
    ASSUME IInv, NEW c \in Callers, NEW l \in Lengths, NEW m \in Limits, Allocate(c, l, m)
    PROVE  IInv'
<1> USE DEF Allocate
<1>1. TypeOK'
  <2>1. n' \in [Callers -> Nat] /\ memSz' \in [Callers -> Nat] /\ start' \in [Callers -> Nat]
    BY BeginScanTypes, ConstantFacts DEF IInv
  <2>2. pc' = [pc EXCEPT ![c] = "scan"]
    BY DEF BeginScan
  <2> QED
    BY <2>1, <2>2, ConstantFacts DEF IInv, TypeOK, run
<1>2. pc' = [pc EXCEPT ![c] = "scan"]
  BY DEF BeginScan
<1>3. LockInv' /\ ByteInv'
  <2>1. /\ UNCHANGED <<used, lock, reg, was>>
        /\ pc[c] \notin Locked /\ "scan" \notin Locked
    BY DEF Locked
  <2>2. \A d \in Callers \ {c} : Target(d)' = Target(d) /\ Claiming(d)' = Claiming(d)
    BY FrameOfRun
  <2> QED
    BY <1>2, <2>1, <2>2, OutsideLock
<1>4. PlaceInv'
  BY <1>2 DEF IInv, TypeOK, PlaceInv, run
<1>5. RunInv'
  BY FrameOfRun DEF IInv, RunInv, run
<1>6. NoDoubleAllocation' /\ BitmapExact'
  BY FrameOfRun, HoldingsStay DEF IInv, NoDoubleAllocation
<1> QED
  BY <1>1, <1>3, <1>4, <1>5, <1>6 DEF IInv

LEMMA FreeStep ==
    ASSUME IInv, NEW c \in Callers, NEW a \in owned[c], NEW l \in Lengths, Free(c, a, l)
    PROVE  IInv'
<1> DEFINE F == a .. (a + l - 1)
<1>1. /\ pc[c] = "idle" /\ cnt[c] = 0 /\ prog[c] = 0 /\ then[c] = "none"
      /\ a \in Nat /\ l \in Nat /\ l > 0 /\ F \subseteq owned[c] /\ owned[c] \subseteq Frames
  BY ConstantFacts DEF Free, IInv, PlaceInv, TypeOK
<1>2. /\ Run(c) = {} /\ InHand(c) = {} /\ Run(c)' = F /\ InHand(c)' = F
      /\ owned'[c] = owned[c] \ F
  BY <1>1 DEF Free, IInv, TypeOK, Run, InHand
<1>3. \A d \in Callers \ {c} : /\ Run(d)' = Run(d) /\ InHand(d)' = InHand(d)
                               /\ owned'[d] = owned[d]
                               /\ Target(d)' = Target(d) /\ Claiming(d)' = Claiming(d)
  BY DEF Free, IInv, TypeOK, Run, InHand, Target, Claiming
<1>4. TypeOK'
  BY <1>1 DEF Free, IInv, TypeOK, call, scan
<1>5. LockInv' /\ ByteInv'
  <2>1. /\ pc' = [pc EXCEPT ![c] = "lock"] /\ UNCHANGED <<used, lock, reg, was>>
        /\ pc[c] \notin Locked /\ "lock" \notin Locked
    BY DEF Free, Locked
  <2> QED
    BY <1>3, <2>1, OutsideLock
<1>6. PlaceInv'
  BY <1>1 DEF Free, IInv, TypeOK, PlaceInv
<1>7. RunInv'
  <2>1. 0 \notin F
    BY <1>1, ConstantFacts DEF IInv, NoDoubleAllocation, Held
  <2> QED
    BY <1>1, <1>2, <1>3, <2>1 DEF Free, IInv, RunInv
<1>8. NoDoubleAllocation' /\ BitmapExact'
  <2>1. \A d \in Callers : Held(d)' = Held(d) /\ (owned[d] \cap InHand(d))' = {}
    BY <1>1, <1>2, <1>3 DEF Held, IInv, NoDoubleAllocation
  <2> QED
    BY <2>1, HoldingsStay DEF Free, IInv
<1> QED
  BY <1>4, <1>5, <1>6, <1>7, <1>8 DEF IInv

\* A step of the unlocked search that moves on to another word, another pass,
\* the second read or the failure result.
LEMMA SearchStep ==
    ASSUME IInv, NEW c \in Callers, NEW p \in {"scan", "bit", "fail"},
           pc[c] \in {"scan", "bit"}, pc' = [pc EXCEPT ![c] = p],
           UNCHANGED <<used, lock, owned, call, run, addr, reg, was>>,
           n' \in [Callers -> Nat], memSz' \in [Callers -> Nat], start' \in [Callers -> Nat]
    PROVE  IInv'
<1>1. TypeOK'
  BY DEF IInv, TypeOK, call, run
<1>2. LockInv' /\ ByteInv'
  <2>1. pc[c] \notin Locked /\ p \notin Locked
    BY DEF Locked
  <2>2. \A d \in Callers \ {c} : Target(d)' = Target(d) /\ Claiming(d)' = Claiming(d)
    BY FrameOfRun
  <2> QED
    BY <2>1, <2>2, OutsideLock
<1>3. PlaceInv'
  BY DEF IInv, TypeOK, PlaceInv, run
<1>4. RunInv'
  BY FrameOfRun DEF IInv, RunInv, run
<1>5. NoDoubleAllocation' /\ BitmapExact'
  BY FrameOfRun, HoldingsStay DEF IInv, NoDoubleAllocation
<1> QED
  BY <1>1, <1>2, <1>3, <1>4, <1>5 DEF IInv

LEMMA NextPassStep ==
    ASSUME IInv, NEW c \in Callers, pc[c] \in {"scan", "bit"}, NextPass(c),
           UNCHANGED <<used, lock, owned, call, run, addr, reg, was>>
    PROVE  IInv'
<1>1. PICK p \in {"scan", "fail"} : pc' = [pc EXCEPT ![c] = p]
  BY DEF NextPass
<1>2. n' \in [Callers -> Nat] /\ memSz' \in [Callers -> Nat] /\ start' \in [Callers -> Nat]
  BY DEF NextPass, LeaveScan, IInv, TypeOK
<1> QED
  BY <1>1, <1>2, SearchStep

LEMMA ScanWordStep ==
    ASSUME IInv, NEW c \in Callers, ScanWord(c)
    PROVE  IInv'
<1>1. /\ pc[c] = "scan"
      /\ UNCHANGED <<used, lock, owned, call, run, addr, reg, was>>
  BY DEF ScanWord
<1>2. CASE n' = [n EXCEPT ![c] = @ + 1] /\ UNCHANGED <<pc, memSz, start>>
  <2>1. pc' = [pc EXCEPT ![c] = "scan"]
    BY <1>1, <1>2 DEF IInv, TypeOK
  <2>2. n' \in [Callers -> Nat] /\ memSz' \in [Callers -> Nat] /\ start' \in [Callers -> Nat]
    BY <1>2 DEF IInv, TypeOK
  <2> QED
    BY <1>1, <2>1, <2>2, SearchStep
<1>3. CASE NextPass(c)
  BY <1>1, <1>3, NextPassStep
<1>4. CASE pc' = [pc EXCEPT ![c] = "bit"] /\ UNCHANGED scan
  <2>1. n' \in [Callers -> Nat] /\ memSz' \in [Callers -> Nat] /\ start' \in [Callers -> Nat]
    BY <1>4 DEF IInv, TypeOK, scan
  <2> QED
    BY <1>1, <1>4, <2>1, SearchStep
<1> QED
  BY <1>2, <1>3, <1>4 DEF ScanWord

LEMMA PickBitStep ==
    ASSUME IInv, NEW c \in Callers, PickBit(c)
    PROVE  IInv'
<1>1. /\ pc[c] = "bit"
      /\ UNCHANGED <<used, lock, owned, call, run, reg, was>>
  BY DEF PickBit
<1>2. CASE pc' = [pc EXCEPT ![c] = "scan"] /\ UNCHANGED <<addr, scan>>
  <2>1. n' \in [Callers -> Nat] /\ memSz' \in [Callers -> Nat] /\ start' \in [Callers -> Nat]
    BY <1>2 DEF IInv, TypeOK, scan
  <2> QED
    BY <1>1, <1>2, <2>1, SearchStep
<1>3. CASE NextPass(c) /\ UNCHANGED addr
  BY <1>1, <1>3, NextPassStep
<1>4. ASSUME NEW f \in ClearIn(n[c]), addr' = [addr EXCEPT ![c] = f],
             pc' = [pc EXCEPT ![c] = "lock"], UNCHANGED scan
      PROVE  IInv'
  <2>1. f \in Frames
    BY DEF ClearIn
  <2>2. TypeOK'
    BY <1>1, <1>4, <2>1 DEF IInv, TypeOK, call, run, scan
  <2>3. LockInv' /\ ByteInv'
    <3>1. pc[c] \notin Locked /\ "lock" \notin Locked
      BY <1>1 DEF Locked
    <3>2. \A d \in Callers \ {c} : Target(d)' = Target(d) /\ Claiming(d)' = Claiming(d)
      BY <1>1, <1>4 DEF IInv, TypeOK, run, Target, Claiming
    <3> QED
      BY <1>1, <1>4, <3>1, <3>2, OutsideLock
  <2>4. PlaceInv'
    BY <1>1, <1>4 DEF IInv, TypeOK, PlaceInv, run
  <2>5. \A d \in Callers : Run(d)' = Run(d) /\ InHand(d)' = InHand(d) /\ Held(d)' = Held(d)
    BY <1>1 DEF run, Run, InHand, Held
  <2>6. RunInv'
    BY <1>1, <2>5 DEF IInv, RunInv, run
  <2>7. NoDoubleAllocation' /\ BitmapExact'
    BY <1>1, <2>5, HoldingsStay DEF IInv, NoDoubleAllocation
  <2> QED
    BY <2>2, <2>3, <2>4, <2>6, <2>7 DEF IInv
<1> QED
  BY <1>2, <1>3, <1>4 DEF PickBit

LEMMA AcquireLockStep ==
    ASSUME IInv, NEW c \in Callers, AcquireLock(c)
    PROVE  IInv'
<1> USE DEF AcquireLock
<1>1. TypeOK'
  BY DEF IInv, TypeOK, call, run, scan
<1>2. LockInv'
  BY DEF IInv, TypeOK, LockInv, Locked
<1>3. PlaceInv'
  BY DEF IInv, TypeOK, PlaceInv, run
<1>4. ByteInv'
  BY FrameOfRun DEF IInv, TypeOK, ByteInv
<1>5. RunInv'
  BY FrameOfRun DEF IInv, RunInv, run
<1>6. NoDoubleAllocation' /\ BitmapExact'
  BY FrameOfRun, HoldingsStay DEF IInv, NoDoubleAllocation
<1> QED
  BY <1>1, <1>2, <1>3, <1>4, <1>5, <1>6 DEF IInv

\* The frame a caller works on is a frame, and in a free one of its own.
LEMMA TargetFacts ==
    ASSUME IInv, NEW c \in Callers
    PROVE  /\ Claiming(c) => Target(c) = addr[c] /\ addr[c] \in Frames
           /\ Target(c) \in Frames
           /\ pc[c] \in {"lock", "load", "store"} /\ ~Claiming(c)
                 => Target(c) \in InHand(c)
<1>1. Claiming(c) => Target(c) = addr[c] /\ addr[c] \in Frames
  BY DEF IInv, TypeOK, Claiming, Target
<1>2. CASE cnt[c] > 0
  <2>1. base[c] \in Run(c)
    BY <1>2 DEF IInv, TypeOK, Run
  <2> QED
    BY <1>1, <1>2, <2>1 DEF IInv, RunInv, Target, Claiming, InHand
<1>3. CASE cnt[c] = 0
  BY <1>1, <1>3 DEF IInv, TypeOK, PlaceInv, Target, Claiming, InHand
<1> QED
  BY <1>2, <1>3 DEF IInv, TypeOK

LEMMA LoadByteStep ==
    ASSUME IInv, NEW c \in Callers, LoadByte(c)
    PROVE  IInv'
<1> USE DEF LoadByte
<1>1. TypeOK'
  BY DEF IInv, TypeOK, call, run, scan
<1>2. LockInv'
  BY DEF IInv, TypeOK, LockInv, Locked
<1>3. PlaceInv'
  BY DEF IInv, TypeOK, PlaceInv, run
<1>4. ByteInv'
  <2> SUFFICES ASSUME NEW d \in Callers, pc'[d] = "store"
               PROVE  /\ reg'[d] = used \cap ByteOf(Target(d))
                      /\ was'[d] <=> (Claiming(d) /\ Target(d) \in used)
    BY FrameOfRun DEF ByteInv
  <2>1. CASE d = c
    <3>1. reg'[c] = used \cap ByteOf(Target(c))
      BY DEF IInv, TypeOK
    <3>2. was'[c] = (Claiming(c) /\ Target(c) \in used)
      BY DEF IInv, TypeOK
    <3> QED
      BY <2>1, <3>1, <3>2
  <2>2. CASE d # c
    <3>1. pc[d] = "store" /\ reg'[d] = reg[d] /\ was'[d] = was[d]
      BY <2>2 DEF IInv, TypeOK
    <3> QED
      BY <3>1 DEF IInv, ByteInv
  <2> QED
    BY <2>1, <2>2
<1>5. RunInv'
  BY FrameOfRun DEF IInv, RunInv, run
<1>6. NoDoubleAllocation' /\ BitmapExact'
  BY FrameOfRun, HoldingsStay DEF IInv, NoDoubleAllocation
<1> QED
  BY <1>1, <1>2, <1>3, <1>4, <1>5, <1>6 DEF IInv

LEMMA StoreSetStep ==
    ASSUME IInv, NEW c \in Callers, StoreSet(c)
    PROVE  IInv'
<1> DEFINE f == addr[c]
<1>1. /\ pc[c] = "store" /\ then[c] = "none" /\ prog[c] = 0 /\ Target(c) = f /\ f \in Frames
      /\ reg[c] = used \cap ByteOf(f) /\ (was[c] <=> f \in used)
  BY TargetFacts DEF StoreSet, IInv, PlaceInv, ByteInv, Claiming
<1>2. used' = used \cup {f}
  BY <1>1, InOwnByte DEF StoreSet, IInv, TypeOK
<1>3. pc' = [pc EXCEPT ![c] = "unlock"] /\ \A d \in Callers \ {c} : pc[d] \notin Locked
  BY <1>1 DEF StoreSet, IInv, LockInv, Locked
<1>4. \A d \in Callers : Run(d)' = Run(d)
  BY DEF StoreSet, Run
<1>5. \A d \in Callers \ {c} : InHand(d)' = InHand(d) /\ owned'[d] = owned[d]
  BY DEF StoreSet, IInv, TypeOK, Run, InHand
<1>6. TypeOK'
  BY <1>1, <1>2, ConstantFacts DEF StoreSet, IInv, TypeOK, call, scan
<1>7. LockInv'
  BY <1>3 DEF StoreSet, IInv, TypeOK, LockInv, Locked
<1>8. ByteInv'
  BY <1>3 DEF IInv, TypeOK, ByteInv, Locked
<1>9. CASE was[c]
  <2>1. prog' = prog
    BY <1>1, <1>9 DEF StoreSet, IInv, TypeOK
  <2>2. PlaceInv'
    BY <1>1, <1>3, <1>9, <2>1 DEF StoreSet, IInv, TypeOK, PlaceInv
  <2>3. RunInv'
    BY <1>4, <2>1 DEF IInv, RunInv
  <2>4. \A d \in Callers : /\ Held(d)' = Held(d)
                           /\ (owned[d] \cap InHand(d))' = owned[d] \cap InHand(d)
    BY <1>4, <2>1 DEF StoreSet, Held, InHand
  <2>5. used' = used
    BY <1>1, <1>2, <1>9
  <2>6. NoDoubleAllocation' /\ BitmapExact'
    BY <2>4, <2>5, HoldingsStay DEF IInv, NoDoubleAllocation
  <2> QED
    BY <1>6, <1>7, <1>8, <2>2, <2>3, <2>6 DEF IInv
<1>10. CASE ~was[c]
  <2>1. f \notin used /\ f \notin Reserved /\ f # 0 /\ \A d \in Callers : f \notin Held(d)
    BY <1>1, <1>10, ConstantFacts DEF IInv, BitmapExact
  <2>2. prog'[c] = f /\ InHand(c)' = InHand(c) \cup {f} /\ owned' = owned
    BY <1>1, <1>4, <1>10, <2>1 DEF StoreSet, IInv, TypeOK, InHand
  <2>3. PlaceInv'
    BY <1>1, <1>3, <1>10, <2>1, <2>2 DEF StoreSet, IInv, TypeOK, PlaceInv
  <2>4. RunInv'
    BY <1>4, <2>1, <2>2 DEF StoreSet, IInv, TypeOK, RunInv, Held, InHand
  <2>5. Held(c)' = Held(c) \cup {f} /\ \A d \in Callers \ {c} : Held(d)' = Held(d)
    BY <1>5, <2>2 DEF Held
  <2>6. NoDoubleAllocation'
    BY <1>5, <2>1, <2>2, <2>5 DEF IInv, NoDoubleAllocation, Held
  <2>7. BitmapExact'
    BY <1>2, <2>5 DEF IInv, BitmapExact
  <2> QED
    BY <1>6, <1>7, <1>8, <2>3, <2>4, <2>6, <2>7 DEF IInv
<1> QED
  BY <1>9, <1>10

\* The store of setUsed takes exactly its target out of the hand of c.
LEMMA ClearedFrame ==
    ASSUME IInv, NEW c \in Callers, StoreClear(c)
    PROVE  /\ Target(c) \in InHand(c) /\ Target(c) \in Frames
           /\ InHand(c)' = InHand(c) \ {Target(c)}
           /\ Run(c)' = Run(c) \ {Target(c)} /\ prog'[c] \notin Run(c)'
           /\ \A d \in Callers \ {c} : /\ Run(d)' = Run(d) /\ InHand(d)' = InHand(d)
                                        /\ prog'[d] = prog[d]
<1> DEFINE t == Target(c)
<1>1. /\ pc[c] = "store" /\ then[c] # "none" /\ t \in Frames /\ t \in InHand(c)
  BY TargetFacts DEF StoreClear, IInv, Claiming
<1>2. \A d \in Callers \ {c} : /\ Run(d)' = Run(d) /\ InHand(d)' = InHand(d)
                               /\ prog'[d] = prog[d]
  BY DEF StoreClear, IInv, TypeOK, Run, InHand
<1>3. /\ Run(c)' = Run(c) \ {t} /\ prog'[c] \notin Run(c)'
      /\ InHand(c)' = InHand(c) \ {t}
  <2>1. CASE cnt[c] > 0
    <3>1. /\ t = base[c] /\ base[c] \in Nat /\ cnt[c] \in Nat
          /\ base'[c] = base[c] + 1 /\ cnt'[c] = cnt[c] - 1 /\ prog'[c] = prog[c]
      BY <1>1, <2>1 DEF StoreClear, IInv, TypeOK, Target, Claiming
    <3>2. Run(c)' = Run(c) \ {t} /\ t \in Run(c)
      BY <2>1, <3>1 DEF Run
    <3>3. prog[c] \notin Run(c)
      BY DEF IInv, RunInv
    <3> QED
      BY <3>1, <3>2, <3>3 DEF InHand
  <2>2. CASE cnt[c] = 0
    <3>1. /\ t = prog[c] /\ prog'[c] = 0 /\ UNCHANGED <<base, cnt>>
      BY <1>1, <2>2 DEF StoreClear, IInv, TypeOK, Target, Claiming
    <3>2. Run(c) = {} /\ Run(c)' = {}
      BY <2>2, <3>1 DEF IInv, TypeOK, Run
    <3> QED
      BY <3>1, <3>2 DEF InHand
  <2> QED
    BY <2>1, <2>2 DEF IInv, TypeOK
<1> QED
  BY <1>1, <1>2, <1>3

LEMMA StoreClearStep ==
    ASSUME IInv, NEW c \in Callers, StoreClear(c)
    PROVE  IInv'
<1> DEFINE t == Target(c)
<1>1. /\ pc[c] = "store" /\ then[c] # "none" /\ t \in Frames /\ t \in InHand(c)
      /\ reg[c] = used \cap ByteOf(t)
  BY TargetFacts DEF StoreClear, IInv, ByteInv, Claiming
<1>2. used' = used \ {t}
  BY <1>1, InOwnByte DEF StoreClear, IInv, TypeOK
<1>3. pc' = [pc EXCEPT ![c] = "unlock"] /\ \A d \in Callers \ {c} : pc[d] \notin Locked
  BY <1>1 DEF StoreClear, IInv, LockInv, Locked
<1>4. \A d \in Callers \ {c} : /\ Run(d)' = Run(d) /\ InHand(d)' = InHand(d)
                               /\ prog'[d] = prog[d]
  BY ClearedFrame
<1>5. /\ Run(c)' = Run(c) \ {t} /\ prog'[c] \notin Run(c)'
      /\ InHand(c)' = InHand(c) \ {t}
  BY ClearedFrame
<1>6. TypeOK'
  <2>1. base' \in [Callers -> Nat] /\ cnt' \in [Callers -> Nat]
    <3>1. CASE cnt[c] > 0
      <4>1. cnt[c] - 1 \in Nat /\ base[c] + 1 \in Nat
        BY <3>1 DEF IInv, TypeOK
      <4> QED
        BY <3>1, <4>1 DEF StoreClear, IInv, TypeOK
    <3>2. CASE ~(cnt[c] > 0)
      BY <3>2 DEF StoreClear, IInv, TypeOK
    <3> QED
      BY <3>1, <3>2
  <2>2. prog' \in [Callers -> Frames]
    BY ConstantFacts DEF StoreClear, IInv, TypeOK
  <2>3. used' \subseteq Frames /\ reg' \in [Callers -> SUBSET Frames]
    BY <1>2 DEF StoreClear, IInv, TypeOK
  <2> QED
    BY <2>1, <2>2, <2>3 DEF StoreClear, IInv, TypeOK, call, scan
<1>7. LockInv'
  BY <1>3 DEF StoreClear, IInv, TypeOK, LockInv, Locked
<1>8. ByteInv'
  BY <1>3 DEF IInv, TypeOK, ByteInv, Locked
<1>9. PlaceInv'
  BY <1>1, <1>3, <1>4 DEF StoreClear, IInv, TypeOK, PlaceInv
<1>10. RunInv'
  BY <1>4, <1>5 DEF IInv, RunInv
<1>11. owned' = owned /\ t \notin owned[c] /\ t \notin Reserved
       /\ \A d \in Callers \ {c} : t \notin Held(d)
  BY <1>1 DEF StoreClear, IInv, NoDoubleAllocation, Held
<1>12. Held(c)' = Held(c) \ {t} /\ \A d \in Callers \ {c} : Held(d)' = Held(d)
  BY <1>4, <1>5, <1>11 DEF Held
<1>13. NoDoubleAllocation'
  BY <1>4, <1>5, <1>11, <1>12 DEF IInv, NoDoubleAllocation
<1>14. BitmapExact'
  BY <1>2, <1>11, <1>12 DEF IInv, BitmapExact
<1> QED
  BY <1>6, <1>7, <1>8, <1>9, <1>10, <1>13, <1>14 DEF IInv

LEMMA UnlockClaimStep ==
    ASSUME IInv, NEW c \in Callers, UnlockClaim(c)
    PROVE  IInv'
<1>1. /\ pc[c] = "unlock" /\ then[c] = "none"
      /\ \A d \in Callers \ {c} : pc[d] \notin Locked
      /\ UNCHANGED <<used, owned, call, run, addr, reg>>
  BY DEF UnlockClaim, Claiming, IInv, LockInv, Locked
<1>2. PICK p \in {"scan", "got"} : /\ pc' = [pc EXCEPT ![c] = p]
                                   /\ p = "scan" <=> was[c]
  BY DEF UnlockClaim
<1>3. TypeOK'
  <2>1. n' \in [Callers -> Nat] /\ memSz' \in [Callers -> Nat] /\ start' \in [Callers -> Nat]
    BY DEF UnlockClaim, LeaveScan, IInv, TypeOK, scan
  <2> QED
    BY <1>1, <1>2, <2>1 DEF UnlockClaim, IInv, TypeOK, call, run
<1>4. LockInv' /\ ByteInv'
  BY <1>1, <1>2 DEF UnlockClaim, IInv, TypeOK, LockInv, ByteInv, Locked
<1>5. PlaceInv'
  BY <1>1, <1>2 DEF UnlockClaim, IInv, TypeOK, PlaceInv, run
<1>6. RunInv'
  BY <1>1, FrameOfRun DEF IInv, RunInv, run
<1>7. NoDoubleAllocation' /\ BitmapExact'
  BY <1>1, FrameOfRun, HoldingsStay DEF IInv, NoDoubleAllocation
<1> QED
  BY <1>3, <1>4, <1>5, <1>6, <1>7 DEF IInv

\* Returning to the caller with nothing in hand.
LEMMA ReturnStep ==
    ASSUME IInv, NEW c \in Callers, Return(c), InHand(c) = {}, prog' = prog,
           pc[c] \notin {"idle", "load", "store"},
           UNCHANGED <<used, owned, addr, reg, n, memSz, start, was>>,
           \/ pc[c] = "unlock" /\ lock' = 0
           \/ pc[c] # "unlock" /\ lock' = lock
    PROVE  IInv'
<1>1. cnt[c] = 0 /\ prog[c] = 0 /\ Run(c) = {}
  BY DEF IInv, TypeOK, InHand, Run
<1>2. /\ \A d \in Callers \ {c} : Run(d)' = Run(d) /\ InHand(d)' = InHand(d)
      /\ Run(c)' = {} /\ InHand(c)' = {}
  BY <1>1 DEF Return, IInv, TypeOK, Run, InHand
<1>3. TypeOK'
  BY ConstantFacts DEF Return, IInv, TypeOK
<1>4. LockInv' /\ ByteInv'
  <2>1. \A d \in Callers \ {c} : Target(d)' = Target(d) /\ Claiming(d)' = Claiming(d)
    BY DEF Return, IInv, TypeOK, Target, Claiming
  <2>2. CASE pc[c] = "unlock"
    <3>1. \A d \in Callers : pc'[d] \notin Locked
      BY <2>2 DEF Return, IInv, TypeOK, LockInv, Locked
    <3> QED
      BY <3>1 DEF LockInv, ByteInv, Locked
  <2>3. CASE pc[c] # "unlock"
    <3>1. pc' = [pc EXCEPT ![c] = "idle"] /\ "idle" \notin Locked /\ pc[c] \notin Locked
      BY <2>3 DEF Return, Locked
    <3> QED
      BY <2>1, <2>3, <3>1, OutsideLock
  <2> QED
    BY <2>2, <2>3
<1>5. PlaceInv'
  BY <1>1 DEF Return, IInv, TypeOK, PlaceInv
<1>6. RunInv'
  BY <1>2 DEF IInv, RunInv
<1>7. NoDoubleAllocation' /\ BitmapExact'
  <2>1. \A d \in Callers : Held(d)' = Held(d) /\ (owned[d] \cap InHand(d))' = {}
    BY <1>2 DEF IInv, NoDoubleAllocation, Held
  <2> QED
    BY <2>1, HoldingsStay DEF IInv
<1> QED
  BY <1>3, <1>4, <1>5, <1>6, <1>7 DEF IInv

LEMMA UnlockFreeStep ==
    ASSUME IInv, NEW c \in Callers, UnlockFree(c)
    PROVE  IInv'
<1>1. /\ pc[c] = "unlock" /\ then[c] # "none" /\ lock' = 0
      /\ \A d \in Callers \ {c} : pc[d] \notin Locked
      /\ UNCHANGED <<used, owned, prog, addr, reg, was>>
  BY DEF UnlockFree, Claiming, IInv, LockInv, Locked
<1>2. ASSUME InHand(c) # {}, pc' = [pc EXCEPT ![c] = "lock"],
             UNCHANGED <<call, base, cnt, then, scan>>
      PROVE  IInv'
  <2>1. cnt[c] > 0 \/ prog[c] # 0
    BY <1>2 DEF IInv, TypeOK, InHand, Run
  <2>2. UNCHANGED <<run, owned, addr>>
    BY <1>1, <1>2 DEF run
  <2>3. TypeOK'
    BY <1>1, <1>2 DEF IInv, TypeOK, call, scan
  <2>4. LockInv' /\ ByteInv'
    BY <1>1, <1>2 DEF IInv, TypeOK, LockInv, ByteInv, Locked
  <2>5. PlaceInv'
    BY <1>1, <1>2, <2>1 DEF IInv, TypeOK, PlaceInv, call
  <2>6. RunInv'
    BY <2>2, FrameOfRun DEF IInv, RunInv, run
  <2>7. NoDoubleAllocation' /\ BitmapExact'
    BY <1>1, <2>2, FrameOfRun, HoldingsStay DEF IInv, NoDoubleAllocation
  <2> QED
    BY <2>3, <2>4, <2>5, <2>6, <2>7 DEF IInv
<1>3. ASSUME InHand(c) = {}, then' = [then EXCEPT ![c] = "none"],
             base' = [base EXCEPT ![c] = 0], BeginScan(c, max[c]), UNCHANGED <<call, cnt>>
      PROVE  IInv'
  <2>1. cnt[c] = 0 /\ prog[c] = 0 /\ Run(c) = {} /\ pc' = [pc EXCEPT ![c] = "scan"]
    BY <1>3 DEF IInv, TypeOK, InHand, Run, BeginScan
  <2>2. /\ \A d \in Callers \ {c} : Run(d)' = Run(d) /\ InHand(d)' = InHand(d)
        /\ Run(c)' = {} /\ InHand(c)' = {}
    BY <1>1, <1>3, <2>1 DEF IInv, TypeOK, Run, InHand
  <2>3. TypeOK'
    <3>1. max[c] \in Nat /\ max[c] <= MemSize
      BY ConstantFacts DEF IInv, TypeOK
    <3>2. n' \in [Callers -> Nat] /\ memSz' \in [Callers -> Nat] /\ start' \in [Callers -> Nat]
      BY <1>3, <3>1, BeginScanTypes DEF IInv
    <3> QED
      BY <1>1, <1>3, <2>1, <3>2 DEF IInv, TypeOK, call
  <2>4. LockInv' /\ ByteInv'
    BY <1>1, <2>1 DEF IInv, TypeOK, LockInv, ByteInv, Locked
  <2>5. PlaceInv'
    BY <1>1, <1>3, <2>1 DEF IInv, TypeOK, PlaceInv
  <2>6. RunInv'
    BY <1>1, <2>2 DEF IInv, RunInv
  <2>7. NoDoubleAllocation' /\ BitmapExact'
    <3>1. \A d \in Callers : Held(d)' = Held(d) /\ (owned[d] \cap InHand(d))' = {}
      BY <1>1, <1>3, <2>2 DEF IInv, NoDoubleAllocation, Held
    <3> QED
      BY <1>1, <3>1, HoldingsStay DEF IInv
  <2> QED
    BY <2>3, <2>4, <2>5, <2>6, <2>7 DEF IInv
<1>4. ASSUME InHand(c) = {}, Return(c), UNCHANGED scan
      PROVE  IInv'
  BY <1>1, <1>4, ReturnStep DEF scan
<1> QED
  BY <1>2, <1>3, <1>4 DEF UnlockFree

\* The page just claimed becomes the end of the run.
LEMMA ExtendRun ==
    ASSUME IInv, NEW c \in Callers, pc[c] = "got",
           cnt[c] = 0 \/ prog[c] = base[c] + cnt[c],
           base' = [base EXCEPT ![c] = IF cnt[c] = 0 THEN prog[c] ELSE @],
           cnt'  = [cnt EXCEPT ![c] = @ + 1]
    PROVE  Run(c)' = InHand(c)
<1>1. prog[c] # 0 /\ prog[c] \in Nat /\ base[c] \in Nat /\ cnt[c] \in Nat
  BY ConstantFacts DEF IInv, TypeOK, PlaceInv
<1>2. CASE cnt[c] = 0
  <2>1. base'[c] = prog[c] /\ cnt'[c] = 1 /\ Run(c) = {}
    BY <1>1, <1>2 DEF IInv, TypeOK, Run
  <2> QED
    BY <1>1, <2>1 DEF Run, InHand
<1>3. CASE cnt[c] # 0
  <2>1. base'[c] = base[c] /\ cnt'[c] = cnt[c] + 1 /\ prog[c] = base[c] + cnt[c]
    BY <1>1, <1>3 DEF IInv, TypeOK
  <2> QED
    BY <1>1, <2>1 DEF Run, InHand
<1> QED
  BY <1>2, <1>3

LEMMA ExtendStep ==
    ASSUME IInv, NEW c \in Callers, Extend(c)
    PROVE  IInv'
<1>1. /\ pc[c] = "got" /\ then[c] = "none" /\ prog[c] # 0
      /\ cnt[c] = 0 \/ prog[c] = base[c] + cnt[c]
      /\ prog' = [prog EXCEPT ![c] = 0]
      /\ UNCHANGED <<used, lock, addr, reg, was>>
      /\ pc[c] \notin Locked
  BY DEF Extend, IInv, PlaceInv, Locked
<1>2. InHand(c) \subseteq Frames
  BY DEF IInv, TypeOK, RunInv, InHand
<1>3. ASSUME owned' = [owned EXCEPT ![c] = @ \cup InHand(c)], Return(c), UNCHANGED scan
      PROVE  IInv'
  <2>1. /\ \A d \in Callers \ {c} : /\ Run(d)' = Run(d) /\ InHand(d)' = InHand(d)
                                    /\ owned'[d] = owned[d] /\ prog'[d] = prog[d]
                                    /\ Target(d)' = Target(d) /\ Claiming(d)' = Claiming(d)
        /\ prog'[c] = 0 /\ Run(c)' = {} /\ InHand(c)' = {}
        /\ owned'[c] = owned[c] \cup InHand(c)
    BY <1>1, <1>3 DEF Return, IInv, TypeOK, Run, InHand, Target, Claiming
  <2>2. TypeOK'
    BY <1>1, <1>2, <1>3, ConstantFacts DEF Return, IInv, TypeOK, scan
  <2>3. LockInv' /\ ByteInv'
    <3>1. pc' = [pc EXCEPT ![c] = "idle"] /\ "idle" \notin Locked
      BY <1>3 DEF Return, Locked
    <3> QED
      BY <1>1, <2>1, <3>1, OutsideLock
  <2>4. PlaceInv'
    BY <1>1, <1>3 DEF Return, IInv, TypeOK, PlaceInv
  <2>5. RunInv'
    BY <2>1 DEF IInv, RunInv
  <2>6. NoDoubleAllocation' /\ BitmapExact'
    <3>1. \A d \in Callers : Held(d)' = Held(d) /\ (owned[d] \cap InHand(d))' = {}
      BY <2>1 DEF IInv, NoDoubleAllocation, Held
    <3> QED
      BY <1>1, <3>1, HoldingsStay DEF IInv
  <2> QED
    BY <2>2, <2>3, <2>4, <2>5, <2>6 DEF IInv
<1>4. ASSUME base' = [base EXCEPT ![c] = IF cnt[c] = 0 THEN prog[c] ELSE @],
             cnt' = [cnt EXCEPT ![c] = @ + 1], BeginScan(c, max[c]),
             UNCHANGED <<owned, call, then>>
      PROVE  IInv'
  <2>1. Run(c)' = InHand(c)
    BY <1>1, <1>4, ExtendRun
  <2>2. /\ \A d \in Callers \ {c} : /\ Run(d)' = Run(d) /\ InHand(d)' = InHand(d)
                                    /\ prog'[d] = prog[d]
                                    /\ Target(d)' = Target(d) /\ Claiming(d)' = Claiming(d)
        /\ prog'[c] = 0 /\ InHand(c)' = InHand(c)
    BY <1>1, <1>4, <2>1 DEF IInv, TypeOK, Run, InHand, Target, Claiming
  <2>3. pc' = [pc EXCEPT ![c] = "scan"]
    BY <1>4 DEF BeginScan
  <2>4. TypeOK'
    <3>1. max[c] \in Nat /\ max[c] <= MemSize
      BY ConstantFacts DEF IInv, TypeOK
    <3>2. n' \in [Callers -> Nat] /\ memSz' \in [Callers -> Nat] /\ start' \in [Callers -> Nat]
      BY <1>4, <3>1, BeginScanTypes DEF IInv
    <3>3. base' \in [Callers -> Nat] /\ cnt' \in [Callers -> Nat]
      <4>1. prog[c] \in Nat /\ base[c] \in Nat /\ cnt[c] + 1 \in Nat
        <5>1. prog[c] \in Nat /\ base[c] \in Nat /\ cnt[c] \in Nat
          BY ConstantFacts DEF IInv, TypeOK, PlaceInv
        <5> QED
          BY <5>1
      <4> QED
        BY <1>4, <4>1 DEF IInv, TypeOK
    <3> QED
      BY <1>1, <1>4, <2>3, <3>2, <3>3, ConstantFacts DEF IInv, TypeOK, call
  <2>5. LockInv' /\ ByteInv'
    <3>1. "scan" \notin Locked
      BY DEF Locked
    <3> QED
      BY <1>1, <2>2, <2>3, <3>1, OutsideLock
  <2>6. PlaceInv'
    BY <1>1, <1>4, <2>3 DEF IInv, TypeOK, PlaceInv
  <2>7. RunInv'
    <3>1. 0 \notin InHand(c)
      BY ConstantFacts DEF IInv, NoDoubleAllocation, Held
    <3> QED
      BY <1>2, <2>1, <2>2, <3>1 DEF IInv, RunInv
  <2>8. NoDoubleAllocation' /\ BitmapExact'
    <3>1. \A d \in Callers : Held(d)' = Held(d) /\ (owned[d] \cap InHand(d))' = {}
      BY <1>4, <2>2 DEF IInv, NoDoubleAllocation, Held
    <3> QED
      BY <1>1, <3>1, HoldingsStay DEF IInv
  <2> QED
    BY <2>4, <2>5, <2>6, <2>7, <2>8 DEF IInv
<1> QED
  BY <1>3, <1>4 DEF Extend

LEMMA StartAgainStep ==
    ASSUME IInv, NEW c \in Callers, StartAgain(c)
    PROVE  IInv'
<1> USE DEF StartAgain
<1>1. TypeOK'
  BY DEF IInv, TypeOK, call, scan
<1>2. \A d \in Callers : Run(d)' = Run(d) /\ InHand(d)' = InHand(d) /\ Held(d)' = Held(d)
  BY DEF Run, InHand, Held
<1>3. LockInv' /\ ByteInv'
  <2>1. /\ pc' = [pc EXCEPT ![c] = "lock"] /\ pc[c] \notin Locked /\ "lock" \notin Locked
        /\ UNCHANGED <<used, lock, reg, was>>
    BY DEF Locked
  <2>2. \A d \in Callers \ {c} : Target(d)' = Target(d) /\ Claiming(d)' = Claiming(d)
    BY DEF IInv, TypeOK, Target, Claiming
  <2> QED
    BY <2>1, <2>2, OutsideLock
<1>4. PlaceInv'
  BY DEF IInv, TypeOK, PlaceInv
<1>5. RunInv'
  BY <1>2 DEF IInv, RunInv
<1>6. NoDoubleAllocation' /\ BitmapExact'
  BY <1>2, HoldingsStay DEF IInv, NoDoubleAllocation
<1> QED
  BY <1>1, <1>3, <1>4, <1>5, <1>6 DEF IInv

LEMMA GiveUpStep ==
    ASSUME IInv, NEW c \in Callers, GiveUp(c)
    PROVE  IInv'
<1>1. /\ pc[c] = "fail" /\ prog[c] = 0 /\ then[c] = "none"
      /\ UNCHANGED <<used, lock, owned, prog, scan, addr, reg, was>>
  BY DEF GiveUp, IInv, PlaceInv
<1>2. CASE cnt[c] = 0 /\ Return(c)
  <2>1. InHand(c) = {}
    BY <1>1, <1>2 DEF IInv, TypeOK, InHand, Run
  <2> QED
    BY <1>1, <1>2, <2>1, ReturnStep DEF scan
<1>3. ASSUME cnt[c] # 0, then' = [then EXCEPT ![c] = "fail"],
             pc' = [pc EXCEPT ![c] = "lock"], UNCHANGED <<call, base, cnt>>
      PROVE  IInv'
  <2>1. TypeOK'
    BY <1>1, <1>3 DEF IInv, TypeOK, call, scan
  <2>2. \A d \in Callers : Run(d)' = Run(d) /\ InHand(d)' = InHand(d) /\ Held(d)' = Held(d)
    BY <1>1, <1>3 DEF Run, InHand, Held
  <2>3. LockInv' /\ ByteInv'
    <3>1. pc[c] \notin Locked /\ "lock" \notin Locked
      BY <1>1 DEF Locked
    <3>2. \A d \in Callers \ {c} : Target(d)' = Target(d) /\ Claiming(d)' = Claiming(d)
      BY <1>1, <1>3 DEF IInv, TypeOK, Target, Claiming
    <3> QED
      BY <1>1, <1>3, <3>1, <3>2, OutsideLock
  <2>4. PlaceInv'
    BY <1>1, <1>3 DEF IInv, TypeOK, PlaceInv
  <2>5. RunInv'
    BY <1>1, <2>2 DEF IInv, RunInv
  <2>6. NoDoubleAllocation' /\ BitmapExact'
    BY <1>1, <2>2, HoldingsStay DEF IInv, NoDoubleAllocation
  <2> QED
    BY <2>1, <2>3, <2>4, <2>5, <2>6 DEF IInv
<1> QED
  BY <1>2, <1>3 DEF GiveUp

LEMMA StepIInv == IInv /\ [Next]_vars => IInv'
<1> SUFFICES ASSUME IInv, [Next]_vars PROVE IInv'
  OBVIOUS
<1>1. ASSUME NEW c \in Callers, Call(c) PROVE IInv'
  BY <1>1, AllocateStep, FreeStep DEF Call
<1>2. ASSUME NEW c \in Callers, Step(c) PROVE IInv'
  BY <1>2, ScanWordStep, PickBitStep, AcquireLockStep, LoadByteStep, StoreSetStep,
     StoreClearStep, UnlockClaimStep, UnlockFreeStep, ExtendStep, StartAgainStep,
     GiveUpStep DEF Step
<1>3. CASE UNCHANGED vars
  <2>1. UNCHANGED <<used, lock, owned, pc, want, max, base, cnt, prog, then,
                    n, memSz, start, addr, reg, was>>
    BY <1>3 DEF vars, call, run, scan
  <2>2. TypeOK' /\ LockInv' /\ PlaceInv'
    BY <2>1 DEF IInv, TypeOK, LockInv, PlaceInv
  <2>3. UNCHANGED <<run, owned, addr>>
    BY <2>1 DEF run
  <2>4. ByteInv' /\ RunInv'
    BY <2>1, <2>3, FrameOfRun DEF IInv, ByteInv, RunInv
  <2>5. NoDoubleAllocation' /\ BitmapExact'
    BY <2>1, <2>3, FrameOfRun, HoldingsStay DEF IInv, NoDoubleAllocation
  <2> QED
    BY <2>2, <2>4, <2>5 DEF IInv
<1> QED
  BY <1>1, <1>2, <1>3 DEF Next
------------------------------------------------------------------------------
\* The strengthened invariant holds in every reachable state.
THEOREM InvariantHolds == Spec => []IInv
BY InitIInv, StepIInv, PTL DEF Spec

\* Every local of every call keeps its type: in particular the lengths that
\* allocateSinglePage computes by subtraction never wrap below zero.
THEOREM TypeCorrect == Spec => []TypeOK
BY InvariantHolds, PTL DEF IInv

\* No frame is ever in two hands, whatever the callers interleave.
THEOREM NeverAllocatedTwice == Spec => []NoDoubleAllocation
BY InvariantHolds, PTL DEF IInv

\* A bit is set exactly for the reserved frames and the frames held: nothing
\* leaks and nothing held becomes available.
THEOREM BitmapStaysExact == Spec => []BitmapExact
BY InvariantHolds, PTL DEF IInv

------------------------------------------------------------------------------
\* Every step but the two stores leaves every caller's holdings alone.
LEMMA OtherStepsHold ==
    ASSUME IInv, NEW c \in Callers,
           \/ \E l \in Lengths, m \in Limits : Allocate(c, l, m)
           \/ \E a \in owned[c], l \in Lengths : Free(c, a, l)
           \/ ScanWord(c) \/ PickBit(c) \/ AcquireLock(c) \/ LoadByte(c)
           \/ UnlockClaim(c) \/ UnlockFree(c) \/ Extend(c) \/ StartAgain(c) \/ GiveUp(c)
    PROVE  \A d \in Callers : Held(d)' = Held(d)
<1>1. CASE \/ \E l \in Lengths, m \in Limits : Allocate(c, l, m)
           \/ ScanWord(c) \/ PickBit(c) \/ AcquireLock(c) \/ LoadByte(c)
           \/ UnlockClaim(c) \/ StartAgain(c)
  <2>1. UNCHANGED <<owned, base, cnt, prog>>
    BY <1>1 DEF Allocate, ScanWord, PickBit, AcquireLock, LoadByte, UnlockClaim,
                StartAgain, run
  <2> QED
    BY <2>1 DEF Held, InHand, Run
<1>2. ASSUME NEW a \in owned[c], NEW l \in Lengths, Free(c, a, l)
      PROVE  \A d \in Callers : Held(d)' = Held(d)
  <2>1. /\ cnt[c] = 0 /\ prog[c] = 0 /\ a .. (a + l - 1) \subseteq owned[c]
    BY <1>2 DEF Free, IInv, PlaceInv
  <2>2. /\ InHand(c) = {} /\ InHand(c)' = a .. (a + l - 1)
        /\ owned'[c] = owned[c] \ (a .. (a + l - 1))
    BY <1>2, <2>1 DEF Free, IInv, TypeOK, Run, InHand
  <2>3. \A d \in Callers \ {c} : InHand(d)' = InHand(d) /\ owned'[d] = owned[d]
    BY <1>2 DEF Free, IInv, TypeOK, Run, InHand
  <2> QED
    BY <2>1, <2>2, <2>3 DEF Held
<1>3. CASE UnlockFree(c) \/ GiveUp(c)
  <2>1. owned' = owned /\ prog' = prog
    BY <1>3 DEF UnlockFree, GiveUp
  <2>2. CASE UNCHANGED <<base, cnt>>
    BY <2>1, <2>2 DEF Held, InHand, Run
  <2>3. ASSUME cnt[c] = 0, base' = [base EXCEPT ![c] = 0], cnt' = [cnt EXCEPT ![c] = 0]
        PROVE  \A d \in Callers : Held(d)' = Held(d)
    BY <2>1, <2>3 DEF IInv, TypeOK, Held, InHand, Run
  <2>4. InHand(c) = {} => cnt[c] = 0
    BY DEF IInv, TypeOK, InHand, Run
  <2>5. CASE UnlockFree(c)
    <3>1. ASSUME InHand(c) = {}, base' = [base EXCEPT ![c] = 0], cnt' = cnt
          PROVE  cnt' = [cnt EXCEPT ![c] = 0]
      BY <3>1, <2>4 DEF IInv, TypeOK
    <3> QED
      BY <2>2, <2>3, <2>4, <2>5, <3>1 DEF UnlockFree, Return
  <2>6. CASE GiveUp(c)
    BY <2>2, <2>3, <2>6 DEF GiveUp, Return
  <2> QED
    BY <1>3, <2>5, <2>6
<1>4. CASE Extend(c)
  <2>1. /\ pc[c] = "got" /\ (cnt[c] = 0 \/ prog[c] = base[c] + cnt[c])
        /\ prog' = [prog EXCEPT ![c] = 0]
    BY <1>4 DEF Extend
  <2>2. CASE owned' = [owned EXCEPT ![c] = @ \cup InHand(c)] /\ Return(c)
    BY <2>1, <2>2 DEF Return, IInv, TypeOK, Held, InHand, Run
  <2>3. ASSUME base' = [base EXCEPT ![c] = IF cnt[c] = 0 THEN prog[c] ELSE @],
               cnt' = [cnt EXCEPT ![c] = @ + 1], owned' = owned
        PROVE  \A d \in Callers : Held(d)' = Held(d)
    <3>1. Run(c)' = InHand(c)
      BY <2>1, <2>3, ExtendRun
    <3>2. prog'[c] = 0 /\ \A d \in Callers \ {c} : InHand(d)' = InHand(d)
      BY <2>1, <2>3 DEF IInv, TypeOK, InHand, Run
    <3> QED
      BY <2>3, <3>1, <3>2 DEF Held, InHand
  <2> QED
    BY <1>4, <2>2, <2>3 DEF Extend
<1> QED
  BY <1>1, <1>2, <1>3, <1>4

\* The store of allocateSinglePage takes a frame nobody holds, or changes
\* nothing when somebody was faster.
LEMMA StoreSetTakes ==
    ASSUME IInv, NEW c \in Callers, StoreSet(c)
    PROVE  \/ \A d \in Callers : Held(d)' = Held(d)
           \/ \E f \in Frames : /\ f \notin Reserved /\ \A d \in Callers : f \notin Held(d)
                                /\ Held(c)' = Held(c) \cup {f}
                                /\ \A d \in Callers \ {c} : Held(d)' = Held(d)
<1>1. /\ pc[c] = "store" /\ then[c] = "none" /\ prog[c] = 0 /\ addr[c] \in Frames
      /\ (was[c] <=> addr[c] \in used)
  BY TargetFacts DEF StoreSet, IInv, PlaceInv, ByteInv, Claiming
<1>2. owned' = owned /\ \A d \in Callers : Run(d)' = Run(d)
  BY DEF StoreSet, Run
<1>3. CASE was[c]
  <2>1. prog' = prog
    BY <1>1, <1>3 DEF StoreSet, IInv, TypeOK
  <2> QED
    BY <1>2, <2>1 DEF Held, InHand
<1>4. CASE ~was[c]
  <2>1. addr[c] \notin Reserved /\ \A d \in Callers : addr[c] \notin Held(d)
    BY <1>1, <1>4 DEF IInv, BitmapExact
  <2>2. prog' = [prog EXCEPT ![c] = addr[c]] /\ addr[c] # 0
    BY <1>4, <2>1, ConstantFacts DEF StoreSet
  <2>3. Held(c)' = Held(c) \cup {addr[c]} /\ \A d \in Callers \ {c} : Held(d)' = Held(d)
    BY <1>1, <1>2, <2>2 DEF IInv, TypeOK, Held, InHand
  <2> QED
    BY <1>1, <2>1, <2>3
<1> QED
  BY <1>3, <1>4


\* The store of setUsed gives one frame back, held until then.
LEMMA StoreClearGives ==
    ASSUME IInv, NEW c \in Callers, StoreClear(c)
    PROVE  \E f \in Frames : /\ f \in Held(c)
                             /\ Held(c)' = Held(c) \ {f}
                             /\ \A d \in Callers \ {c} : Held(d)' = Held(d)
<1>1. /\ pc[c] = "store" /\ then[c] # "none" /\ owned' = owned
      /\ owned[c] \cap InHand(c) = {}
  BY DEF StoreClear, Claiming, IInv, NoDoubleAllocation
<1>2. /\ Target(c) \in InHand(c) /\ Target(c) \in Frames
      /\ InHand(c)' = InHand(c) \ {Target(c)}
      /\ \A d \in Callers \ {c} : InHand(d)' = InHand(d)
  BY <1>1, ClearedFrame
<1> QED
  BY <1>1, <1>2 DEF Held

\* The bitmap allocator implements the abstract FrameAllocator for any number
\* of callers and any memory: a frame changes hands where the byte is stored
\* under the lock, and every other step is a stutter, the unlocked search and
\* the gathering and abandoning of a region included.
THEOREM RefinesFrameAllocator == Spec => ImplementsFrameAllocator
<1> DEFINE held == [c \in Callers |-> Held(c)]
<1>1. Init => Abstract!Init
  BY DEF Init, Abstract!Init, Held, InHand, Run
<1>2. IInv /\ [Next]_vars => [Abstract!Next]_held
  <2> SUFFICES ASSUME IInv, [Next]_vars PROVE Abstract!Next \/ held' = held
    OBVIOUS
  <2>1. (\A d \in Callers : Held(d)' = Held(d)) => held' = held
    OBVIOUS
  <2>2. ASSUME NEW c \in Callers, Call(c) \/ Step(c), ~StoreSet(c), ~StoreClear(c)
        PROVE  held' = held
    BY <2>1, <2>2, OtherStepsHold DEF Call, Step
  <2>3. ASSUME NEW c \in Callers, StoreSet(c) PROVE Abstract!Next \/ held' = held
    <3>1. ASSUME NEW f \in Frames, f \notin Reserved, \A d \in Callers : f \notin Held(d),
                 Held(c)' = Held(c) \cup {f},
                 \A d \in Callers \ {c} : Held(d)' = Held(d)
          PROVE  Abstract!Take(c, f)
      <4>1. f \notin (UNION {held[d] : d \in Callers}) \cup Reserved
        BY <3>1
      <4>2. held' = [held EXCEPT ![c] = held[c] \cup {f}]
        <5>1. \A d \in Callers : Held(d)' = IF d = c THEN Held(c) \cup {f} ELSE Held(d)
          BY <3>1
        <5> QED
          BY <5>1
      <4> QED
        BY <4>1, <4>2 DEF Abstract!Take, Abstract!Taken
    <3> QED
      BY <2>1, <2>3, <3>1, StoreSetTakes DEF Abstract!Next
  <2>4. ASSUME NEW c \in Callers, StoreClear(c) PROVE Abstract!Next
    <3>1. ASSUME NEW f \in Frames, f \in Held(c), Held(c)' = Held(c) \ {f},
                 \A d \in Callers \ {c} : Held(d)' = Held(d)
          PROVE  Abstract!Give(c, f)
      <4>1. held' = [held EXCEPT ![c] = held[c] \ {f}]
        <5>1. \A d \in Callers : Held(d)' = IF d = c THEN Held(c) \ {f} ELSE Held(d)
          BY <3>1
        <5> QED
          BY <5>1
      <4> QED
        BY <3>1, <4>1 DEF Abstract!Give
    <3> QED
      BY <2>4, <3>1, StoreClearGives DEF Abstract!Next
  <2>5. CASE UNCHANGED vars
    BY <2>5 DEF vars, run, Held, InHand, Run
  <2> QED
    BY <2>2, <2>3, <2>4, <2>5 DEF Next
<1> QED
  BY <1>1, <1>2, InvariantHolds, PTL DEF Spec, ImplementsFrameAllocator, Abstract!Spec
------------------------------------------------------------------------------
\* What a search comes back with.  A page it returns lies below the caller's
\* limit, or inside memory, although memSz is an end in some passes of the search
\* and a length in others.  And it fails only when no frame was free all the while.

\* The end of what a call may be given.
End(c) == IF max[c] = 0 THEN MemSize ELSE max[c]

Searching == {"scan", "bit", "lock", "load", "store", "unlock"}

\* What each pass takes for the end of the search is never beyond the end, and
\* neither is the start, which the second pass takes for its end.  The
\* candidate was compared with it, and the page is the candidate.
SearchInv(c) ==
    /\ pc[c] \in Searching /\ then[c] = "none" => memSz[c] <= End(c) /\ start[c] <= End(c)
    /\ pc[c] \in {"lock", "load", "store"} /\ then[c] = "none" => addr[c] < End(c)
    /\ pc[c] \in {"unlock", "got"} /\ then[c] = "none" => prog[c] < End(c)

RangeInv == \A c \in Callers : SearchInv(c)
------------------------------------------------------------------------------
LEMMA EndFacts ==
    ASSUME TypeOK, NEW c \in Callers
    PROVE  End(c) \in Nat /\ 0 < End(c)
BY SizesOK, ConstantFacts DEF TypeOK, End

\* The head of allocateSinglePage: the start and the first end of the search
\* are within the limit.
LEMMA BeginScanRange ==
    ASSUME TypeOK, NEW c \in Callers, BeginScan(c, max[c])
    PROVE  /\ memSz' = [memSz EXCEPT ![c] = memSz'[c]] /\ memSz'[c] <= End(c)
           /\ start' = [start EXCEPT ![c] = start'[c]] /\ start'[c] <= End(c)
           /\ pc' = [pc EXCEPT ![c] = "scan"]
BY SizesOK, ConstantFacts DEF TypeOK, BeginScan, End

\* The second pass ends where the first one began.
LEMMA NextPassRange ==
    ASSUME TypeOK, NEW c \in Callers, start[c] <= End(c), NextPass(c)
    PROVE  \/ /\ memSz' = [memSz EXCEPT ![c] = start[c]]
              /\ start' = [start EXCEPT ![c] = 0]
              /\ pc' = [pc EXCEPT ![c] = "scan"]
           \/ /\ memSz' = [memSz EXCEPT ![c] = 0]
              /\ start' = [start EXCEPT ![c] = 0]
              /\ pc' = [pc EXCEPT ![c] = "fail"]
BY DEF TypeOK, NextPass, LeaveScan

\* A search that goes on or ends after a pass keeps the invariant.
LEMMA SearchEndsRange ==
    ASSUME IInv, RangeInv, NEW c \in Callers, NextPass(c),
           pc[c] \in {"scan", "bit"}, UNCHANGED <<addr, max, then, prog>>
    PROVE  RangeInv'
<1> USE DEF IInv, TypeOK, RangeInv, SearchInv, Searching, End
<1>1. then[c] = "none" /\ start[c] <= End(c)
  BY DEF PlaceInv
<1>2. 0 <= End(c) /\ End(c) \in Nat
  BY EndFacts
<1> QED
  BY <1>1, <1>2, NextPassRange

\* Nobody searches initially.
LEMMA InitRange == Init => RangeInv
BY DEF Init, RangeInv, SearchInv, Searching

\* A call that begins searches within its limit.
LEMMA CallRange ==
    ASSUME IInv, RangeInv, NEW c \in Callers, Call(c)
    PROVE  RangeInv'
<1> USE DEF IInv, TypeOK, RangeInv, SearchInv, Searching, End
<1>1. ASSUME NEW l \in Lengths, NEW m \in Limits, Allocate(c, l, m) PROVE RangeInv'
  BY <1>1, SizesOK, ConstantFacts DEF Allocate, BeginScan, run
<1>2. ASSUME NEW a \in owned[c], NEW l \in Lengths, Free(c, a, l) PROVE RangeInv'
  BY <1>2 DEF Free, call, scan
<1> QED
  BY <1>1, <1>2 DEF Call

\* A step of the search stays below its end.
LEMMA StepRange ==
    ASSUME IInv, RangeInv, NEW c \in Callers, Step(c)
    PROVE  RangeInv'
<1> USE DEF IInv, TypeOK, RangeInv, SearchInv, Searching, End
<1>1. CASE ScanWord(c)
  <2>1. UNCHANGED <<addr, max, then, prog>> /\ pc[c] = "scan"
    BY <1>1 DEF ScanWord, call, run
  <2>2. CASE NextPass(c)
    BY <2>1, <2>2, SearchEndsRange
  <2>3. CASE UNCHANGED <<memSz, start>> /\ (pc' = pc \/ pc' = [pc EXCEPT ![c] = "bit"])
    BY <2>1, <2>3
  <2> QED
    BY <1>1, <2>2, <2>3 DEF ScanWord, scan
<1>2. CASE PickBit(c)
  <2>1. UNCHANGED <<max, then, prog>> /\ pc[c] = "bit"
    BY <1>2 DEF PickBit, call, run
  <2>2. CASE NextPass(c) /\ UNCHANGED addr
    BY <2>1, <2>2, SearchEndsRange
  <2>3. CASE UNCHANGED <<addr, memSz, start>> /\ pc' = [pc EXCEPT ![c] = "scan"]
    BY <2>1, <2>3
  <2>4. ASSUME NEW f \in ClearIn(n[c]), ~(f >= memSz[c]), addr' = [addr EXCEPT ![c] = f],
               pc' = [pc EXCEPT ![c] = "lock"], UNCHANGED <<memSz, start>>
        PROVE  RangeInv'
    <3>1. f \in Nat
      BY ConstantFacts DEF ClearIn
    <3>2. f < memSz[c] /\ memSz[c] <= End(c)
      BY <2>1, <2>4, <3>1 DEF PlaceInv
    <3>3. f < End(c)
      BY <3>1, <3>2, EndFacts
    <3> QED
      BY <2>1, <2>4, <3>3
  <2> QED
    BY <1>2, <2>2, <2>3, <2>4 DEF PickBit, scan
<1>3. CASE AcquireLock(c)
  BY <1>3 DEF AcquireLock, call, run, scan
<1>4. CASE LoadByte(c)
  BY <1>4 DEF LoadByte, call, run, scan
<1>5. CASE StoreSet(c)
  BY <1>5, EndFacts DEF StoreSet, Claiming, call, scan
<1>6. CASE StoreClear(c)
  BY <1>6 DEF StoreClear, Claiming, call, scan
<1>7. CASE UnlockClaim(c)
  BY <1>7 DEF UnlockClaim, LeaveScan, call, run, scan
<1>8. CASE UnlockFree(c)
  BY <1>8, BeginScanRange, EndFacts DEF UnlockFree, Claiming, Return, call, scan
<1>9. CASE Extend(c)
  BY <1>9, BeginScanRange, EndFacts DEF Extend, Return, call, scan
<1>10. CASE StartAgain(c)
  BY <1>10 DEF StartAgain, call, scan
<1>11. CASE GiveUp(c)
  BY <1>11 DEF GiveUp, Return, call, scan
<1> QED
  BY <1>1, <1>2, <1>3, <1>4, <1>5, <1>6, <1>7, <1>8, <1>9, <1>10, <1>11 DEF Step

\* Every step keeps the invariant.
LEMMA NextRange == IInv /\ RangeInv /\ [Next]_vars => RangeInv'
<1> SUFFICES ASSUME IInv, RangeInv, [Next]_vars PROVE RangeInv'
  OBVIOUS
<1>1. CASE Next
  BY <1>1, CallRange, StepRange DEF Next
<1>2. CASE UNCHANGED vars
  BY <1>2 DEF vars, call, run, scan, RangeInv, SearchInv, End
<1> QED
  BY <1>1, <1>2
------------------------------------------------------------------------------
\* A page that allocateSinglePage returns is not NULL and lies below the
\* caller's limit, or inside memory when there is none.
THEOREM PagesAreInRange == Spec => []ResultInRange
<1>1. IInv /\ RangeInv => ResultInRange
  <2> SUFFICES ASSUME IInv, RangeInv, NEW c \in Callers, pc[c] = "got"
               PROVE  prog[c] \in 1 .. (End(c) - 1)
    BY DEF ResultInRange, End
  <2>1. prog[c] \in Nat /\ prog[c] # 0
    BY ConstantFacts DEF IInv, TypeOK, PlaceInv
  <2>2. prog[c] < End(c)
    BY DEF IInv, PlaceInv, RangeInv, SearchInv
  <2> QED
    BY <2>1, <2>2, EndFacts DEF IInv
<1>2. IInv /\ RangeInv /\ [Next]_vars /\ IInv' => RangeInv'
  BY NextRange
<1> QED
  BY <1>1, <1>2, InitRange, InvariantHolds, PTL DEF Spec
------------------------------------------------------------------------------
(* A search that fails. *)

\* The search of c is in its first pass, or in the second, below the ideal
\* start.  The frames unused all along are among those it has yet to look at.
Pass(c) ==
    \/ /\ start[c] = IdealStart /\ memSz[c] = MemSize
       /\ \A f \in unused[c] : f < IdealStart \/ WordOf(f) >= n[c]
    \/ /\ start[c] = 0 /\ memSz[c] = IdealStart /\ IdealStart # 0
       /\ \A f \in unused[c] : f < IdealStart /\ WordOf(f) >= n[c]

\* FailsOnlyWhenFull is not inductive: what is unused must lie ahead of the scan.
\* The word index never passes the bound of the loop, and has not reached it
\* when a word with a clear bit was found.
UnusedInv(c) ==
    max[c] = 0 /\ then[c] = "none" =>
        /\ pc[c] \in {"scan", "bit", "lock", "load", "store", "unlock"} =>
              Pass(c) /\ n[c] <= Bound(c)
        /\ pc[c] \in {"bit", "lock", "load", "store", "unlock"} => n[c] < Bound(c)
        /\ pc[c] = "fail" => unused[c] = {}

FailInv ==
    /\ unused = [c \in Callers |-> unused[c]]
    /\ \A c \in Callers : unused[c] \subseteq Frames \ used /\ UnusedInv(c)

\* Words follow one another as their frames do.
LEMMA Monotone ==
    ASSUME NEW m \in Nat \ {0}, NEW a \in Nat, NEW b \in Nat, a <= b
    PROVE  a \div m <= b \div m
BY Z3

\* The frame before the ideal start is in an earlier word.
LEMMA Aligned ==
    ASSUME NEW m \in Nat \ {0}, NEW a \in Nat \ {0}, a % m = 0
    PROVE  (a - 1) \div m < a \div m
BY Z3

\* The word the first pass begins with, and the bounds of the two passes.
FirstWord  == IdealStart \div FramesPerWord
FirstBound == (MemSize - 1) \div FramesPerWord + 1
NextBound  == (IdealStart - 1) \div FramesPerWord + 1

\* Where the words of frames lie between them.
LEMMA WordFacts ==
    /\ FirstWord \in Nat /\ FirstBound \in Nat /\ FirstWord < FirstBound
    /\ IdealStart # 0 => NextBound \in Nat /\ 0 < NextBound
    /\ \A f \in Nat : /\ WordOf(f) \in Nat
                      /\ f >= IdealStart => WordOf(f) >= FirstWord
                      /\ f < MemSize => WordOf(f) < FirstBound
                      /\ IdealStart # 0 => (f < IdealStart <=> WordOf(f) < NextBound)
<1>1. /\ FramesPerWord \in Nat \ {0} /\ MemSize \in Nat \ {0} /\ MemSize - 1 \in Nat
      /\ IdealStart \in Nat /\ IdealStart <= MemSize - 1 /\ IdealStart % FramesPerWord = 0
      /\ IdealStart # 0 => IdealStart - 1 \in Nat
  BY SizesOK, ConstantFacts
<1>2. \A f \in Nat : WordOf(f) \in Nat
  BY DivNat DEF WordOf
<1>3. \A f \in Nat : f >= IdealStart => WordOf(f) >= FirstWord
  BY <1>1, Monotone DEF WordOf, FirstWord
<1> DEFINE e == (MemSize - 1) \div FramesPerWord
           i == (IdealStart - 1) \div FramesPerWord
<1>4. /\ e \in Nat /\ FirstBound = e + 1 /\ FirstWord \in Nat
      /\ IdealStart # 0 => i \in Nat /\ NextBound = i + 1
  BY <1>1, DivNat DEF FirstBound, FirstWord, NextBound
<1>5. \A f \in Nat : f < MemSize => WordOf(f) <= e
  <2> TAKE f \in Nat
  <2> HAVE f < MemSize
  <2>1. f <= MemSize - 1
    BY <1>1
  <2> QED
    BY <1>1, <2>1, Monotone DEF WordOf
<1>6. \A f \in Nat : f < IdealStart => WordOf(f) <= i
  <2> TAKE f \in Nat
  <2> HAVE f < IdealStart
  <2>1. f <= IdealStart - 1 /\ IdealStart - 1 \in Nat
    BY <1>1
  <2> QED
    BY <1>1, <2>1, Monotone DEF WordOf
<1>7. FirstWord <= e
  BY <1>1, Monotone DEF FirstWord
<1>8. IdealStart # 0 => i < FirstWord
  BY <1>1, Aligned DEF FirstWord
<1> HIDE DEF e, i
<1>9. FirstWord < FirstBound /\ FirstBound \in Nat /\ (IdealStart # 0 => NextBound \in Nat /\ 0 < NextBound)
  BY <1>4, <1>7
<1>10. ASSUME NEW f \in Nat
       PROVE  /\ f < MemSize => WordOf(f) < FirstBound
              /\ IdealStart # 0 => (f < IdealStart <=> WordOf(f) < NextBound)
  BY <1>1, <1>2, <1>3, <1>4, <1>5, <1>6, <1>8
<1> QED
  BY <1>2, <1>3, <1>4, <1>9, <1>10

\* A frame that is free lies inside memory.
LEMMA FreeIsInside ==
    ASSUME IInv, NEW f \in Frames \ used
    PROVE  f \in Nat /\ f < MemSize
BY ReservedOK, ConstantFacts DEF IInv, BitmapExact

\* Between the begin and the end of a search fewer and fewer frames are unused.
LEMMA UnusedShrinks ==
    ASSUME FailInv, HNext, NEW d \in Callers
    PROVE  /\ unused' = [c \in Callers |-> unused'[c]]
           /\ unused'[d] \subseteq Frames \ used'
           /\ ~ SearchBegins(d) => unused'[d] \subseteq unused[d]
BY DEF FailInv, HNext

\* A step of c: the others stay where they are.
Alone(c) == \A d \in Callers \ {c} :
    /\ pc'[d] = pc[d] /\ max'[d] = max[d] /\ then'[d] = then[d]
    /\ n'[d] = n[d] /\ memSz'[d] = memSz[d] /\ start'[d] = start[d]

\* Such a step keeps the invariant if it does for c.
LEMMA AloneKeeps ==
    ASSUME FailInv, HNext, NEW c \in Callers, Alone(c), UnusedInv(c)'
    PROVE  FailInv'
<1>1. ASSUME NEW d \in Callers \ {c} PROVE UnusedInv(d)'
  <2>1. ~ SearchBegins(d)
    BY DEF Alone, SearchBegins
  <2>2. unused'[d] \subseteq unused[d]
    BY <2>1, UnusedShrinks
  <2>3. UnusedInv(d)
    BY DEF FailInv
  <2> QED
    BY <2>2, <2>3 DEF Alone, UnusedInv, Pass, Bound
<1> QED
  BY <1>1, UnusedShrinks DEF FailInv

\* A search begins in the word of the ideal start.
LEMMA BeginUnused ==
    ASSUME IInv, FailInv, HNext, NEW c \in Callers, BeginScan(c, max'[c])
    PROVE  UnusedInv(c)'
<1> SUFFICES ASSUME max'[c] = 0
             PROVE  Pass(c)' /\ n'[c] <= Bound(c)' /\ pc'[c] = "scan"
  BY DEF UnusedInv
<1>1. start'[c] = IdealStart /\ memSz'[c] = MemSize /\ n'[c] = FirstWord /\ pc'[c] = "scan"
  BY DEF BeginScan, FirstWord, IInv, TypeOK
<1>2. Bound(c)' = FirstBound
  BY <1>1 DEF Bound, FirstBound
<1>3. \A f \in unused'[c] : f \in Nat /\ (f < IdealStart \/ WordOf(f) >= FirstWord)
  <2>1. unused'[c] \subseteq Nat
    BY UnusedShrinks, ConstantFacts
  <2> QED
    BY <2>1, WordFacts, ConstantFacts
<1> QED
  BY <1>1, <1>2, <1>3, WordFacts DEF Pass

\* At the end of a pass no frame it could find is unused ...
PassOver(c) == /\ start[c] \in {0, IdealStart}
               /\ start[c] # 0 => \A f \in unused[c] : f < IdealStart
               /\ start[c] = 0 => unused[c] = {}

\* The loop ran to its bound.
LEMMA BoundIsOver ==
    ASSUME IInv, FailInv, NEW c \in Callers, max[c] = 0, pc[c] = "scan", n[c] = Bound(c)
    PROVE  PassOver(c)
<1>1. Pass(c) /\ unused[c] \subseteq Frames \ used
  BY DEF IInv, PlaceInv, FailInv, UnusedInv
<1>2. \A f \in unused[c] : f \in Nat /\ f < MemSize
  BY <1>1, FreeIsInside
<1>3. CASE start[c] = IdealStart /\ memSz[c] = MemSize
               /\ \A f \in unused[c] : f < IdealStart \/ WordOf(f) >= n[c]
  <2>1. n[c] = FirstBound
    BY <1>3 DEF Bound, FirstBound
  <2>2. \A f \in unused[c] : f < IdealStart
    BY <1>2, <1>3, <2>1, WordFacts
  <2>3. IdealStart = 0 => unused[c] = {}
    BY <1>2, <2>2
  <2> QED
    BY <1>3, <2>2, <2>3 DEF PassOver
<1>4. CASE start[c] = 0 /\ memSz[c] = IdealStart /\ IdealStart # 0
               /\ \A f \in unused[c] : f < IdealStart /\ WordOf(f) >= n[c]
  <2>1. n[c] = NextBound
    BY <1>4 DEF Bound, NextBound
  <2>2. unused[c] = {}
    BY <1>2, <1>4, <2>1, WordFacts
  <2> QED
    BY <1>4, <2>2 DEF PassOver
<1> QED
  BY <1>1, <1>3, <1>4 DEF Pass

\* ... so the next one begins with those below the ideal start, or none is
\* left.
LEMMA NextPassUnused ==
    ASSUME IInv, FailInv, HNext, NEW c \in Callers, NextPass(c), pc[c] \in {"scan", "bit"},
           max' = max, max[c] = 0 => PassOver(c)
    PROVE  UnusedInv(c)'
<1> SUFFICES ASSUME max[c] = 0
             PROVE  \/ pc'[c] = "scan" /\ Pass(c)' /\ n'[c] <= Bound(c)'
                    \/ pc'[c] = "fail" /\ unused'[c] = {}
  BY DEF UnusedInv
<1>1. unused'[c] \subseteq unused[c] /\ unused'[c] \subseteq Nat
  <2>1. ~ SearchBegins(c)
    BY DEF SearchBegins
  <2> QED
    BY <2>1, UnusedShrinks, ConstantFacts
<1>2. CASE start[c] # 0
  <2>1. memSz'[c] = IdealStart /\ start'[c] = 0 /\ n'[c] = 0 /\ pc'[c] = "scan"
    BY <1>2 DEF NextPass, PassOver, IInv, TypeOK
  <2>2. Bound(c)' = NextBound /\ IdealStart # 0
    BY <1>2, <2>1 DEF Bound, NextBound, PassOver
  <2>3. \A f \in unused'[c] : f < IdealStart /\ WordOf(f) >= 0
    BY <1>1, <1>2, WordFacts DEF PassOver
  <2> QED
    BY <2>1, <2>2, <2>3, WordFacts DEF Pass
<1>3. CASE start[c] = 0
  BY <1>1, <1>3 DEF NextPass, PassOver, IInv, TypeOK
<1> QED
  BY <1>2, <1>3

\* A word without a clear bit has no unused frame.
LEMMA WordIsFull ==
    ASSUME IInv, FailInv, NEW c \in Callers, Pass(c), ClearIn(n[c]) = {}
    PROVE  \A f \in unused[c] : WordOf(f) >= n[c] => WordOf(f) >= n[c] + 1
<1> TAKE f \in unused[c]
<1>1. f \in Frames \ used /\ f \in Nat /\ WordOf(f) \in Nat /\ n[c] \in Nat
  BY ConstantFacts, WordFacts DEF FailInv, IInv, TypeOK
<1>2. WordOf(f) # n[c]
  BY <1>1 DEF ClearIn
<1> QED
  BY <1>1, <1>2

\* The first clear bit of a word below the bound is below the end of the pass.
LEMMA ClearIsInside ==
    ASSUME IInv, FailInv, NEW c \in Callers, Pass(c), n[c] < Bound(c), NEW f \in ClearIn(n[c])
    PROVE  f < memSz[c]
<1>1. f \in Nat /\ f < MemSize /\ WordOf(f) = n[c]
  BY FreeIsInside DEF ClearIn
<1>2. CASE memSz[c] = MemSize
  BY <1>1, <1>2
<1>3. CASE memSz[c] = IdealStart /\ IdealStart # 0
  <2>1. Bound(c) = NextBound
    BY <1>3 DEF Bound, NextBound
  <2> QED
    BY <1>1, <1>3, <2>1, WordFacts
<1> QED
  BY <1>2, <1>3 DEF Pass

\* The scan of one word: the next word, the next pass, or a clear bit found.
LEMMA ScanUnused ==
    ASSUME IInv, FailInv, HNext, NEW c \in Callers, ScanWord(c)
    PROVE  UnusedInv(c)' /\ Alone(c)
<1>1. /\ pc[c] = "scan" /\ then[c] = "none" /\ UNCHANGED <<used, max, then>>
      /\ n[c] \in Nat
  BY DEF ScanWord, call, run, IInv, PlaceInv, TypeOK
<1>2. unused'[c] \subseteq unused[c]
  <2>1. ~ SearchBegins(c)
    BY <1>1 DEF SearchBegins
  <2> QED
    BY <2>1, UnusedShrinks
<1>3. max[c] = 0 => Pass(c) /\ n[c] <= Bound(c)
  BY <1>1 DEF FailInv, UnusedInv
<1>4. max[c] = 0 => Bound(c) \in Int
  <2>1. CASE memSz[c] = MemSize
    BY <2>1, WordFacts DEF Bound, FirstBound
  <2>2. CASE memSz[c] = IdealStart /\ IdealStart # 0
    BY <2>2, WordFacts DEF Bound, NextBound
  <2> QED
    BY <1>3, <2>1, <2>2 DEF Pass
<1>5. CASE n[c] < Bound(c) /\ ClearIn(n[c]) = {} /\ n' = [n EXCEPT ![c] = @ + 1]
               /\ UNCHANGED <<pc, memSz, start>>
  <2>1. n'[c] = n[c] + 1 /\ Alone(c)
    BY <1>1, <1>5 DEF Alone, IInv, TypeOK
  <2>2. max[c] = 0 => n[c] + 1 <= Bound(c)
    BY <1>1, <1>4, <1>5
  <2>3. ASSUME max[c] = 0 PROVE Pass(c)'
    <3>1. \A f \in unused[c] : WordOf(f) >= n[c] => WordOf(f) >= n[c] + 1
      BY <1>3, <1>5, <2>3, WordIsFull
    <3> QED
      BY <1>2, <1>3, <1>5, <2>1, <2>3, <3>1 DEF Pass
  <2> QED
    BY <1>1, <1>5, <2>1, <2>2, <2>3 DEF UnusedInv, Bound
<1>6. CASE n[c] = Bound(c) /\ NextPass(c)
  <2>1. max[c] = 0 => PassOver(c)
    BY <1>1, <1>6, BoundIsOver
  <2>2. UnusedInv(c)'
    BY <1>1, <1>6, <2>1, NextPassUnused
  <2>3. Alone(c)
    BY <1>1, <1>6 DEF Alone, NextPass, LeaveScan, IInv, TypeOK
  <2> QED
    BY <2>2, <2>3
<1>7. CASE (n[c] > Bound(c) \/ (n[c] < Bound(c) /\ ClearIn(n[c]) # {}))
               /\ pc' = [pc EXCEPT ![c] = "bit"] /\ UNCHANGED scan
  <2>1. max[c] = 0 => n[c] < Bound(c)
    BY <1>1, <1>3, <1>4, <1>7
  <2>2. pc'[c] = "bit" /\ Alone(c) /\ UNCHANGED <<n, memSz, start>>
    BY <1>1, <1>7 DEF scan, Alone, IInv, TypeOK
  <2>3. max[c] = 0 => Pass(c)'
    BY <1>2, <1>3, <2>2 DEF Pass
  <2> QED
    BY <1>1, <1>3, <2>1, <2>2, <2>3 DEF UnusedInv, Bound
<1> QED
  BY <1>5, <1>6, <1>7 DEF ScanWord

\* The second look at the word finds a candidate, or none, but never one past
\* the end of the pass.
LEMMA PickUnused ==
    ASSUME IInv, FailInv, HNext, NEW c \in Callers, PickBit(c)
    PROVE  UnusedInv(c)' /\ Alone(c)
<1>1. pc[c] = "bit" /\ then[c] = "none" /\ UNCHANGED <<used, max, then>>
  BY DEF PickBit, call, run, IInv, PlaceInv
<1>2. unused'[c] \subseteq unused[c]
  <2>1. ~ SearchBegins(c)
    BY <1>1 DEF SearchBegins
  <2> QED
    BY <2>1, UnusedShrinks
<1>3. max[c] = 0 => Pass(c) /\ n[c] < Bound(c) /\ n[c] <= Bound(c)
  BY <1>1 DEF FailInv, UnusedInv
<1>4. CASE UNCHANGED scan /\ (\/ pc' = [pc EXCEPT ![c] = "scan"]
                              \/ pc' = [pc EXCEPT ![c] = "lock"])
  <2>1. pc'[c] \in {"scan", "lock"} /\ Alone(c) /\ UNCHANGED <<n, memSz, start>>
    BY <1>1, <1>4 DEF scan, Alone, IInv, TypeOK
  <2>2. max[c] = 0 => Pass(c)'
    BY <1>2, <1>3, <2>1 DEF Pass
  <2> QED
    BY <1>1, <1>3, <2>1, <2>2 DEF UnusedInv, Bound
<1>5. ASSUME NEW f \in ClearIn(n[c]), f >= memSz[c], NextPass(c)
      PROVE  UnusedInv(c)' /\ Alone(c)
  <2>1. max[c] # 0
    <3>1. SUFFICES ASSUME max[c] = 0 PROVE FALSE
      OBVIOUS
    <3>2. f < memSz[c] /\ f \in Nat /\ memSz[c] \in Nat
      BY <1>3, <3>1, ClearIsInside, ConstantFacts DEF ClearIn, IInv, TypeOK
    <3> QED
      BY <1>5, <3>2
  <2>2. UnusedInv(c)'
    BY <1>1, <1>5, <2>1, NextPassUnused
  <2>3. Alone(c)
    BY <1>1, <1>5 DEF Alone, NextPass, LeaveScan, IInv, TypeOK
  <2> QED
    BY <2>2, <2>3
<1> QED
  BY <1>4, <1>5 DEF PickBit

\* Steps between the choice of a frame and the release of the lock.
LEMMA LockedUnused ==
    ASSUME IInv, FailInv, HNext, NEW c \in Callers, pc[c] \in {"lock", "load", "store"},
           pc'[c] \in {"load", "store", "unlock"}, Alone(c),
           UNCHANGED <<max, then, n, memSz, start>>
    PROVE  UnusedInv(c)'
<1>1. unused'[c] \subseteq unused[c]
  <2>1. ~ SearchBegins(c)
    BY DEF SearchBegins
  <2> QED
    BY <2>1, UnusedShrinks
<1>2. UnusedInv(c)
  BY DEF FailInv
<1> QED
  BY <1>1, <1>2 DEF UnusedInv, Pass, Bound

\* The search goes on from the same word, or has its frame.
LEMMA UnlockUnused ==
    ASSUME IInv, FailInv, HNext, NEW c \in Callers, UnlockClaim(c)
    PROVE  UnusedInv(c)' /\ Alone(c)
<1>1. pc[c] = "unlock" /\ Claiming(c) /\ UNCHANGED <<max, then>>
  BY DEF UnlockClaim, call, run
<1>2. CASE pc' = [pc EXCEPT ![c] = "scan"] /\ UNCHANGED scan
  <2>1. pc'[c] = "scan" /\ Alone(c) /\ UNCHANGED <<n, memSz, start>>
    BY <1>1, <1>2 DEF scan, Alone, IInv, TypeOK
  <2>2. unused'[c] \subseteq unused[c]
    <3>1. ~ SearchBegins(c)
      BY <1>1 DEF SearchBegins
    <3> QED
      BY <3>1, UnusedShrinks
  <2>3. UnusedInv(c)
    BY DEF FailInv
  <2> QED
    BY <1>1, <2>1, <2>2, <2>3 DEF UnusedInv, Pass, Bound
<1>3. CASE pc' = [pc EXCEPT ![c] = "got"] /\ LeaveScan(c)
  BY <1>1, <1>3 DEF LeaveScan, Alone, UnusedInv, IInv, TypeOK
<1> QED
  BY <1>2, <1>3 DEF UnlockClaim

\* The other steps end a search, or begin the next.
LEMMA StepUnused ==
    ASSUME IInv, FailInv, HNext, NEW c \in Callers, Step(c)
    PROVE  UnusedInv(c)' /\ Alone(c)
<1>1. CASE ScanWord(c)
  BY <1>1, ScanUnused
<1>2. CASE PickBit(c)
  BY <1>2, PickUnused
<1>3. CASE AcquireLock(c) \/ LoadByte(c)
  <2>1. /\ pc[c] \in {"lock", "load"} /\ pc'[c] \in {"load", "store"}
        /\ UNCHANGED <<max, then, n, memSz, start>> /\ Alone(c)
    BY <1>3 DEF AcquireLock, LoadByte, call, run, scan, Alone, IInv, TypeOK
  <2> QED
    BY <2>1, LockedUnused
<1>4. CASE StoreSet(c) \/ StoreClear(c)
  <2>1. /\ pc[c] = "store" /\ pc'[c] = "unlock"
        /\ UNCHANGED <<max, then, n, memSz, start>> /\ Alone(c)
    BY <1>4 DEF StoreSet, StoreClear, call, scan, Alone, IInv, TypeOK
  <2> QED
    BY <2>1, LockedUnused
<1>5. CASE UnlockClaim(c)
  BY <1>5, UnlockUnused
<1>6. CASE UnlockFree(c)
  <2>1. CASE BeginScan(c, max[c]) /\ UNCHANGED call /\ then' = [then EXCEPT ![c] = "none"]
    <3>1. BeginScan(c, max'[c]) /\ Alone(c)
      BY <2>1 DEF BeginScan, call, Alone, IInv, TypeOK
    <3> QED
      BY <3>1, BeginUnused
  <2>2. CASE pc' = [pc EXCEPT ![c] = "lock"] /\ UNCHANGED <<call, then, scan>>
    BY <1>6, <2>2 DEF UnlockFree, Claiming, call, scan, Alone, UnusedInv, IInv, TypeOK
  <2>3. CASE Return(c) /\ UNCHANGED scan
    BY <2>3 DEF Return, scan, Alone, UnusedInv, IInv, TypeOK
  <2> QED
    BY <1>6, <2>1, <2>2, <2>3 DEF UnlockFree
<1>7. CASE Extend(c)
  <2>1. CASE BeginScan(c, max[c]) /\ UNCHANGED <<call, then>>
    <3>1. BeginScan(c, max'[c]) /\ Alone(c)
      BY <2>1 DEF BeginScan, call, Alone, IInv, TypeOK
    <3> QED
      BY <3>1, BeginUnused
  <2>2. CASE Return(c) /\ UNCHANGED scan
    BY <2>2 DEF Return, scan, Alone, UnusedInv, IInv, TypeOK
  <2> QED
    BY <1>7, <2>1, <2>2 DEF Extend
<1>8. CASE StartAgain(c)
  BY <1>8 DEF StartAgain, call, scan, Alone, UnusedInv, IInv, TypeOK
<1>9. CASE GiveUp(c)
  BY <1>9 DEF GiveUp, Return, call, scan, Alone, UnusedInv, IInv, TypeOK
<1> QED
  BY <1>1, <1>2, <1>3, <1>4, <1>5, <1>6, <1>7, <1>8, <1>9 DEF Step

\* A call begins a search, or frees.
LEMMA CallUnused ==
    ASSUME IInv, FailInv, HNext, NEW c \in Callers, Call(c)
    PROVE  UnusedInv(c)' /\ Alone(c)
<1>1. ASSUME NEW l \in Lengths, NEW m \in Limits, Allocate(c, l, m)
      PROVE  UnusedInv(c)' /\ Alone(c)
  <2>1. BeginScan(c, max'[c]) /\ Alone(c)
    BY <1>1 DEF Allocate, BeginScan, run, Alone, IInv, TypeOK
  <2> QED
    BY <2>1, BeginUnused
<1>2. ASSUME NEW a \in owned[c], NEW l \in Lengths, Free(c, a, l)
      PROVE  UnusedInv(c)' /\ Alone(c)
  BY <1>2 DEF Free, call, scan, Alone, UnusedInv, IInv, TypeOK
<1> QED
  BY <1>1, <1>2 DEF Call

\* Nobody searches initially.
LEMMA InitUnused == HInit => FailInv
BY DEF HInit, Init, FailInv, UnusedInv

\* Every step keeps the invariant.
LEMMA NextUnused == IInv /\ FailInv /\ [HNext]_<<vars, unused>> => FailInv'
<1> SUFFICES ASSUME IInv, FailInv, [HNext]_<<vars, unused>> PROVE FailInv'
  OBVIOUS
<1>1. CASE HNext
  <2>1. PICK c \in Callers : Call(c) \/ Step(c)
    BY <1>1 DEF HNext, Next
  <2> QED
    BY <1>1, <2>1, CallUnused, StepUnused, AloneKeeps
<1>2. CASE UNCHANGED <<vars, unused>>
  BY <1>2 DEF vars, call, run, scan, FailInv, UnusedInv, Pass, Bound
<1> QED
  BY <1>1, <1>2

\* allocateSinglePage answers "out of memory", when asked for any page, only if
\* no frame was free during the whole of its search, although it reads the
\* bitmap a word at a time with no lock and others free frames behind it.
THEOREM FailureIsRight == HSpec => []FailsOnlyWhenFull
<1>1. FailInv /\ IInv => FailsOnlyWhenFull
  BY DEF FailInv, UnusedInv, IInv, PlaceInv, FailsOnlyWhenFull
<1>2. HInit => Init
  BY DEF HInit
<1>3. [HNext]_<<vars, unused>> => [Next]_vars
  BY DEF HNext
<1>4. IInv /\ FailInv /\ [HNext]_<<vars, unused>> => FailInv'
  BY NextUnused
<1> QED
  BY <1>1, <1>2, <1>3, <1>4, InitUnused, InvariantHolds, PTL DEF HSpec, Spec
==============================================================================
