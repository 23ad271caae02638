--------------------------- MODULE LockOrderProofs ---------------------------
(***************************************************************************)
(* The kernel takes its spinlocks in one order: scheduler, heap, pages,    *)
(* frames.  So threads alone can never wait for one another in a circle,   *)
(* for any CPUs and threads: what can block the kernel for ever (see       *)
(* SomeCpuMovesOn) is only the interrupt flag, which keeps an owner from   *)
(* being run.                                                              *)
(***************************************************************************)
EXTENDS LockOrder, TLAPS

Rank(l) == CASE l = "scheduler" -> 1
             [] l = "heap"      -> 2
             [] l = "pages"     -> 3
             [] l = "frames"    -> 4

Types == /\ exec \in [CPUs -> Threads]
         /\ held \in [Threads -> Seq(Locks)]
         /\ wants \in [Threads -> Locks \cup {None}]

\* A thread holds locks of ascending rank and wants one above them all.
Ascends(t) ==
    /\ \A i, j \in 1 .. Len(held[t]) : i < j => Rank(held[t][i]) < Rank(held[t][j])
    /\ wants[t] # None => \A i \in 1 .. Len(held[t]) : Rank(held[t][i]) < Rank(wants[t])

OrderInv == Types /\ \A t \in Threads : Ascends(t)

\* t spins for a lock that u holds.
WaitsFor(t, u) == wants[t] # None /\ Contains(held[u], wants[t])

\* There is no circle: among any threads one waits for none of them.
WaitsEnd ==
    \A S \in SUBSET Threads : S # {} => \E t \in S : \A u \in S : ~WaitsFor(t, u)
------------------------------------------------------------------------------
LEMMA RankOfInner ==
    ASSUME NEW l \in Locks, NEW k \in Inner(l)
    PROVE  k \in Locks /\ Rank(l) < Rank(k)
BY DEF Locks, Inner, Rank, None

LEMMA RankRange == \A l \in Locks : Rank(l) \in 1 .. 4
BY DEF Locks, Rank

LEMMA NoneIsNoLock == None \notin Locks
BY DEF None, Locks

LEMMA InitOrder == Init => OrderInv
BY DEF Init, OrderInv, Types, Ascends

LEMMA AcquireOrder ==
    ASSUME OrderInv, NEW p \in CPUs, NEW l \in Locks, Acquire(p, l)
    PROVE  OrderInv'
<1> DEFINE t == exec[p]
<1>1. t \in Threads /\ held[t] \in Seq(Locks) /\ UNCHANGED held
      /\ wants' = [wants EXCEPT ![t] = l]
  BY DEF OrderInv, Types, Acquire
<1>2. ASSUME NEW i \in 1 .. Len(held[t]) PROVE Rank(held[t][i]) < Rank(l)
  <2>1. held[t] # <<>> /\ Last(held[t]) = held[t][Len(held[t])]
        /\ Len(held[t]) \in 1 .. Len(held[t])
    BY <1>1, <1>2 DEF Last
  <2>2. Last(held[t]) \in Locks /\ held[t][i] \in Locks
    BY <1>1, <1>2, <2>1
  <2>3. Rank(Last(held[t])) < Rank(l)
    BY <2>1, <2>2, RankOfInner DEF Acquire, LastHeld
  <2>4. i = Len(held[t]) \/ Rank(held[t][i]) < Rank(Last(held[t]))
    BY <1>1, <1>2, <2>1 DEF OrderInv, Ascends
  <2> QED
    BY <2>1, <2>2, <2>3, <2>4, RankRange
<1>3. Types'
  BY <1>1 DEF OrderInv, Types, Acquire
<1>4. \A s \in Threads : Ascends(s)'
  BY <1>1, <1>2 DEF OrderInv, Types, Ascends
<1> QED
  BY <1>3, <1>4 DEF OrderInv

LEMMA TakeOrder ==
    ASSUME OrderInv, NEW p \in CPUs, Take(p)
    PROVE  OrderInv'
<1>1. PICK t \in Threads :
      /\ held[t] \in Seq(Locks) /\ wants[t] \in Locks
      /\ held' = [held EXCEPT ![t] = Append(held[t], wants[t])]
      /\ wants' = [wants EXCEPT ![t] = None]
      /\ UNCHANGED exec
  BY DEF OrderInv, Types, Take
<1>2. Types'
  BY <1>1 DEF OrderInv, Types
<1>3. Ascends(t)'
  <2>1. held'[t] = Append(held[t], wants[t]) /\ wants'[t] = None
    BY <1>1 DEF OrderInv, Types
  <2>2. ASSUME NEW i \in 1 .. Len(held'[t]), NEW j \in 1 .. Len(held'[t]), i < j
        PROVE  Rank(held'[t][i]) < Rank(held'[t][j])
    <3>1. i \in 1 .. Len(held[t]) /\ held'[t][i] = held[t][i]
      BY <1>1, <2>1, <2>2
    <3>2. CASE j \in 1 .. Len(held[t])
      BY <1>1, <2>1, <2>2, <3>1, <3>2 DEF OrderInv, Ascends
    <3>3. CASE j = Len(held[t]) + 1
      <4>1. held'[t][j] = wants[t]
        BY <1>1, <2>1, <3>3
      <4> QED
        BY <1>1, <3>1, <4>1, NoneIsNoLock DEF OrderInv, Ascends
    <3> QED
      BY <1>1, <2>1, <2>2, <3>2, <3>3
  <2> QED
    BY <2>1, <2>2 DEF Ascends
<1>4. \A s \in Threads \ {t} : Ascends(s)'
  BY <1>1 DEF OrderInv, Types, Ascends
<1> QED
  BY <1>2, <1>3, <1>4 DEF OrderInv

LEMMA ReleaseOrder ==
    ASSUME OrderInv, NEW p \in CPUs, Release(p)
    PROVE  OrderInv'
<1>1. PICK t \in Threads :
      /\ held[t] \in Seq(Locks) /\ held[t] # <<>> /\ wants[t] = None
      /\ held' = [held EXCEPT ![t] = SubSeq(held[t], 1, Len(held[t]) - 1)]
      /\ UNCHANGED <<exec, wants>>
  BY DEF OrderInv, Types, Release, Front
<1>2. LET s == SubSeq(held[t], 1, Len(held[t]) - 1)
      IN  /\ s \in Seq(Locks)
          /\ Len(s) = Len(held[t]) - 1
          /\ \A i \in 1 .. Len(s) : s[i] = held[t][i]
  BY <1>1
<1>3. Types'
  BY <1>1, <1>2 DEF OrderInv, Types
<1>4. Ascends(t)'
  BY <1>1, <1>2 DEF OrderInv, Types, Ascends
<1>5. \A u \in Threads \ {t} : Ascends(u)'
  BY <1>1 DEF OrderInv, Types, Ascends
<1> QED
  BY <1>3, <1>4, <1>5 DEF OrderInv

LEMMA NextOrder == OrderInv /\ [Next]_vars => OrderInv'
<1> SUFFICES ASSUME OrderInv, [Next]_vars PROVE OrderInv'
  OBVIOUS
<1>1. ASSUME NEW p \in CPUs, NEW l \in Locks, Acquire(p, l) PROVE OrderInv'
  BY <1>1, AcquireOrder
<1>2. ASSUME NEW p \in CPUs, Take(p) PROVE OrderInv'
  BY <1>2, TakeOrder
<1>3. ASSUME NEW p \in CPUs, Release(p) PROVE OrderInv'
  BY <1>3, ReleaseOrder
<1>4. ASSUME NEW p \in CPUs, Tick(p) PROVE OrderInv'
  BY <1>4 DEF Tick, OrderInv, Types, Ascends
<1>5. ASSUME NEW p \in CPUs, Schedule(p) PROVE OrderInv'
  BY <1>5 DEF Schedule, OrderInv, Types, Ascends
<1>6. CASE UNCHANGED vars
  BY <1>6 DEF vars, OrderInv, Types, Ascends
<1> QED
  BY <1>1, <1>2, <1>3, <1>4, <1>5, <1>6 DEF Next
------------------------------------------------------------------------------
\* Whoever waits for a thread wants a lock below the one that thread wants.
LEMMA WaitRises ==
    ASSUME OrderInv, NEW t \in Threads, NEW u \in Threads, WaitsFor(t, u),
           wants[u] # None
    PROVE  Rank(wants[t]) < Rank(wants[u])
<1>1. PICK i \in 1 .. Len(held[u]) : held[u][i] = wants[t]
  BY DEF WaitsFor, Contains
<1> QED
  BY <1>1 DEF OrderInv, Ascends

LEMMA OrderEndsWaits == OrderInv => WaitsEnd
<1> SUFFICES ASSUME OrderInv, NEW S \in SUBSET Threads, S # {},
                    \A t \in S : \E u \in S : WaitsFor(t, u)
             PROVE  FALSE
  BY DEF WaitsEnd
<1>1. \A t \in S : wants[t] # None /\ Rank(wants[t]) \in 1 .. 4
  BY RankRange DEF WaitsFor, OrderInv, Types
<1>2. \A t \in S : \E u \in S : Rank(wants[t]) < Rank(wants[u])
  BY <1>1, WaitRises
<1>3. \A t \in S : Rank(wants[t]) # 4
  BY <1>1, <1>2
<1>4. \A t \in S : Rank(wants[t]) # 3
  BY <1>1, <1>2, <1>3
<1>5. \A t \in S : Rank(wants[t]) # 2
  BY <1>1, <1>2, <1>3, <1>4
<1> QED
  BY <1>1, <1>2, <1>3, <1>4, <1>5

\* Threads never wait for one another in a circle.
THEOREM NoCircularWait == Spec => []WaitsEnd
BY InitOrder, NextOrder, OrderEndsWaits, PTL DEF Spec
==============================================================================
