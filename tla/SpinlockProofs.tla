--------------------------- MODULE SpinlockProofs ---------------------------
(***************************************************************************)
(* Proofs about CSpinlock, for any set of callers: exclusion, agreement of *)
(* the word with the callers, and implementation of the abstract Mutex.    *)
(***************************************************************************)
EXTENDS Spinlock, TLAPS

\* Neither conjunct is inductive alone: the word keeps a second caller out
\* only because it is set whenever somebody is inside, and it may be cleared
\* by a release only because nobody else is inside then.
IInv == TypeOK /\ MutualExclusion /\ WordMatchesOwner

LEMMA InitIInv == Init => IInv
BY DEF Init, IInv, TypeOK, MutualExclusion, WordMatchesOwner, Inside

LEMMA StepIInv == IInv /\ [Next]_vars => IInv'
<1> SUFFICES ASSUME IInv, [Next]_vars PROVE IInv'
  OBVIOUS
<1> USE DEF IInv, TypeOK, MutualExclusion, WordMatchesOwner, Inside
<1>1. ASSUME NEW c \in Callers, Acquire(c) PROVE IInv'
  BY <1>1 DEF Acquire
<1>2. ASSUME NEW c \in Callers, BitTestSet(c) PROVE IInv'
  BY <1>2 DEF BitTestSet
<1>3. ASSUME NEW c \in Callers, Pause(c) PROVE IInv'
  BY <1>3 DEF Pause
<1>4. ASSUME NEW c \in Callers, Release(c) PROVE IInv'
  BY <1>4 DEF Release
<1>5. CASE UNCHANGED vars
  BY <1>5 DEF vars
<1> QED
  BY <1>1, <1>2, <1>3, <1>4, <1>5 DEF Next, Step

\* The strengthened invariant holds in every reachable state.
THEOREM InvariantHolds == Spec => []IInv
BY InitIInv, StepIInv, PTL DEF Spec

\* acquireSpinlock/releaseSpinlock type-check: the word stays one bit.
THEOREM TypeCorrect == Spec => []TypeOK
BY InvariantHolds, PTL DEF IInv

\* acquireSpinlock excludes: no two callers are ever inside together.
THEOREM Excludes == Spec => []MutualExclusion
BY InvariantHolds, PTL DEF IInv

\* The word is set exactly while some caller is inside.
THEOREM WordIsTruthful == Spec => []WordMatchesOwner
BY InvariantHolds, PTL DEF IInv

\* Every behaviour of the test-and-test-and-set lock is a behaviour of the
\* abstract Mutex: the locked instruction that finds 0 is Take, the store of
\* 0 is Give, and the spinning is stuttering.
THEOREM RefinesMutex == Spec => ImplementsMutex
<1>1. Init => Abstract!Init
  BY DEF Init, Abstract!Init, Inside
<1>2. IInv /\ [Next]_vars => [Abstract!Next]_Inside
  <2> SUFFICES ASSUME IInv, [Next]_vars PROVE Abstract!Next \/ Inside' = Inside
    OBVIOUS
  <2> USE DEF IInv, TypeOK, MutualExclusion, WordMatchesOwner, Inside
  <2>1. ASSUME NEW c \in Callers, Acquire(c) PROVE Inside' = Inside
    BY <2>1 DEF Acquire
  <2>2. ASSUME NEW c \in Callers, BitTestSet(c) PROVE Abstract!Take(c) \/ Inside' = Inside
    <3>1. CASE m_lock = 0
      BY <2>2, <3>1 DEF BitTestSet, Abstract!Take
    <3>2. CASE m_lock = 1
      BY <2>2, <3>2 DEF BitTestSet
    <3> QED
      BY <3>1, <3>2
  <2>3. ASSUME NEW c \in Callers, Pause(c) PROVE Inside' = Inside
    BY <2>3 DEF Pause
  <2>4. ASSUME NEW c \in Callers, Release(c) PROVE Abstract!Give(c)
    BY <2>4 DEF Release, Abstract!Give
  <2>5. CASE UNCHANGED vars
    BY <2>5 DEF vars
  <2> QED
    BY <2>1, <2>2, <2>3, <2>4, <2>5 DEF Next, Step, Abstract!Next
<1> QED
  BY <1>1, <1>2, InvariantHolds, PTL DEF Spec, ImplementsMutex, Abstract!Spec
==============================================================================
