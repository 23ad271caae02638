------------------------------ MODULE Spinlock ------------------------------
(***************************************************************************)
(* CSpinlock (ChaiOS/arch/x64/spinlockx64.cpp, spinlockx86.cpp): a         *)
(* test-and-test-and-set lock.  The word m_lock is 0 or 1 and carries no   *)
(* owner; a release is an unconditional store of 0, so exclusion rests on  *)
(* the callers releasing only what they acquired.  A caller is a CPU or a  *)
(* thread; it may be preempted between any two of its steps, which is the  *)
(* interleaving of the steps below.                                        *)
(***************************************************************************)
EXTENDS Naturals

CONSTANT Callers

VARIABLES m_lock,   \* the lock word
          pc        \* where each caller is

vars == <<m_lock, pc>>

Init == /\ m_lock = 0
        /\ pc = [c \in Callers |-> "outside"]

\* acquireSpinlock is entered.
Acquire(c) == /\ pc[c] = "outside"
              /\ pc' = [pc EXCEPT ![c] = "test_set"]
              /\ UNCHANGED m_lock

\* Mutant of BitTestSet: a locked increment instead of a locked bit set.
BitTestSetCounts(c) == /\ pc[c] = "test_set"
                       /\ m_lock < 3
                       /\ m_lock' = m_lock + 1
                       /\ pc' = [pc EXCEPT ![c] = IF m_lock = 0 THEN "inside" ELSE "pause"]

\* LOCKED_BIT_TEST_SET(&m_lock, 0): read the old bit and set it in one
\* locked instruction.  The old bit decides whether the caller is in.
BitTestSet(c) == /\ pc[c] = "test_set"
                 /\ m_lock' = 1
                 /\ pc' = [pc EXCEPT ![c] = IF m_lock = 0 THEN "inside" ELSE "pause"]

\* Mutant of Pause: trust the plain read and skip the locked retry.
PauseSkipsTest(c) == /\ pc[c] = "pause"
                     /\ m_lock = 0
                     /\ pc' = [pc EXCEPT ![c] = "inside"]
                     /\ UNCHANGED m_lock

\* do PAUSE() while (m_lock & 1): a plain read.  Seeing 0 only sends the
\* caller back to the locked instruction.
Pause(c) == /\ pc[c] = "pause"
            /\ m_lock = 0
            /\ pc' = [pc EXCEPT ![c] = "test_set"]
            /\ UNCHANGED m_lock

\* Mutant of Release: leave without clearing the word.
ReleaseKeepsWord(c) == /\ pc[c] = "inside"
                       /\ pc' = [pc EXCEPT ![c] = "outside"]
                       /\ UNCHANGED m_lock

\* releaseSpinlock: m_lock = 0, whoever calls it.
Release(c) == /\ pc[c] = "inside"
              /\ m_lock' = 0
              /\ pc' = [pc EXCEPT ![c] = "outside"]

Step(c) == BitTestSet(c) \/ Pause(c) \/ Release(c)

Next == \E c \in Callers : Acquire(c) \/ Step(c)

Spec == Init /\ [][Next]_vars

\* Every caller inside acquireSpinlock or the section keeps executing: a CPU
\* runs, and a preempted thread gets the CPU back.  Nobody has to call
\* acquireSpinlock.
FairSpec == Spec /\ \A c \in Callers : WF_vars(Step(c))
------------------------------------------------------------------------------
TypeOK == /\ m_lock \in {0, 1}
          /\ pc \in [Callers -> {"outside", "test_set", "pause", "inside"}]

Inside == {c \in Callers : pc[c] = "inside"}

\* What one caller at a time relies on: two callers are never both between
\* acquireSpinlock and releaseSpinlock.
MutualExclusion == \A c, d \in Inside : c = d

\* The word and the callers agree: it is set exactly while somebody is
\* inside.  A stale 1 would stop every later acquire for good.
WordMatchesOwner == (m_lock = 1) <=> (Inside # {})

\* The spinlock implements the abstract lock.
Abstract == INSTANCE Mutex WITH owners <- Inside
ImplementsMutex == Abstract!Spec

Spinning(c) == pc[c] \in {"test_set", "pause"}

\* Deadlock freedom: a caller can spin for ever only because the lock keeps
\* being taken and given back by others, never because the word stays set
\* after the last release.  (The lock is not fair: one caller may starve.)
StarvesOnlyByOthers ==
    (\E c \in Callers : <>[]Spinning(c)) => /\ []<>(Inside = {})
                                            /\ []<>(Inside # {})
==============================================================================
