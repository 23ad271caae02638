------------------------------ MODULE LockOrder ------------------------------
(***************************************************************************)
(* The spinlocks of the i386 kernel together: m_lock of the scheduler      *)
(* (Schedulerx86.cpp), lalloc_lock of the heap (liballoc.cpp), m_spinlock  *)
(* of the virtual memory manager (vmmngrx86.cpp) and m_bufferLock of the   *)
(* physical one (pmmngrx86.cpp).  The data behind them is in Scheduler,    *)
(* Heap, VirtMemX86 and PhysMemX86; here it is only who takes which lock   *)
(* while holding which, and with interrupts on or off.                     *)
(*                                                                         *)
(* The scheduler's calls turn interrupts off and call new and delete for   *)
(* their list nodes with m_lock held (LinkedList).  The other locks are    *)
(* taken with interrupts on, so that the timer may take the CPU from a     *)
(* thread that holds one.                                                  *)
(***************************************************************************)
EXTENDS Integers, Sequences, SequencesExt

CONSTANTS CPUs,
          Threads   \* at least as many as CPUs

Locks == {"scheduler", "heap", "pages", "frames"}
None  == "none"     \* no lock

VARIABLES exec,     \* exec[p]: the thread on CPU p
          held,     \* held[t]: the locks t holds, the last taken last
          wants,    \* wants[t]: the lock t spins for
          timer     \* timer[p]: the timer handler spins for m_lock on CPU p

vars == <<exec, held, wants, timer>>

Init == /\ exec \in {e \in [CPUs -> Threads] : \A p, q \in CPUs : e[p] = e[q] => p = q}
        /\ held = [t \in Threads |-> <<>>]
        /\ wants = [t \in Threads |-> None]
        /\ timer = [p \in CPUs |-> FALSE]

Free(l) == \A t \in Threads : ~Contains(held[t], l)

\* The locks a thread may take holding l last: the scheduler inserts and
\* removes list nodes; malloc and free get and return pages, and the pages'
\* frames after m_spinlock is released; allocateSinglePage gets frames.
Inner(l) == CASE l = "scheduler" -> {"heap"}
              [] l = "heap"      -> {"pages", "frames"}
              [] l = "pages"     -> {"frames"}
              [] l = "frames"    -> {}
              [] l = None        -> Locks

LastHeld(t) == IF held[t] = <<>> THEN None ELSE Last(held[t])

\* DISABLE_INTERRUPTS comes before acquireSpinlock in the scheduler's calls
\* and ENABLE_INTERRUPTS after releaseSpinlock.
InterruptsOn(p) == /\ ~timer[p]
                   /\ wants[exec[p]] # "scheduler"
                   /\ ~Contains(held[exec[p]], "scheduler")

\* acquireSpinlock is entered ...
Acquire(p, l) ==
    /\ ~timer[p] /\ wants[exec[p]] = None
    /\ l \in Inner(LastHeld(exec[p]))
    /\ wants' = [wants EXCEPT ![exec[p]] = l]
    /\ UNCHANGED <<exec, held, timer>>

\* ... and left with the lock.
Take(p) ==
    LET t == exec[p]
    IN  /\ ~timer[p] /\ wants[t] # None /\ Free(wants[t])
        /\ held' = [held EXCEPT ![t] = Append(@, wants[t])]
        /\ wants' = [wants EXCEPT ![t] = None]
        /\ UNCHANGED <<exec, timer>>

Release(p) ==
    LET t == exec[p]
    IN  /\ ~timer[p] /\ wants[t] = None /\ held[t] # <<>>
        /\ held' = [held EXCEPT ![t] = Front(@)]
        /\ UNCHANGED <<exec, wants, timer>>

\* The quantum has expired: the handler calls schedule, with interrupts off.
Tick(p) == /\ InterruptsOn(p)
           /\ timer' = [timer EXCEPT ![p] = TRUE]
           /\ UNCHANGED <<exec, held, wants>>

\* schedule takes m_lock, finds a thread no CPU executes, or none, and
\* releases m_lock.
Schedule(p) ==
    /\ timer[p] /\ Free("scheduler")
    /\ \E t \in Threads :
          /\ t = exec[p] \/ \A q \in CPUs : exec[q] # t
          /\ exec' = [exec EXCEPT ![p] = t]
    /\ timer' = [timer EXCEPT ![p] = FALSE]
    /\ UNCHANGED <<held, wants>>

Next == \E p \in CPUs :
            \/ \E l \in Locks : Acquire(p, l)
            \/ Take(p) \/ Release(p) \/ Tick(p) \/ Schedule(p)

\* CPUs execute, and the timer keeps coming while interrupts are on.
Spec == Init /\ [][Next]_vars
FairSpec == Spec /\ \A p \in CPUs : /\ WF_vars(Take(p) \/ Release(p) \/ Schedule(p))
                                    /\ SF_vars(Tick(p))
------------------------------------------------------------------------------
\* CPU p spins with interrupts off for a lock that is taken.
Spins(p) == \/ timer[p] /\ ~Free("scheduler")
            \/ /\ ~timer[p] /\ ~InterruptsOn(p)
               /\ wants[exec[p]] # None /\ ~Free(wants[exec[p]])

\* acquireSpinlock always returns in the end: it never happens that all CPUs
\* spin with interrupts off, for then no owner can run and release its lock.
SomeCpuMovesOn == \E p \in CPUs : ~Spins(p)
==============================================================================
