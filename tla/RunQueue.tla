------------------------------- MODULE RunQueue -------------------------------
(***************************************************************************)
(* What the scheduler (CScheduler, Hal/Scheduler.h) promises about threads,*)
(* with no list, no lock and no interrupt in sight: a queue of threads     *)
(* ready to run, a count of outstanding sleeps for each of the others, and *)
(* the thread each CPU runs.  A CPU goes from its thread to the next one   *)
(* round the queue that no CPU runs.                                       *)
(***************************************************************************)
EXTENDS Integers, Sequences

CONSTANTS CPUs, Threads, Counts

VARIABLES ready,        \* the threads that may run, in order
          sleeps,       \* sleeps[t]: sleeps of t not yet woken, 0 when ready
          running       \* running[p]: the thread of CPU p

vars == <<ready, sleeps, running>>

\* The queue without t, if t is in it.
Without(s, t) ==
    IF \E k \in DOMAIN s : s[k] = t
    THEN LET i == CHOOSE k \in DOMAIN s : s[k] = t
         IN  [k \in 1 .. Len(s) - 1 |-> s[IF k < i THEN k ELSE k + 1]]
    ELSE s

Known(t) == sleeps[t] > 0 \/ \E k \in DOMAIN ready : ready[k] = t

Start(t) == /\ ~Known(t)
            /\ \/ ready' = Append(ready, t) /\ UNCHANGED sleeps
               \/ sleeps' = [sleeps EXCEPT ![t] = 1] /\ UNCHANGED ready
            /\ UNCHANGED running

Sleep(t, n) == /\ Known(t)
               /\ sleeps' = [sleeps EXCEPT ![t] = @ + n]
               /\ ready' = Without(ready, t)
               /\ UNCHANGED running

Wake(t, n) == /\ sleeps[t] > 0
              /\ \/ /\ n < sleeps[t]
                    /\ sleeps' = [sleeps EXCEPT ![t] = @ - n]
                    /\ UNCHANGED ready
                 \/ /\ n >= sleeps[t]
                    /\ sleeps' = [sleeps EXCEPT ![t] = 0]
                    /\ ready' = <<t>> \o ready
              /\ UNCHANGED running

Kill(t) == /\ Known(t)
           /\ ready' = Without(ready, t)
           /\ sleeps' = [sleeps EXCEPT ![t] = 0]
           /\ UNCHANGED running

\* The thread k places after position i of the queue, going round.
After(i, k) == ready[((i + k - 1) % Len(ready)) + 1]

Free(t) == \A p \in CPUs : running[p] # t

Switch(p) == \E i \in DOMAIN ready, k \in 1 .. Len(ready) - 1 :
                /\ ready[i] = running[p]
                /\ Free(After(i, k))
                /\ \A l \in 1 .. k - 1 : ~Free(After(i, l))
                /\ running' = [running EXCEPT ![p] = After(i, k)]
                /\ UNCHANGED <<ready, sleeps>>

Next == \/ \E t \in Threads : Start(t) \/ Kill(t)
        \/ \E t \in Threads, n \in Counts : Sleep(t, n) \/ Wake(t, n)
        \/ \E p \in CPUs : Switch(p)

Init == \E p \in CPUs, t \in Threads :
            /\ ready = <<t>>
            /\ sleeps = [u \in Threads |-> 0]
            /\ running \in [CPUs -> {t, 0}] /\ running[p] = t

Spec == Init /\ [][Next]_vars
==============================================================================
