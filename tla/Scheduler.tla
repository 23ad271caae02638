------------------------------- MODULE Scheduler -------------------------------
(***************************************************************************)
(* The i386 scheduler, CX86Scheduler (Hal/arch/i386-x64/Schedulerx86.cpp), *)
(* with its lists down to the pointers (LinkedList), after initialise has  *)
(* made the kernel thread the thread of the boot CPU.                      *)
(*                                                                         *)
(* Each CPU runs a thread with interrupts enabled; the thread calls the    *)
(* scheduler or the timer interrupts it.  Every operation disables         *)
(* interrupts and takes m_lock, and what it does until it releases the     *)
(* lock is one step here: Spinlock shows that nobody else is inside.       *)
(* There is one process, the kernel's, for createThread never gets past    *)
(* the first entry of the process list.                                    *)
(*                                                                         *)
(* wild: the code has followed a pointer that leads nowhere (through NULL, *)
(* into a deleted thread, twice into delete).  What happens then is not    *)
(* the program's doing any more and the model stops.                       *)
(***************************************************************************)
EXTENDS LinkedList

CONSTANTS CPUs,         \* CPU numbers; the boot CPU is 1
          Threads,      \* addresses of THREAD structures, 1 is the kernel's
          Counts,       \* counts callers sleep and wake with
          MaxSleeps     \* bound on waitcount

None    == 0            \* a NULL PTHREAD
Endless == -2           \* a search that never stops

ASSUME ThreadsOK == 1 \in CPUs /\ 1 \in Threads /\ Threads \subseteq Nat \ {None}
ASSUME BootOK    == {1, 2} \subseteq Nodes
ASSUME CountsOK  == Counts \subseteq Nat \ {0} /\ MaxSleeps \in Nat \ {0}

VARIABLES
    mem, free,  \* the memory of the list nodes, and what new may return of it
    lists,      \* m_runningList, m_blockedList and the process's threadlist
    alive,      \* the threads created and not deleted
    waitcount,  \* waitcount[t]
    exec,       \* m_execProcess: the thread CPU p executes
    ctx,        \* ctx[t]: where longjmp takes t: the "start" of a new thread, or
                \* inside schedule ("saved"); "none" before t was created
    lock,       \* m_lock
    pc,         \* where CPU p is
    wild

kept == <<mem, free, lists, alive, waitcount>>
vars == <<mem, free, lists, alive, waitcount, exec, ctx, lock, pc, wild>>

Init ==
    /\ mem = [i \in Nodes \cup {NULL} |->
                IF i \in {1, 2} THEN Node(1, NULL, NULL) ELSE LowMemory]
    /\ free = Nodes \ {1, 2}
    /\ lists = [threads |-> [head |-> 1, tail |-> 1],
                running |-> [head |-> 2, tail |-> 2],
                blocked |-> Empty]
    /\ alive = {1}
    /\ waitcount = [t \in Threads |-> 0]
    /\ exec = [p \in CPUs |-> IF p = 1 THEN 1 ELSE None]
    /\ ctx = [t \in Threads |-> IF t = 1 THEN "start" ELSE "none"]
    /\ lock = 0
    /\ pc = [p \in CPUs |-> "run"]
    /\ wild = FALSE
------------------------------------------------------------------------------
Goto(p, label) == pc' = [pc EXCEPT ![p] = label]

GoWild == wild' = TRUE /\ UNCHANGED <<kept, exec, ctx, lock, pc>>

\* The current thread of p calls the scheduler: interrupts off, lock taken.
Enter(p) == /\ ~wild
            /\ pc[p] = "run" /\ exec[p] # None
            /\ lock = 0

\* A call that is done with the lists and still holds the lock.
Done(p) == lock' = 1 /\ Goto(p, "leave") /\ UNCHANGED <<exec, wild>>

Find(list, t) == FindValue(mem, lists[list], t)

\* removeAt deletes the node: only a node in use can be deleted.
Removable(i) == i \in Nodes \ free

CreateThread(p, t, suspended) ==
    LET list == IF suspended THEN "blocked" ELSE "running"
    IN  /\ Enter(p) /\ t \notin alive
        /\ \E i, j \in free :
              LET a == InsertToTail(mem, lists[list], i, t)
                  b == InsertToTail(a.mem, lists.threads, j, t)
              IN  /\ i # j
                  /\ mem' = b.mem
                  /\ lists' = [lists EXCEPT ![list] = a.list, !.threads = b.list]
                  /\ free' = free \ {i, j}
        /\ alive' = alive \cup {t}
        /\ waitcount' = [waitcount EXCEPT ![t] = IF suspended THEN 1 ELSE 0]
        /\ ctx' = [ctx EXCEPT ![t] = "start"]
        /\ Done(p)

\* In \E r \in {e}, r is what findValue returned.
SleepThread(p, t, c) ==
    /\ Enter(p) /\ waitcount[t] + c <= MaxSleeps
    /\ \E r \in {Find("running", t)}, b \in {Find("blocked", t)} :
          \/ /\ Removable(r)
             /\ \E i \in free \cup {r} :
                   LET a == InsertToTail(RemoveAt(mem, r), lists.blocked, i, t)
                   IN  /\ mem' = a.mem
                       /\ lists' = [lists EXCEPT !.blocked = a.list]
                       /\ free' = (free \cup {r}) \ {i}
             /\ waitcount' = [waitcount EXCEPT ![t] = @ + c]
             /\ UNCHANGED <<alive, ctx>>
             /\ Done(p)
          \/ /\ r = NULL /\ b # Wild
             /\ waitcount' = IF b = NULL THEN waitcount
                             ELSE [waitcount EXCEPT ![t] = @ + c]
             /\ UNCHANGED <<mem, free, lists, alive, ctx>>
             /\ Done(p)
          \/ /\ (r # NULL /\ ~Removable(r)) \/ (r = NULL /\ b = Wild)
             /\ GoWild

\* Mutant of Lowered: the size_t goes below zero.
LoweredBlindly(t, c) == waitcount[t] - c

Lowered(t, c) == IF c > waitcount[t] THEN 0 ELSE waitcount[t] - c

WakeThread(p, t, c) ==
    /\ Enter(p)
    /\ \E b \in {Find("blocked", t)}, left \in {Lowered(t, c)} :
          \/ /\ b = NULL
             /\ UNCHANGED <<kept, ctx>>
             /\ Done(p)
          \/ /\ b \in Nodes /\ left # 0
             /\ waitcount' = [waitcount EXCEPT ![t] = left]
             /\ UNCHANGED <<mem, free, lists, alive, ctx>>
             /\ Done(p)
          \/ /\ Removable(b) /\ left = 0
             /\ \E i \in free \cup {b} :
                   LET a == InsertToHead(RemoveAt(mem, b), lists.running, i, t)
                   IN  /\ mem' = a.mem
                       /\ lists' = [lists EXCEPT !.running = a.list]
                       /\ free' = (free \cup {b}) \ {i}
             /\ waitcount' = [waitcount EXCEPT ![t] = 0]
             /\ UNCHANGED <<alive, ctx>>
             /\ Done(p)
          \/ /\ b = Wild \/ (b \in free /\ left = 0)
             /\ GoWild

\* A thread that kills itself, as thread_exit does when its function returns,
\* goes on in schedule.
KillThread(p, t) ==
    /\ Enter(p)
    /\ \E r \in {Find("running", t)}, b \in {Find("blocked", t)}, j \in {Find("threads", t)} :
       \E i \in {IF r = NULL THEN b ELSE r} :
          \/ /\ i = NULL
             /\ UNCHANGED <<kept, ctx>>
             /\ Done(p)
          \/ /\ Removable(i) /\ Removable(j) /\ t \in alive
             /\ mem' = RemoveAt(RemoveAt(mem, i), j)
             /\ free' = free \cup {i, j}
             /\ alive' = alive \ {t}
             /\ lock' = 1
             /\ Goto(p, IF exec[p] = t THEN "unlockself" ELSE "leave")
             /\ UNCHANGED <<lists, waitcount, exec, ctx, wild>>
          \/ /\ i # NULL /\ ~(Removable(i) /\ Removable(j) /\ t \in alive)
             /\ GoWild

\* releaseSpinlock and ENABLE_INTERRUPTS at the end of a call.  A call of
\* killThread that schedule came back to releases once more.
Leave(p) ==
    /\ ~wild
    /\ \/ pc[p] = "leave" /\ Goto(p, "run")
       \/ pc[p] = "leavetwice" /\ Goto(p, "leave")
       \/ pc[p] = "unlockself" /\ Goto(p, "again")
    /\ lock' = 0
    /\ UNCHANGED <<kept, exec, ctx, wild>>
------------------------------------------------------------------------------
Running(t) == \E q \in CPUs : exec[q] = t

\* Mutant of RoundFrom: back to the head at every step.
RoundFromHead(a) == lists.running.head

\* Mutant of RoundFrom: the end of the list is not noticed.
RoundFromOverTheEnd(a) == IF a = Wild THEN Wild ELSE mem[a].next

\* One step of the search: getNext, and round to the head at the end.  A load
\* through NULL reads low memory.
RoundFrom(a) == LET x == IF a = Wild THEN Wild ELSE mem[a].next
                IN  IF x = NULL THEN lists.running.head ELSE x

\* getValue.
ThreadAt(a) == IF a = Wild THEN Wild ELSE mem[a].data

\* The while loop of schedule on CPU p, from node i: where it stops, at a
\* thread no CPU executes or at the current thread of p; Endless if it never does.
Search(p, i) ==
    LET Stops(a) == ThreadAt(a) = exec[p] \/ ~Running(ThreadAt(a))
        Onward[a \in Int] == IF Stops(a) THEN a ELSE RoundFrom(a)
        at[k \in Nat] == IF k = 0 THEN RoundFrom(i) ELSE Onward[at[k - 1]]
        last == at[2 * Cardinality(Nodes)]
    IN  IF Stops(last) THEN last ELSE Endless

\* schedule(), from the timer interrupt or from killThread, up to the release
\* of the lock.
Schedule(p) ==
    /\ ~wild /\ pc[p] \in {"run", "again"} /\ lock = 0
    /\ \E a \in {Search(p, Find("running", exec[p]))} :
          \/ /\ a # Endless /\ ThreadAt(a) = exec[p]        \* nobody else to run
             /\ lock' = 1
             /\ Goto(p, IF pc[p] = "again" THEN "leavetwice" ELSE "leave")
             /\ UNCHANGED <<kept, exec, ctx, wild>>
          \/ /\ a # Endless /\ ThreadAt(a) \in Threads \ {exec[p]} /\ exec[p] # None
             /\ exec' = [exec EXCEPT ![p] = ThreadAt(a)]
             /\ ctx' = [ctx EXCEPT ![exec[p]] = "saved"]
             /\ lock' = 1
             /\ Goto(p, "switch")
             /\ UNCHANGED <<kept, wild>>
          \/ /\ a # Endless /\ ThreadAt(a) # exec[p]
             /\ ThreadAt(a) \in Threads => exec[p] = None
             /\ GoWild
          \/ /\ a = Endless                 \* round and round with the lock
             /\ lock' = 1
             /\ Goto(p, "stuck")
             /\ UNCHANGED <<kept, exec, ctx, wild>>

\* m_lock.releaseSpinlock() before longjmp, and after it in a thread that
\* resumes inside schedule.
SwitchUnlock(p) ==
    /\ ~wild
    /\ \/ pc[p] = "switch" /\ Goto(p, "jump")
       \/ pc[p] = "resumed" /\ Goto(p, "run")
    /\ lock' = 0
    /\ UNCHANGED <<kept, exec, ctx, wild>>

\* longjmp(thread->context, 1): a thread that was deleted has no context.
Jump(p) ==
    /\ ~wild /\ pc[p] = "jump"
    /\ \/ exec[p] \notin alive /\ GoWild
       \/ /\ exec[p] \in alive
          /\ Goto(p, IF ctx[exec[p]] = "saved" THEN "resumed" ELSE "run")
          /\ UNCHANGED <<kept, exec, ctx, lock, wild>>

Call(p) == \/ \E t \in Threads, s \in BOOLEAN : CreateThread(p, t, s)
           \/ \E t \in Threads, c \in Counts : SleepThread(p, t, c) \/ WakeThread(p, t, c)
           \/ \E t \in Threads : KillThread(p, t)

Continue(p) == Leave(p) \/ SwitchUnlock(p) \/ Jump(p)

Next == \E p \in CPUs : Call(p) \/ Schedule(p) \/ Continue(p)

Spec == Init /\ [][Next]_vars

\* A CPU runs on while it is inside, and a timer interrupt that is pending
\* while interrupts are off is delivered when they are on again.
Fairness == \A p \in CPUs : WF_vars(Continue(p)) /\ SF_vars(Schedule(p))
==============================================================================
