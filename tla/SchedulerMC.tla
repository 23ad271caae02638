------------------------------ MODULE SchedulerMC ------------------------------
(***************************************************************************)
(* The scheduler under callers that only ever take a thread with a         *)
(* neighbour on either side out of a list: all that removeAt can serve.    *)
(* It may be the thread that calls, or one another CPU runs.               *)
(***************************************************************************)
EXTENDS Scheduler

Inside(list, t) == LET s == Contents(mem, lists[list])
                   IN  \E k \in 2 .. Len(s) - 1 : s[k] = t

Asleep(t) == Find("blocked", t) # NULL

\* fresh: the addresses a new THREAD may get.
CarefulCall(p, fresh) ==
    /\ Enter(p)
    /\ \/ \E t \in fresh, s \in BOOLEAN : CreateThread(p, t, s)
       \/ \E t \in Threads, c \in Counts :
             /\ t \in alive => Asleep(t) \/ Inside("running", t)
             /\ SleepThread(p, t, c)
       \/ \E t \in Threads, c \in Counts :
             /\ c >= waitcount[t] /\ Asleep(t) => Inside("blocked", t)
             /\ WakeThread(p, t, c)
       \/ \E t \in Threads :
             /\ t \in alive => /\ Inside("threads", t)
                               /\ Inside("blocked", t) \/ Inside("running", t)
             /\ KillThread(p, t)

\* The theorems are about this specification, which has no bounds.
CarefulNext == \E p \in CPUs : CarefulCall(p, Threads) \/ Schedule(p) \/ Continue(p)

CarefulSpec == Init /\ [][CarefulNext]_vars

\* Bound: the memory of a THREAD is used once, in the order of the addresses.
FirstUse == {t \in Threads : \A u \in Threads : ctx[u] = "none" <=> u >= t}

\* Bound: a deleted node is used again at once, and otherwise the lowest free
\* ones are.  To callers that leave no pointer to a deleted node behind, which
\* free memory new returns makes no difference but to the names of the nodes.
FirstFit == /\ free \subseteq free' \/ free' \subseteq free
            /\ \A i \in free \ free', j \in free \cap free' : i < j
            /\ \A i \in free \ free' : i <= lists'.threads.tail

\* Bound: one thread at a time sleeps to the full count.
OneSleepsDeep == Cardinality({t \in Threads : waitcount'[t] = MaxSleeps}) <= 1

\* TLC checks this one.
BoundedNext == /\ \E p \in CPUs : CarefulCall(p, FirstUse) \/ Schedule(p) \/ Continue(p)
               /\ FirstFit /\ OneSleepsDeep

BoundedSpec == Init /\ [][BoundedNext]_vars /\ Fairness
------------------------------------------------------------------------------
TypeOK ==
    /\ mem \in [Nodes \cup {NULL} ->
                  [data : Threads \cup {Wild}, prev : Nodes \cup {NULL, Wild},
                   next : Nodes \cup {NULL, Wild}]]
    /\ free \subseteq Nodes
    /\ lists \in [{"threads", "running", "blocked"} ->
                    [head : Nodes \cup {NULL}, tail : Nodes \cup {NULL}]]
    /\ alive \subseteq Threads
    /\ waitcount \in [Threads -> 0 .. MaxSleeps]
    /\ exec \in [CPUs -> Threads \cup {None}]
    /\ ctx \in [Threads -> {"none", "start", "saved"}]
    /\ lock \in {0, 1}
    /\ pc \in [CPUs -> {"run", "leave", "leavetwice", "unlockself", "again",
                        "switch", "jump", "resumed", "stuck"}]
    /\ wild \in BOOLEAN

Elements(list) == LET s == Contents(mem, lists[list]) IN {s[k] : k \in DOMAIN s}

\* Pointer by pointer the three lists stay in one piece, every thread is once
\* on the process's list and once on the running or the blocked list, and the
\* memory of the nodes is theirs: no node is shared, lost or already deleted.
ListsExact ==
    /\ \A l \in DOMAIN lists :
          /\ InOnePiece(mem, lists[l])
          /\ Len(Contents(mem, lists[l])) = Cardinality(Elements(l))
    /\ Elements("running") \cap Elements("blocked") = {}
    /\ Elements("running") \cup Elements("blocked") = alive
    /\ Elements("threads") = alive
    /\ \A l, k \in DOMAIN lists :
          l # k => NodesOf(mem, lists[l]) \cap NodesOf(mem, lists[k]) = {}
    /\ UNION {NodesOf(mem, lists[l]) : l \in DOMAIN lists} = Nodes \ free

\* The scheduler behaves as the queue of RunQueue: sleeping takes a thread out
\* of the round, the last wake puts it back in front, and the timer moves a
\* CPU to the next thread of the round.
Queue == INSTANCE RunQueue
            WITH ready   <- Contents(mem, lists.running),
                 sleeps  <- [t \in Threads |-> IF t \in alive THEN waitcount[t] ELSE 0],
                 running <- exec
ImplementsRunQueue == Queue!Spec

\* Round robin: whatever the callers put to sleep, wake, create and kill, a
\* thread that stays on the running list runs again and again, if the running
\* threads stay there, too.  One that sleeps and is woken before the next tick
\* goes to the head and loses its place in the round: when every one does,
\* those behind it do not run.
EveryThreadRuns ==
    \A t \in Threads :
        <>[](\A u \in {t, exec[1]} : Find("running", u) \in Nodes) => []<>(exec[1] = t)

\* A thread that sleeps is on the blocked list, where wakeThread finds it, and
\* a thread that does not is on the running list, where schedule finds it.
ThreadsAreFound ==
    \A t \in alive : ~wild => t \in Elements(IF waitcount[t] = 0 THEN "running" ELSE "blocked")

\* schedule() finds the current thread of the CPU it runs on: no CPU ever
\* follows a pointer that leads nowhere, nor searches for ever with the lock.
EveryTickIsServed == ~wild /\ \A p \in CPUs : pc[p] # "stuck"

\* What schedule() cannot serve is exactly this: a CPU whose thread is not on the
\* running list, because it put itself to sleep, killed itself (thread_exit), was
\* taken off by another CPU, or is none yet.  There the search follows a pointer
\* that leads nowhere; every other tick ends at a thread, however the lists were
\* changed before.
TicksFailExactlyOffTheList == [][
    \A p \in CPUs : Schedule(p) =>
        pc'[p] # "stuck" /\ (wild' <=> Find("running", exec[p]) = NULL)
    ]_vars
==============================================================================
