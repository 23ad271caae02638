------------------------------ MODULE CpuStartup ------------------------------
(***************************************************************************)
(* How CAPIC::initialise (Hal/arch/i386-x64/APIC.cpp) starts the other     *)
(* processors one by one, and what each of them does meanwhile             *)
(* (SMP_StartupRoutine, SMPasm32.asm), from the loop that waits for its    *)
(* command on.  The start-up IPIs have set all of them running.            *)
(*                                                                         *)
(* They talk through two words, kernel_sync and kernel_sync_ptr.  The      *)
(* second points at a local variable of sync_cpu.  All calls of sync_cpu   *)
(* come from the same place, so that variable has the same address every   *)
(* time; between the calls its memory belongs to whatever else is called.  *)
(***************************************************************************)
EXTENDS Integers, Sequences

CONSTANTS CpuList,      \* the other processors, in the order of m_cpu_list:
                        \* distinct positive numbers
          NoMemory      \* processors whose stack cannot be allocated

Cpus == {CpuList[n] : n \in DOMAIN CpuList}

Idle    == 0        \* kernel_sync = 0
Recv    == -1       \* kernel_sync with recv set; a command is the CPU's number
Garbage == 0        \* no stack: what other calls left in the variable

VARIABLES
    kernel_sync,
    kernel_sync_ptr,    \* is it set
    stack,              \* data.stack, the memory kernel_sync_ptr points at: the
                        \* CPU it was allocated for
    todo,               \* the rest of m_cpu_list
    pc,                 \* where the boot CPU is
    at,                 \* where the others are
    esp                 \* the stacks they run on

vars == <<kernel_sync, kernel_sync_ptr, stack, todo, pc, at, esp>>
others == <<at, esp>>

\* prepare_multiprocessor.
Init == /\ kernel_sync = Idle /\ kernel_sync_ptr = FALSE
        /\ stack = Garbage
        /\ todo = CpuList
        /\ pc = "send"
        /\ at = [c \in Cpus |-> "syncloop"]
        /\ esp = [c \in Cpus |-> Garbage]

\* Calls between two calls of sync_cpu may write to the memory of its frame.
Reused == stack' \in {stack, Garbage}

\* sync_cpu: command the next CPU ...
Send == /\ pc = "send" /\ todo # <<>>
        /\ kernel_sync' = Head(todo)
        /\ pc' = "wait"
        /\ Reused
        /\ UNCHANGED <<kernel_sync_ptr, todo, others>>

\* ... wait for the answer ...
SeeAnswer == /\ pc = "wait" /\ kernel_sync = Recv
             /\ kernel_sync' = Idle
             /\ pc' = "allocate"
             /\ UNCHANGED <<kernel_sync_ptr, stack, todo, others>>

\* ... fill in the data ...
Allocate == /\ pc = "allocate"
            /\ stack' = IF Head(todo) \in NoMemory THEN stack ELSE Head(todo)
            /\ pc' = "publish"
            /\ UNCHANGED <<kernel_sync, kernel_sync_ptr, todo, others>>

\* ... publish its address and return.
Publish == /\ pc = "publish"
           /\ kernel_sync_ptr' = TRUE
           /\ todo' = Tail(todo)
           /\ pc' = "send"
           /\ UNCHANGED <<kernel_sync, stack, others>>

\* The start of the processors is over: initialise returns.
Return == /\ pc = "send" /\ todo = <<>>
          /\ pc' = "returned"
          /\ Reused
          /\ UNCHANGED <<kernel_sync, kernel_sync_ptr, todo, others>>
------------------------------------------------------------------------------
Goto(c, label) == at' = [at EXCEPT ![c] = label]

boot == <<stack, todo, pc>>

\* .syncloop: the command is for this CPU.
SeeCommand(c) == /\ at[c] = "syncloop" /\ kernel_sync = c
                 /\ Goto(c, "answer")
                 /\ UNCHANGED <<kernel_sync, kernel_sync_ptr, boot, esp>>

Answer(c) == /\ at[c] = "answer"
             /\ kernel_sync' = Recv
             /\ Goto(c, "dataloop")
             /\ UNCHANGED <<kernel_sync_ptr, boot, esp>>

\* .dataloop: the pointer is set ...
SeePointer(c) == /\ at[c] = "dataloop" /\ kernel_sync_ptr
                 /\ Goto(c, "load")
                 /\ UNCHANGED <<kernel_sync, kernel_sync_ptr, boot, esp>>

\* ... load the stack through it ...
LoadStack(c) == /\ at[c] = "load"
                /\ esp' = [esp EXCEPT ![c] = stack]
                /\ Goto(c, "clear")
                /\ UNCHANGED <<kernel_sync, kernel_sync_ptr, boot>>

\* ... and clear it, whatever it is by now.
ClearPointer(c) == /\ at[c] = "clear"
                   /\ kernel_sync_ptr' = FALSE
                   /\ Goto(c, "SMP_CPU_entry")
                   /\ UNCHANGED <<kernel_sync, boot, esp>>

BootStep == Send \/ SeeAnswer \/ Allocate \/ Publish \/ Return
CpuStep(c) == SeeCommand(c) \/ Answer(c) \/ SeePointer(c) \/ LoadStack(c) \/ ClearPointer(c)

Next == BootStep \/ \E c \in Cpus : CpuStep(c)

Spec == Init /\ [][Next]_vars

\* Every CPU executes.
FairSpec == Spec /\ WF_vars(BootStep) /\ \A c \in Cpus : WF_vars(CpuStep(c))
------------------------------------------------------------------------------
\* The CPUs are synchronised with one by one, each with data of its own: two
\* of them never run on the same stack, however slow the first one is to take
\* its data.
StacksAreTheirOwn ==
    \A c, d \in Cpus : esp[c] = esp[d] /\ esp[c] # Garbage => c = d
==============================================================================
