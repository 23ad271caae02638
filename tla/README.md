# ChaiOS in TLA+

ChaiOS is a hobby kernel for i386 and x86-64. Its core is small and entirely
made of shared state: a spinlock, a bitmap of page frames, page tables, a heap,
a linked list, a scheduler, and the interrupt hardware that drives them. This
directory holds TLA+ models of that core, TLC configurations that check them on
small instances, and TLAPS proofs for every value of the constants.

Paths below are relative to the repository's root (`src/`).

## Inventory

| Component | State | Operations | Hard behaviour | What makes it correct |
|---|---|---|---|---|
| Spinlock (`ChaiOS/arch/*/spinlock*.cpp`) | one word | acquire, release | interleaving of the plain read with the locked instruction; unfair | exclusion; the word is set exactly while somebody is inside; nobody spins on a lock that stays free |
| Physical memory manager, i386 (`pmmngrx86.cpp`) | bitmap of frames, `m_bufferLock` | allocate, allocateSinglePage, free, freeSinglePage, getUsed, mmapTransfer | scan and choice of a bit without the lock; byte-wide read-modify-write; retries; region half gathered | no frame in two hands; bitmap exact; NULL only when full; calls return |
| Physical memory manager, x64 (`pmmngrx64.cpp`) | the same | the same | three search zones; a second unlocked write | the same |
| Linked list (`kcstdlib/list.h`) | nodes, head, tail | insert at either end, removeAt, findValue, getNext | untested pointers; iterators that outlive their node | the list stays in one piece and holds what was put in |
| Scheduler (`Schedulerx86.cpp`) | process, running and blocked lists, a thread list per process, the thread of each CPU, saved contexts, `m_lock` | createThread, sleepThread, wakeThread, killThread, schedule, createProcess, setPriority | timer interrupts; threads that stop themselves; context switch after the unlock; several CPUs | every thread on exactly one list; round robin; nobody starves; every tick finds its thread |
| Virtual memory manager (`vmmngrx86.cpp`, `vmmngrx64.cpp`) | page directory and tables, `m_spinlock`, a mark "has free pages" per directory entry | allocate, mapPhysicalAddress, allocateAt, mapPhysicalAddressAt, free, address spaces | regions gathered page by page with the lock released in between; recursion while pages are held; partial failure; uncleared tables | a page in one hand, mapped to what was asked; every frame in one place; errors only when true; calls return |
| Heap (`liballoc.cpp`) | blocks of pages cut by boundary tags, free lists by size class, counts of whole free blocks | malloc, free, realloc, calloc | split, melt and absorb mend up to three tags each; realloc lets go of the lock | tags tile the memory; free lists exact; free neighbours melted; regions disjoint |
| Local APIC, IOAPIC, CPU startup, timer (`APIC.cpp`, `SMPasm32.asm`) | sync words, quantum counters, redirection entries | sync_cpu, timer handler, setNewQuantum, register_irq | two words shared by all starting CPUs; a local's address published; index/window registers | each CPU gets its own stack; a quantum is counted down once per tick |
| Interrupt manager (`InterruptManager.cpp`) | a chain of handlers per vector | addVect, releaseVect, dispatch | removal of the first handler | the chain is the handlers registered |
| All the spinlocks and the interrupt flag | who holds what | acquire, release, timer | locks taken inside locks; preemption of an owner | one order of locks; no CPU waits for ever |
| Memory manager registry (`memory.cpp`) | two pointers | setPMemMngr, setVMemMngr | replaced while in use at boot | the new manager knows all the old one gave out |

The remaining parts (boot and module loader, descriptor tables, PCI, graphics,
terminal, fonts, text direction, C runtime, semaphore) keep no state that
another component's correctness depends on; PROJECT.json lists each with the
reason it is left out.

How they meet: the physical managers, the scheduler and the virtual memory
manager each own a `CSpinlock`; the scheduler's lists allocate their nodes from
the heap; the heap gets its pages from the virtual memory manager and that from
the physical one; the APIC timer handler calls `schedule()`; `killThread` of the
current thread calls it too; a thread's function returns into `thread_exit`,
which kills the thread.

## Modules

| Module | Stands for | Kind |
|---|---|---|
| `Mutex` | what `CSpinlock` promises | abstract |
| `Spinlock` | `CSpinlock`, instruction by instruction | detailed, implements `Mutex` |
| `SpinlockProofs` | proofs about `Spinlock` | TLAPS |
| `FrameAllocator` | what `CPMemMngr` promises about frames | abstract |
| `PhysMemX86` | `CX86DefaultPMemMngr` | detailed, implements `FrameAllocator` |
| `PhysMemX86MC` | the same with a history variable for TLC | model checking |
| `PhysMemX86Proofs` | proofs about `PhysMemX86` and its searches | TLAPS |
| `PhysMemX64` | `CX64DefaultPMemMngr` | detailed |
| `LinkedList` | `LinkedList<T>`, as operators on memory | data structure |
| `RunQueue` | what `CScheduler` promises about threads | abstract |
| `Scheduler` | `CX86Scheduler` over three `LinkedList`s | detailed, implements `RunQueue` under careful callers |
| `SchedulerMC` | careful callers, bounds and properties of `Scheduler` | model checking |
| `SchedulerProofs` | proofs about `LinkedList` and `Scheduler` | TLAPS |
| `Regions` | what `malloc` and `free` promise | abstract |
| `Heap` | `liballoc.cpp` | detailed, implements `Regions` |
| `HeapPieceProofs`, `HeapProofs` | proofs about the helpers of `Heap`, and about the heap | TLAPS |
| `VirtMemX86` | `CX86DefaultVMemMngr` over the frames of the physical manager | detailed, implements `FrameAllocator` for pages |
| `VirtMemX86MC` | what its callers ask for | model checking |
| `VirtMemX86Proofs`, `VirtMemX86FrameProofs` | proofs about `VirtMemX86`, and about the frames behind it | TLAPS |
| `LockOrder` | the four spinlocks, threads, CPUs and the timer together | composition |
| `LockOrderProofs` | proofs about `LockOrder` | TLAPS |
| `CpuStartup` | `sync_cpu` and `SMP_StartupRoutine` | detailed |
| `CpuStartupMC` | two processors to start | model checking |

Each layer uses the one below through its promise: `Heap` takes pages from a
virtual memory manager that gives any pages that follow one another, or none;
`VirtMemX86` takes frames from a physical one that gives a free frame while there is
one (`NoDoubleAllocation`, `FailsOnlyWhenFull`); it gives the lowest in the model, as a
scan does, and no property depends on which. All of them take their
locks for granted (`Spinlock`), and `LockOrder` puts the locks together.

### Spinlock

`m_lock` is the word, `pc[c]` the place of caller `c`. `Acquire` enters
`acquireSpinlock`, `BitTestSet` is `LOCKED_BIT_TEST_SET`, `Pause` the inner
`do PAUSE() while`, `Release` the store of 0. A caller is a CPU or a preempted
thread: both interleave the same way. `Release` is an action of the caller
inside only, so `WordMatchesOwner` does not speak of callers that release what they
do not hold. Who releases is for the modules of the callers, where release is an
unconditional store: `UnlockAgain` of `PhysMemX64` is such a second release, and with
the second write of the same function made harmless it alone still breaks
`NoDoubleAllocation`.

The other detailed modules use the result: they keep the lock word as a guard
(`lock = 0`) instead of spinning.

### PhysMemX86

An address is a frame number and frame 0 is NULL. `used` is the bitmap as the
set of frames whose bit is 1. The other variables are the locals of a call:

| Code | Model |
|---|---|
| `allocate(len, max)`, its loop and `loopBegin` | `Allocate`, `Extend`, `StartAgain`, `GiveUp`; `want`, `max`, the run `base .. base+cnt-1`, `prog` = `allocateProg` |
| head of `allocateSinglePage` | `BeginScan`; `start`, `memSz`, `n` |
| the word loop at `loopStart` | `ScanWord`, one unlocked read of a word |
| `entry = buffer[n]` and the bit loop | `PickBit`, a second unlocked read |
| `acquireSpinlock` | `AcquireLock` |
| `setUsedUnlocked` / `setUsed` | `LoadByte`, then `StoreSet` or `StoreClear`: load and store of the byte are two steps |
| `releaseSpinlock`, `goto loopStart` | `UnlockClaim`, `UnlockFree` |
| `free(addr, len)` | `Free`, then one lock/load/store/unlock round per frame |

`owned[c]` is not in the code: it is what callers have been given, and a caller
frees only that. `InHand(c)` is what a call in progress holds: claimed and not
yet returned, or given back and not yet clear. `Held` is both.

The boot map transfer runs before anybody else and is `Init`. `ReservedOK` and
`SizesOK` are what it leaves behind: frame 0 is used, and so is what the last
word of the bitmap has beyond the end of memory.

### PhysMemX64

The same reading of the x64 file, for `allocateSinglePage()` without a limit and
`freeSinglePage`. `Mask` and `Candidates` give the effect of shifting a 32-bit
1 through a 64-bit word: bit 31 is sign-extended over the upper half, larger
shifts wrap. `NextPass` is the three zones (from 4GB, from 16MB, from 0).
`LoadByte` and `StoreByte` run twice in a call, the second time with no lock
(`loadAgain`, `storeAgain`), and `UnlockAgain` is the second release.

### LinkedList

A list is `[head, tail]`, memory a function from addresses to nodes, and every
operation gives the memory after it. Address 0 is memory too, because on i386
the first page stays mapped and writable (`basicpagingx86.cpp`): a store through
NULL is lost there and a load through NULL finds something that is no node
(`Wild`). `removeAt` writes through `prev` and `next` without a test and leaves
`head` and `tail` alone; that is `RemoveAt`. A deleted node keeps its contents
until `new` returns it again.

### Scheduler

| Code | Model |
|---|---|
| `m_runningList`, `m_blockedList`, `threadlist` of the process | `lists`, over `mem` and `free` |
| `m_execProcess` | `exec` |
| `THREAD::waitcount` | `waitcount` |
| `THREAD::context`, `setjmp`, `longjmp`, `scheduler_start_thread` | `ctx` and `Jump` |
| `m_lock`, interrupts off | `lock`, the labels of `pc` other than `run` |
| each operation up to its `releaseSpinlock` | one action: `CreateThread`, `SleepThread`, `WakeThread`, `KillThread`, `Schedule` |
| what follows the release | `Leave`, `SwitchUnlock`, `Jump` |

An operation is one step up to the release because it holds `m_lock` with
interrupts off all along: `Spinlock` shows that no other operation is inside.
The steps after the release are separate: another CPU may come in there.

There is one process. `createThread` can reach no other: the loop that looks for
the process has a `break` that no `if` governs (`Schedulerx86.cpp:323-324`) and
ends after the first entry.

`wild` becomes TRUE when the code follows a pointer that leads nowhere: through
NULL into the interrupt vectors, into a deleted thread, or through `delete`
twice. The model stops there. `pc = "stuck"` is a search that goes round for ever with
the lock held. `TicksFailExactlyOffTheList` says when this happens to a timer tick, or
to the `schedule()` at the end of a `killThread`: never `stuck`, and `wild` exactly when
the CPU's thread is not on the running list. A thread that puts itself to sleep or
kills itself (`thread_exit`) is off the list at the next tick, so these calls, which
callers make, lead there. The second release of a thread that killed itself
(`leavetwice`) takes another CPU that creates a thread at its address in between.

### Heap

`tags` are the `boundary_tag`s that exist, by address; a size or address counts a
unit of which a tag fills `Hdr`. The operators `insert_tag`, `remove_tag`,
`melt_left`, `absorb_right`, `split_tag` and `allocate_new_tag` are the functions of
that name; `Found`, `Reuse` and `Cut` are the three parts of `malloc`, `MeltLeft` and
`MeltRight` the two loops of `free`. A loop is a bounded iteration (`Repeat`): each
round of it uses up a tag.

`malloc` and `free` run under `lalloc_lock` from end to end and are a step each.
`realloc` is three: it reads the size under the lock (`Realloc`), calls `malloc`
(`ReallocMalloc`), copies and frees (`ReallocFree`). Pointers are those `malloc`
gave, and a caller that has handed one to `realloc` does not free it as well.
`split_tag` leaves the size of the new tag unset; nothing reads it before `malloc`
sets it, and it is 0 in the model.

### VirtMemX86

A page is a number: directory index times `PtEntries` plus table index.

| Code | Model |
|---|---|
| a directory entry: frame, `PAGING_CHAIOS_FREEPAGES`, `PAGING_USER` | `table`, `freepages`, `user` |
| a table entry | `pte` |
| the physical manager | `free`, the frames it has |
| `returnAddr`, `n`, `allocateProg`, `len`, `attr` | `call[c]` |
| `allocateSinglePage` | `AllocateSinglePage`: `PageInTable`, `PageInNewTable`, or `NoPage` |
| `mapSinglePhysicalPage` | the same, then `SwapFrame` and `DropFrame` |
| `allocateSingleAt`, `mapSinglePhysicalAddressAt` | `At` |
| `freeSinglePage` | `FreeSinglePage`, then `GiveFrame` after the lock is released |
| the loops of `allocate`, `mapPhysicalAddress`, and their calls of themselves | `Place`, `Fail`, `Finish` |

A recursive call starts over with the same arguments, and all the outer one does
afterwards is to free the pages it holds and return what the inner one returned.
So the stack of calls is the sequence `todo` of pages to free on the way out,
innermost first.

`freeSinglePage` reads the frame it gives back at the directory index instead of
the table index. The model does so too: frames come back right only from pages
whose two indices are equal. `FreePhys` names the pages callers free along with
their frames; the run `virtmem` frees such a page, `virtmem_fail` shows the others.

A new table made by `At` is not cleared; what its frame held before shows as
present entries (`Stale`), marked `Old`: mapped, and nobody's. `MappedAsAsked` says
that they stay in such tables and at pages that nobody has, not that there are none;
a request for one of those pages is refused, as in the code. An entry that is not
present still has frame bits, which `freeSinglePage` reads without looking at the
present bit (`Reads`). `made` remembers which tables `allocateSinglePage` made,
for a property only. A region mapped for user pages is searched for from the
first directory entry, and an entry that is not present has no `PAGING_USER` and is
passed over (`Stops`): user pages are refused unless somebody mapped a page of the
same table at a given address.

### LockOrder

`held[t]` is the stack of locks of a thread, `wants[t]` the lock it spins for,
`exec` who runs where, `timer[p]` a handler that spins for `m_lock`. `Inner(l)` are
the locks taken with `l` held: the scheduler's calls allocate list nodes, the heap
gets and returns pages, the virtual manager gets frames. Interrupts are off from
before the scheduler's lock is asked for until after its release, and in the
handler; nowhere else.

### CpuStartup

One action per access to `kernel_sync` or `kernel_sync_ptr`, on the boot CPU
(`sync_cpu`) and on the others (`.syncloop`, `.dataloop`). `kernel_sync_ptr` points at
a local variable of `sync_cpu`, which has the same address in every call: it is the
one variable `stack`, and between calls its memory may be overwritten (`Reused`).

## Runs

| Run | Instance | Shows |
|---|---|---|
| `spinlock` | 4 callers, no bound | `MutualExclusion`, `WordMatchesOwner`, `Spinlock` implements `Mutex`, a caller spins for ever only while others come and go |
| `frames_x86` | 2 callers, words of 4 and bytes of 2 frames, 2 words, 7 frames of memory, 3 free, pages and regions of 2, limits none and 3 | `NoDoubleAllocation`, `BitmapExact`, `ResultInRange`, `FailsOnlyWhenFull`, `CallsReturnAlone`, `SomebodyComesOut`, `PhysMemX86` implements `FrameAllocator` |
| `frames_x64_race` | 2 callers, 2 free frames in one byte | **violated**: `NoDoubleAllocation` |
| `frames_x64_half` | 1 caller, 2 words of 4 frames | **violated**: `NullMeansFull` |
| `scheduler` | 1 CPU, 5 threads, 10 nodes, counts 1 and 2 | `ListsExact`, `TicksFailExactlyOffTheList`, `Scheduler` implements `RunQueue`, `EveryThreadRuns` |
| `scheduler_smp` | 2 CPUs, the kernel thread only | **violated**: `EveryTickIsServed` |
| `scheduler_lists` | 1 CPU, 3 threads, any caller | **violated**: `ThreadsAreFound` |
| `heap` | 5 pages of 8 units, blocks of 2 pages and more, 3 regions of sizes 1, 2, 9 and 20, a realloc | `Tiled`, `FreeListsExact`, `Coalesced`, `CompletePagesExact`, `ReallocInside`, `Heap` implements `Regions` |
| `virtmem` | 2 callers, 2 directory entries of 5 pages, 4 pages of the boot code, 3 frames, regions of 2 | `MappedAsAsked`, `FramesExact`, `OutOfVMemOnlyWhenFull`, `CallsReturn`, pages are handed out as `FrameAllocator` says |
| `virtmem_fail` | 1 caller, frames for one page of two | **violated**: `FramesExact` |
| `lock_order` | 1 CPU, 2 threads | **violated**: `SomeCpuMovesOn` |
| `cpu_startup` | 2 processors to start | **violated**: `StacksAreTheirOwn` |

Each passing run also checks the type invariant of its module where it has one.

### Bounds, and why they are enough

* `Callers`. Two callers already give every conflict of the frame managers:
  each conflict is over one word or one byte, between one who chose and one who
  stored. The proofs cover any number. No run is reduced by symmetry, because
  `frames_x86` checks liveness too.
* `FramesPerWord`, `FramesPerByte`, `Words`. 4, 2 and 2 instead of 32, 8 and
  thousands: a word has two bytes and there is a word on either side of the
  ideal start, so both passes, neighbours in a byte and a last word that memory
  does not fill all occur. Memory is nearly full on purpose: races happen over
  the last frames.
* `Limits`. At or below the ideal start, as for the DMA memory a limit is for.
  The code is wrong between the ideal start and twice that (hazard at
  `pmmngrx86.cpp:331`); no caller passes any limit at this commit.
* `Threads`, `Nodes`. Five threads: two interior ones between neighbours on
  each list while the kernel thread and one more hold the ends. Each thread
  needs two nodes, so `Nodes` never runs out; a `malloc` that fails is not
  modelled.
* `FirstUse` (`BoundedSpec` of `SchedulerMC`). The memory of a THREAD is used
  once, so a run creates at most four threads after the kernel's.
* `FirstFit` (`BoundedSpec` of `SchedulerMC`). `new` may return any free memory; in the run it
  returns a node just deleted, or the lowest. Under careful callers no pointer
  to a deleted node is left behind, so the choice only renames nodes. The run
  `scheduler_lists`, where stale pointers matter, does not have this bound.
* `OneSleepsDeep` (`BoundedSpec` of `SchedulerMC`). One thread at a time sleeps to
  the full count; the others sleep once. It keeps the run short. None of the three
  bounds is in `CarefulSpec`, which the proofs are about.
* `MaxSleeps`, `Counts`. The wait count goes to 2 and callers sleep and wake by
  1 or 2: a wake may be too small, exact or too large.
* `Heap`: `MinExp` and `MaxExp` bound the classes; size 1 is below the
  smallest class, 2 in it, 9 takes more than half of a block, 20 needs a larger
  block. Three regions make a piece with a neighbour on each side; `MaxComplete` 1
  instead of 5 makes blocks go back to the virtual manager. Page 3 is missing, so that blocks do not
  all lie together. One thread in `realloc`, while others call `malloc` and `free`.
* `VirtMemX86`: 2 tables of 5 pages instead of 1024 of 1024. Four pages of the
  first are the boot code's; the fifth is followed only by the first page of the
  next table, so a mapping of two that starts there recurses when that one is
  taken. Page 6 is the one whose indices agree. The three frames are used up
  by a table and two pages, so every out-of-memory path occurs,
  inside and outside a recursion.
* `LockOrder`, `CpuStartup`: the smallest instances that show the violation. The
  proof about `LockOrder` has no bound.

### Careful callers

`removeAt` serves only entries with a neighbour on each side. `CarefulCall` is
therefore the largest use of the lists that their code supports: it takes only
threads that are inside their lists off them, the thread that calls and those other
CPUs run included. `scheduler` shows, and `SchedulerProofs` proves, that under it the
lists stay whole and that `schedule()` fails in one case only, on a CPU whose thread
is off the running list. There the model stops, so the run does not check for
deadlock. That case is no rare one: a thread that returns from its function, or puts
itself to sleep, is in it at the next tick. `scheduler_lists` shows what one step
outside `CarefulCall` does to a list.

`EveryThreadRuns` asks that the threads that run stay on the list from some time on,
not only the thread that waits: TLC found that without it a thread does starve. One
that runs, sleeps and is woken before the next tick goes to the head of the queue,
and the round goes on from there; if such threads do so for ever, those behind them
never run.

### Fairness

* `Spinlock`, `PhysMemX86`: weak fairness of each caller's own steps inside the
  code, never of calling. A CPU runs on, and a preempted thread gets the CPU
  back. There is no fairness between callers of a lock, as there is none in the
  code: that is why the liveness properties speak of a caller left alone, and
  of somebody coming out. `CallsReturnAlone` is about single pages and frees
  (see the end of the next section).
* `Scheduler`: weak fairness of `Continue`, the steps after a release, which
  nothing can disable; strong fairness of `Schedule`. The local APIC's timer is
  periodic and an interrupt that comes while interrupts are off stays pending,
  so a CPU that keeps enabling interrupts keeps being ticked, though the guard
  (`pc = "run"`, lock free) goes on and off. Callers are under no fairness. After
  a tick that fails nothing is promised.

* `VirtMemX86`: weak fairness of each caller's steps inside a call, as above.
  Callers of the same manager can take pages from one another, but not for ever:
  each holds on to what it has while it starts over.
* `LockOrder`, `CpuStartup`: CPUs execute, and the timer keeps coming while
  interrupts are on. The two runs are about safety and do not need it.

## What the violations mean

* `frames_x64_race`: after the locked test-and-set the x64 code sets the bit
  once more without the lock and then releases the lock a second time. The
  second write restores an old byte, and a frame is given out twice. The x64
  kernel starts no second CPU and no threads yet, so today this needs a caller
  that does not exist.
* `frames_x64_half`: half of every 64-frame word cannot be allocated.
* `scheduler_smp`: a second CPU has no current thread, but its timer calls
  `schedule()`.
* `scheduler_lists`: the kernel thread, first of two on the running list, is put
  to sleep; its deleted node becomes the blocked list's, the running list's head
  still points there, and the other thread can no longer be found.
* `virtmem_fail`: `allocate` for two pages gets one and no frame for the second. It
  frees the first; `freeSinglePage` looks at another entry of the table, clears the
  right one, and gives frame 0 to the physical manager. The page's frame is lost.
* `lock_order`: a thread is preempted inside `malloc`, with the heap's lock. The
  next thread creates a thread, or puts one to sleep: it turns interrupts off, takes
  `m_lock` and asks the heap for a list node. It spins for ever, since nothing can
  take the CPU from it. With more CPUs it takes one such thread on each of them;
  and a timer handler may spin for `m_lock` on the CPU of the heap's owner.
* `cpu_startup`: the first processor has answered, and is slow to read the pointer
  to its stack. `sync_cpu` is done with it and goes on to the second, which answers
  and sees the pointer that is still there. Both load the same stack.

`CallsReturnAlone` is about single pages and frees, because the physical
`allocate(len)` can fail to return even with nobody else there: when the free
frames do not follow one another it gives back what it gathered, starts again,
and finds the same frames (`pmmngrx86.cpp:302`). The virtual manager's copy of the
function recurses while it holds them, "so we don't get stuck" (`vmmngrx86.cpp:97`),
and `CallsReturn` of `VirtMemX86` shows that this works. Nobody calls the physical
one with a length at this commit.

## Proofs

Assumptions: `SizesOK`, `ReservedOK` and `RequestsOK` of `PhysMemX86`: what the
boot code guarantees of the memory map, and limits within memory. `Spinlock` needs
none. TLC evaluates them on every run of `PhysMemX86`. `PagingOK` and `UsesOK` of
`VirtMemX86`: a directory has no more entries than a table (both have 1024), the
boot code's pages lie in its tables, 0 is no frame, and requests have at least one
page and name pages that exist. `HeapSizesOK` of `Heap`: a tag and a page have a
size, page 0 is not the heap's, and sizes asked for are at least 1. `NodesOK` of
`LinkedList`, `ThreadsOK` and `BootOK` of `Scheduler`: addresses are numbers other
than 0, memory for nodes is finite, the boot CPU, the kernel thread and its two
nodes exist.

`SpinlockProofs` proves `TypeOK`, `MutualExclusion`, `WordMatchesOwner` and the
refinement of `Mutex`, for any set of callers. The inductive invariant is the
three invariants together: exclusion alone is not inductive, because it needs
the word to be set while somebody is inside.

`PhysMemX86Proofs` proves `TypeOK`, `NoDoubleAllocation`, `BitmapExact` and the
refinement of `FrameAllocator`, for any callers, memory, map and requests. A
store claims a frame that nobody holds only if the bit it tested was current and
the bitmap tells the truth. So `IInv` adds

* `LockInv`: one caller at most between acquire and release, and the word says so;
* `ByteInv`: between load and store the byte register equals the byte in memory
  and `wasUsed` is what the bitmap says now;
* `BitmapExact`: a clear bit is a frame nobody holds;
* `PlaceInv`: what the locals are worth at each place (a page in `prog` exactly
  where the code has one, a run to free wherever it frees);
* `RunInv`: the run lies in memory and does not contain the loose page.

There is one lemma per action (`AllocateStep` ... `GiveUpStep`), joined in
`StepIInv`. Where several actions share a reason it is a lemma of its own:
`HoldingsStay` and `OutsideLock` for steps that touch neither bitmap nor lock,
`ClearedFrame` for what clearing a bit does to the other frames of its byte. The
refinement uses the same invariant: `StoreSetTakes` is a `Take`,
`StoreClearGives` a `Give`, `OtherStepsHold` are stutters.

It proves `ResultInRange` from the same invariant and `RangeInv`: at every place
of a search `memSz` and `start` are at most the end of what the caller may be
given. It has to speak of `start`, because the second pass takes the start of the
first one for its end. This holds for every limit, also those between the ideal
start and twice that, for which the search is wrong in other ways (it may find
nothing, or not end): what it returns is in range. It also proves
`FailsOnlyWhenFull`, of `HSpec`, the specification with the history variable. The
invariant `FailInv` says where the frames that have been free all
along can be: in the first pass below the ideal start or in a word still to
come, in the second below the ideal start and in a word still to come. Two facts
of arithmetic carry it, that words follow one another as their frames do
(`Monotone`) and that the word before the aligned ideal start is another one
(`Aligned`): without the latter the second pass could end too early.

`HeapPieceProofs` and `HeapProofs` prove every property of the run `heap`, for any
pages, sizes, number of classes and callers. The heap is one big data structure,
so most of the argument is about operators, not steps. `Shape(h, B)` says that a
heap `h` whose blocks are `B` is in order:

* `Tile`: the blocks are runs of mapped pages (`BlocksAre`), pieces fill them and
  reach their ends (`PiecesOf`), do not overlap (`Disjoint`), have room for what
  they hold (`Room`), and are tied to the pieces at both sides (`Tied`);
* `Lists`: links lead back (`ListLinks`), heads have no prev (`ListHeads`), a list
  has one end (`OneEnd`) and no circle (`NoCircle`);
* `Classed` and `Merged`: a free tag is in the class of its size and its right
  neighbour is in use.

Of these the blocks and `NoCircle` are no part of a checked property. Without
`NoCircle` the property `FreeListsExact` is not inductive: a circle of tags beside a
list satisfies every local condition, and is left over when the list is emptied.
It says that every set of listed tags has one whose `prev` lies outside, which the
provers can use at a given set, where reachability would need an induction.

Inside a call the shape holds, but the tag being worked on is neither free nor a
region: `HeldBut(h, o, t)` says that the tags in use are those of the regions `o` and
`t`. Each helper has a lemma in two halves, what it stores tag by tag
(`RemoveShape`, `JoinShape`, `HalvedShape`, ...) and what that keeps (`RemoveSound`,
`JoinSound`, `SplitSound`, ...), under the precondition the code relies on. They
show at which call each precondition is due: `insert_tag` needs neighbours that
are in use, so `free` has to melt before it; `split_tag` needs the same of the right
neighbour, which `Merged` gives when `malloc` takes a free tag.

Loops are functions on `0 .. k`, and an induction over them is an argument about
the least turn at which something is wrong. Both loops of `free` turn once at most:
`Merged` holds before, so the piece beyond a free neighbour is in use. The search of
`malloc` follows `next` up to as many times as there are tags; `FoundSound` shows that
the bound is enough, since a list without a circle passes no tag twice: if the
search went on, `k + 1` turns would have met `k + 1` tags.

`HeapInv` (some blocks `B` with `Shape`, exact counts, every tag in use a region) and
`ReallocInv` are then inductive. `ReallocInv` says that reallocs in progress share no
region: `old` of one is neither `old` nor `got` of another, which is what keeps
`ReallocInside` true from the reading of the tag to the copy. The refinement is
`RegionsApart` at the state after a step.

`VirtMemX86Proofs` proves `MappedAsAsked`, `OutOfVMemOnlyWhenFull` and the refinement
of `FrameAllocator` for pages. `MappedAsAsked` is not inductive, since any step of
one caller could hit a page of another; the invariant `IInv` adds

* `HandInv`: the hands of callers, with the pages of their calls in progress, are
  disjoint and hold none of the boot code's pages;
* `CallInv`: the run of a call and the pages it is to free on its way out of the
  recursion are distinct, and an error leaves no run behind;
* `MapInv`: a half-gathered mapping already has the frames asked for, and what is
  in a hand is present, so that no search for a page finds it;
* `SpaceInv`: a table that is not there has no pages in it, so a new one may be
  cleared, and a table made by `allocateSinglePage` has its mark unless it is full.

A step is judged in two halves. `Moves(c, H)`: the hand of `c` becomes `H`, and its
locals are sound. `Changes` and `Kept`: `H` is the old hand with at most one page more
or less, the others' pages stay as they are. `FinishMoves`, `FailMoves`, `PlaceMoves`
and `GotMoves` show the first half for the operators shared by the actions; one
lemma per action adds the second; `SoundKeeps` concludes, once for all actions. The
refinement is then immediate from `Changes`.

`MappedAsAsked` exempts the stale entries of tables that `At` made, and the invariant
has to say where these can be: `Leftover` pages only, and never one in a hand.

`VirtMemX86FrameProofs` proves `FramesExact` and `TypeOK` for behaviours whose every step
is a `SafeStep`, for requests of any kind and length. Two steps are not safe. One is a
`freeSinglePage` that also gives the frame back, of a page whose directory and table
indices differ, whether a caller asked for it or a failure or a recursion gives back
pages (`virtmem_fail` shows the failure). The other maps, at a caller's address, a frame
of the physical manager: it is then in use where it was and behind the page, which no
code in the virtual manager prevents. Heap blocks and thread stacks of many pages
are covered up to their first free. The theorem thus says that nothing else loses or
shares a frame: no allocation, swap, new start, unmapping, or failure before that.
The run `virtmem` takes only safe steps: its mappings are of device frames, and the
page freed with its frame has equal indices. `FramesInv` adds to `FramesExact` what
frames are behind the pages a call is to free (`RamInv`), for they are about to move;
`OneSpot` puts the count of places as sets.

`LockOrderProofs` proves that the locks are taken in one order (`OrderInv`: the locks
of a thread ascend, and it wants one above them) and, from it, that among any
threads one waits for none of them (`NoCircularWait`), for any CPUs and threads.
So the deadlock of `lock_order` is not a matter of the order: only an owner that
cannot be run, with the interrupts off, can block the kernel. It needs no
assumption.

`SchedulerProofs` proves `TypeOK`, `ListsExact` and the refinement of `RunQueue`, for
any CPUs, threads and memory, and any node that `new` may return; and
`TicksFailExactlyOffTheList`. All of it is about careful callers. The
model reads a list as the code does, by following `next`; the proof speaks of its
nodes: `Chain(m, l, n, s)` says that in memory `m` the list `l` is the nodes `s[1]` to
`s[n]`, all different, each pointing to its neighbours, and `Tidy` that they hold the
values `v`, each once. The steps of the argument:

* `WalkExists`, `WalkIs`: the walk is a recursive function on sequences of addresses.
  It exists, by induction on how many nodes there are left to meet, and on a chain it
  meets the nodes in order and ends at NULL (`ChainIsShort`: there are no more of
  them than nodes). Hence what `findValue`, `Contents` and `InOnePiece` give
  (`FindIs`, `ContentsIs`, `PieceIs`).
* `TailMemory`, `HeadMemory`, `RemoveMemory`: what each operation stores, node by
  node; `TailTidy`, `HeadTidy`, `RemoveTidy`: what chain that makes. `RemoveTidy` needs
  a neighbour on both sides of the node, and is where careful callers are needed.
* `ShapeTail`, `ShapeHead`, `ShapeCut`: the same for the three lists in one memory. A
  list is not disturbed by what happens to nodes of another (`SameTidy`).
* One lemma per operation of the scheduler (`CreateStep` ... `ContinueStep`). For
  `schedule`, `SearchFinds`: the search goes round from the current thread, meets
  every place of the running list at most once, and stops at the first thread that
  no CPU executes, or back where it began. `SearchFails`: a search that begins at NULL
  ends at once at what low memory holds. `ScheduleServed` and `ScheduleLost` are the two
  sides of `TicksFailExactlyOffTheList`; a second CPU without a thread (`scheduler_smp`)
  is on the second side.

None of the properties is inductive. `IInv` says that some chains `N`, `S`, `V` are the
three lists and share no node, the free nodes being the rest (`Shape`), and ties them
to the threads (`Well`): a live thread is on the process's list and on exactly one of
the others, on the running list if and only if its `waitcount` is 0. That a CPU's
thread is on the running list is not part of it: `schedule` relies on that, and
callers break it.
`RunQueue` has an operator of its own to take a thread out of a queue, `Without`,
because the one of the community modules is recursive inside, which no prover unfolds.

Only model-checked: all liveness (`StarvesOnlyByOthers`, `CallsReturnAlone`,
`SomebodyComesOut`, `EveryThreadRuns`, `CallsReturn`), which the prover does not
reach. Of `PhysMemX64` and `CpuStartup` there is nothing to prove: their runs
show violations.

## Not modelled

See PROJECT.json for each component. Of the modelled ones: the boot memory map
transfer (initial state), `getUsed` (changes nothing), the x64 `allocate(len)`
and limits (the i386 code again), copying and destroying a list (unused),
`createProcess` and `setPriority` (only processes no thread can be put in),
`destroy` (never called), `malloc` failing in an insertion, and the quantum: the
timer may tick at any step, which includes every length of a quantum.

Of the virtual memory manager: `createNewAddressSpace` and `loadAddressSpace` (only
`createProcess` makes an address space, and no thread can be put in its process),
large pages and swapped ones (no code sets either bit; `allocateSingleAt` would
return with the lock held, `vmmngrx86.cpp:360`), offsets inside a page, and
`getPhysicalAddress`, which changes nothing. Of the heap: sizes near 2^32, and
pointers that did not come from `malloc`. Of processor startup: real mode and
hardware setup before `.syncloop`, and inter-processor interrupts.

Most of the repository by size is not the kernel: `ACPICA/` is vendored,
`vgafont.cpp` and `unicode_bidi.cpp` are generated tables. The lines the models map
are therefore a small share of all lines, though the larger part of the memory
managers, the heap, the list, the scheduler and the lock.

## Plan

Done: the spinlock, both physical managers, the list and the scheduler; the heap;
the start of the processors; the virtual manager of the i386 kernel; the order of
the locks; and the proofs above. Left, in order:

1. `Timer` (quantum counters) and `HandlerChain` (`InterruptManager.cpp`).
2. `IrqRouting` (IOAPIC) and `BootMap` (transfer of the memory map).
3. The virtual manager of the x64 kernel, whose algorithms repeat the i386 ones
   over four levels.
