----------------------------- MODULE VirtMemX86 -----------------------------
(***************************************************************************)
(* The virtual memory manager of the i386 kernel, CX86DefaultVMemMngr      *)
(* (ChaiOS/arch/i386/vmmngrx86.cpp), over the page frames of the physical  *)
(* one.                                                                    *)
(*                                                                         *)
(* One page is allocated, mapped or freed under m_spinlock, so each of     *)
(* allocateSinglePage, the first and second half of mapSinglePhysicalPage, *)
(* allocateSingleAt, mapSinglePhysicalAddressAt and freeSinglePage is one  *)
(* step (Spinlock).  Regions are strung together from single pages with no *)
(* lock, by any number of callers at once.  When a page does not follow    *)
(* the ones before it, allocate and mapPhysicalAddress call themselves     *)
(* with those pages still in hand and free them when that returns.         *)
(*                                                                         *)
(* A page is a number: PtEntries times its directory index, plus its table *)
(* index.  The directory entry that maps the directory itself lies behind  *)
(* the ones modelled; it is present and never has room.  No entry is a     *)
(* large page or swapped out: no code sets PAGING_PSE or the swapped bit.  *)
(***************************************************************************)
EXTENDS Integers, Sequences, FiniteSets, SequencesExt

CONSTANTS Callers,
          PdEntries,    \* directory entries modelled
          PtEntries,    \* PAGE_TABLE_ENTRIES
          KernelPd,     \* directory index of KERNEL_MEMORY_BASE
          Ram,          \* frames the physical manager can give
          BootTables,   \* directory entries the boot code filled
          BootPages,    \* pages it mapped there
          Uses,         \* Uses[c]: what c asks for, records of op, attr, len, at, to
          Stale,        \* entries that a frame used before may show as present
          FreePhys,     \* pages that callers free along with their frames
          MaxOwned      \* bound: pages a caller holds before it calls again

Pd    == 0 .. (PdEntries - 1)
Pages == 0 .. (PdEntries * PtEntries - 1)

NotPresent == -1
Old        == -2        \* what the boot code or an earlier use left

PdIndex(v) == v \div PtEntries
PtIndex(v) == v % PtEntries
PageAt(i, j) == i * PtEntries + j

\* A directory has no more entries than a table: both have 1024.
ASSUME PagingOK ==
    /\ PdEntries \in Nat \ {0} /\ PtEntries \in Nat /\ PdEntries <= PtEntries
    /\ KernelPd \in Pd
    /\ Ram \subseteq Nat \ {0}
    /\ BootTables \subseteq Pd
    /\ BootPages \subseteq {v \in Pages : PdIndex(v) \in BootTables}
    /\ FreePhys \subseteq Pages

\* A request has at least one page, and one for given pages names some there
\* are.
ASSUME UsesOK ==
    \A c \in Callers : \A use \in Uses[c] :
        /\ use \in [op : {"allocate", "map", "allocateAt", "mapAt"},
                   attr : {"kernel", "user"}, len : Nat \ {0}, at : Nat, to : Nat]
        /\ use.op \in {"allocateAt", "mapAt"} => use.at .. (use.at + use.len - 1) \subseteq Pages

VARIABLES
    table,      \* the frame of a directory entry's page table; NotPresent
    freepages,  \* PAGING_CHAIOS_FREEPAGES of a directory entry
    user,       \* PAGING_USER of a directory entry
    pte,        \* the frame of a page; NotPresent
    free,       \* the frames the physical manager has
    owned,      \* owned[c]: pages callers were given, with the frames asked for
    pc,         \* where c is in a call
    call,       \* call[c]: arguments and locals of that call
    made        \* directory entries whose table allocateSinglePage made

space == <<table, freepages, user, pte, free, made>>
vars  == <<space, owned, pc, call>>

NoUse  == [op |-> "none", attr |-> "kernel", len |-> 0, at |-> 0, to |-> 0]
NoCall == [use |-> NoUse,
           base |-> 0, cnt |-> 0,   \* the run: returnAddr and n
           page |-> 0,              \* mapSinglePhysicalPage: vaddr
           frame |-> 0,             \* a frame on its way back
           todo |-> <<>>,           \* pages still to free, in this order
           phys |-> FALSE,          \* freePhys of those frees
           res |-> "none"]          \* "none", "done" or an error code

Init ==
    /\ table = [i \in Pd |-> IF i \in BootTables THEN Old ELSE NotPresent]
    /\ freepages = [i \in Pd |-> FALSE]
    /\ user = [i \in Pd |-> FALSE]
    /\ pte = [v \in Pages |-> IF v \in BootPages THEN Old ELSE NotPresent]
    /\ free = Ram
    /\ owned = [c \in Callers |-> [v \in {} |-> 0]]
    /\ pc = [c \in Callers |-> "out"]
    /\ call = [c \in Callers |-> NoCall]
    /\ made = {}

Run(c) == [k \in 1 .. call[c].cnt |-> call[c].base + k - 1]

\* Pages in the hands of a call in progress.
InHand(c) == ToSet(Run(c)) \cup ToSet(call[c].todo)
             \cup (IF pc[c] \in {"swap", "drop"} THEN {call[c].page} ELSE {})

MappedIn(i) == {j \in 0 .. (PtEntries - 1) : pte[PageAt(i, j)] # NotPresent}
Full(i)     == Cardinality(MappedIn(i)) = PtEntries

Lowest(S) == CHOOSE x \in S : \A y \in S : x <= y
------------------------------------------------------------------------------
\* The call returns; pages mapped and not freed again are the caller's.
Return(c, k) ==
    /\ owned' = [owned EXCEPT ![c] =
            IF k.res # "done" THEN @
            ELSE [v \in DOMAIN @ \cup {k.base + n : n \in 0 .. k.cnt - 1} |->
                    IF v \in DOMAIN @ THEN @[v]
                    ELSE IF k.use.op \in {"map", "mapAt"}
                         THEN k.use.to + (v - k.base) ELSE pte'[v]]]
    /\ pc' = [pc EXCEPT ![c] = "out"]
    /\ call' = [call EXCEPT ![c] = NoCall]

\* Mutant of Finish: what fails is tried again until it succeeds.
FinishRetries(c, k) ==
    IF k.todo # <<>>
    THEN /\ call' = [call EXCEPT ![c] = k]
         /\ pc' = [pc EXCEPT ![c] = "free"]
         /\ UNCHANGED owned
    ELSE IF k.use.len > 0 /\ k.res # "done"
    THEN /\ call' = [call EXCEPT ![c] = [k EXCEPT !.res = "none"]]
         /\ pc' = [pc EXCEPT ![c] = "page"]
         /\ UNCHANGED owned
    ELSE Return(c, k)

\* A region is complete, or an error: free what there is to free, then return.
Finish(c, k) ==
    IF k.todo # <<>>
    THEN /\ call' = [call EXCEPT ![c] = k]
         /\ pc' = [pc EXCEPT ![c] = "free"]
         /\ UNCHANGED owned
    ELSE Return(c, k)

\* An error ends the call: free the run gathered so far.
Fail(c, code) ==
    Finish(c, [call[c] EXCEPT !.todo = Run(c) \o @, !.cnt = 0, !.res = code])

\* allocate and mapPhysicalAddress have page v: it is the first or follows the
\* run; or the function calls itself, with the run and the page to be freed
\* when that returns.
Place(c, v) ==
    LET k == call[c]
        first == k.cnt = 0
    IN  IF first \/ v = k.base + k.cnt
        THEN LET grown == [k EXCEPT !.base = IF first THEN v ELSE @, !.cnt = @ + 1]
             IN  IF grown.cnt = k.use.len
                 THEN Finish(c, [grown EXCEPT !.res = "done"])
                 ELSE /\ call' = [call EXCEPT ![c] = grown]
                      /\ pc' = [pc EXCEPT ![c] = "page"]
                      /\ UNCHANGED owned
        ELSE /\ call' = [call EXCEPT ![c] =
                    [k EXCEPT !.todo = Append(Run(c), v) \o @, !.cnt = 0]]
             /\ pc' = [pc EXCEPT ![c] = "page"]
             /\ UNCHANGED owned
------------------------------------------------------------------------------
(* allocateSinglePage. *)

MinPd(attr) == IF attr = "user" THEN 0 ELSE KernelPd

\* The directory entries the scan stops at.
Stops(attr) ==
    {i \in Pd : /\ i >= MinPd(attr)
                /\ attr = "user" => user[i]
                /\ freepages[i] \/ table[i] = NotPresent}

\* It goes on from a table that turns out to be full ...
Passed(attr) == {i \in Stops(attr) : table[i] # NotPresent /\ Full(i)}

\* ... until it finds an entry with room, or passes maxAcceptableAddr, which
\* user pages have.
OutOfBounds(attr, i) == attr = "user" /\ i > KernelPd

\* Full tables the scan passed lose their mark.
Forget(S) == freepages' = [i \in Pd |-> freepages[i] /\ i \notin S]

Before(S, i) == {k \in S : k < i}

\* No entry is left, or the next one is out of bounds.
NoPage(c, attr) ==
    LET rooms == Stops(attr) \ Passed(attr)
        outs  == {i \in Stops(attr) : OutOfBounds(attr, i)}
    IN  /\ \A i \in rooms : \E k \in outs : k <= i
        /\ Forget(IF outs = {} THEN Passed(attr)
                  ELSE Before(Passed(attr), Lowest(outs)))
        /\ Fail(c, IF outs = {} THEN "OUT_OF_VMEM" ELSE "BOUNDS_ERROR")
        /\ UNCHANGED <<table, user, pte, free, made>>

\* Entry i has room.  A missing table is made and cleared first, and stays
\* when there is no frame left for the page.
Room(attr, i) ==
    /\ i \in Stops(attr) \ Passed(attr)
    /\ \A k \in Stops(attr) \ Passed(attr) : i <= k
    /\ \A k \in Stops(attr) : OutOfBounds(attr, k) => i < k

\* Got(c, v): what the caller of allocateSinglePage does with page v.
Got(c, v) ==
    IF call[c].use.op = "map"
    THEN /\ call' = [call EXCEPT ![c].page = v]
         /\ pc' = [pc EXCEPT ![c] = "swap"]
         /\ UNCHANGED owned
    ELSE Place(c, v)

PageInTable(c, attr, i) ==
    /\ Room(attr, i) /\ table[i] # NotPresent
    /\ Forget(Before(Passed(attr), i))
    /\ IF free = {}
       THEN /\ Fail(c, "OUT_OF_PHYMEM")
            /\ UNCHANGED <<pte, free>>
       ELSE LET v == PageAt(i, Lowest((0 .. (PtEntries - 1)) \ MappedIn(i)))
            IN  /\ pte' = [pte EXCEPT ![v] = Lowest(free)]
                /\ free' = free \ {Lowest(free)}
                /\ Got(c, v)
    /\ UNCHANGED <<table, user, made>>

\* Mutant of PageInNewTable: the new table is not cleared.
PageInUnclearedTable(c, attr, i) ==
    /\ Room(attr, i) /\ table[i] = NotPresent /\ Cardinality(free) > 1
    /\ \E S \in Stale :
          LET t == Lowest(free)
              f == Lowest(free \ {t})
              v == PageAt(i, Lowest((0 .. (PtEntries - 1)) \ S))
          IN  /\ table' = [table EXCEPT ![i] = t]
              /\ pte' = [w \in Pages |-> IF w = v THEN f
                            ELSE IF PdIndex(w) = i /\ PtIndex(w) \in S THEN Old ELSE pte[w]]
              /\ free' = free \ {t, f}
              /\ Got(c, v)
    /\ freepages' = [freepages EXCEPT ![i] = TRUE]
    /\ user' = [user EXCEPT ![i] = attr = "user" \/ i < KernelPd]
    /\ made' = made \cup {i}

PageInNewTable(c, attr, i) ==
    /\ Room(attr, i) /\ table[i] = NotPresent
    /\ IF free = {}
       THEN /\ Forget(Before(Passed(attr), i))
            /\ Fail(c, "OUT_OF_PHYMEM")
            /\ UNCHANGED <<table, user, pte, free, made>>
       ELSE LET t == Lowest(free)
                clear == [v \in Pages |-> IF PdIndex(v) = i THEN NotPresent ELSE pte[v]]
            IN  /\ table' = [table EXCEPT ![i] = t]
                /\ freepages' = [k \in Pd |-> k = i \/ (freepages[k] /\
                                                k \notin Before(Passed(attr), i))]
                /\ user' = [user EXCEPT ![i] = attr = "user" \/ i < KernelPd]
                /\ made' = made \cup {i}
                /\ IF free = {t}
                   THEN /\ pte' = clear /\ free' = {}
                        /\ Fail(c, "OUT_OF_PHYMEM")
                   ELSE LET f == Lowest(free \ {t})
                        IN  /\ pte' = [clear EXCEPT ![PageAt(i, 0)] = f]
                            /\ free' = free \ {t, f}
                            /\ Got(c, PageAt(i, 0))

AllocateSinglePage(c) ==
    /\ pc[c] = "page" /\ call[c].use.op \in {"allocate", "map"}
    /\ LET attr == call[c].use.attr
       IN  \/ NoPage(c, attr)
           \/ \E i \in Pd : PageInTable(c, attr, i) \/ PageInNewTable(c, attr, i)
------------------------------------------------------------------------------
\* Mutant of SwapFrame: the entry is read after it is overwritten.
SwapFrameLate(c) ==
    /\ pc[c] = "swap"
    /\ LET v == call[c].page
       IN  /\ pte' = [pte EXCEPT ![v] = call[c].use.to + call[c].cnt]
           /\ call' = [call EXCEPT ![c].frame = pte'[v]]
    /\ pc' = [pc EXCEPT ![c] = "drop"]
    /\ UNCHANGED <<table, freepages, user, free, owned, made>>

\* mapSinglePhysicalPage, once it has its page: under the lock again, put the
\* frame asked for in place of the one allocated ...
SwapFrame(c) ==
    /\ pc[c] = "swap"
    /\ LET v == call[c].page
       IN  /\ call' = [call EXCEPT ![c].frame = pte[v]]
           /\ pte' = [pte EXCEPT ![v] = call[c].use.to + call[c].cnt]
    /\ pc' = [pc EXCEPT ![c] = "drop"]
    /\ UNCHANGED <<table, freepages, user, free, owned, made>>

\* Mutant of DropFrame: the frame allocated is forgotten.
DropFrameLeaks(c) ==
    /\ pc[c] = "drop"
    /\ Place(c, call[c].page)
    /\ UNCHANGED space

\* ... and give that one back to the physical manager.
DropFrame(c) ==
    /\ pc[c] = "drop"
    /\ free' = free \cup {call[c].frame}
    /\ Place(c, call[c].page)
    /\ UNCHANGED <<table, freepages, user, pte, made>>

\* Mutant of At: an entry in use is overwritten.
AtOverwrites(c) ==
    /\ pc[c] = "page" /\ call[c].use.op = "mapAt"
    /\ LET use == call[c].use
           v   == use.at + call[c].cnt
       IN  /\ table[PdIndex(v)] # NotPresent
           /\ pte' = [pte EXCEPT ![v] = use.to + call[c].cnt]
           /\ Place(c, v)
    /\ UNCHANGED <<table, freepages, user, free, made>>

\* allocateSingleAt and mapSinglePhysicalAddressAt.  A new table is not
\* cleared: the entries in S are what the frame held before.  NULL is no
\* address to map.
At(c) ==
    /\ pc[c] = "page" /\ call[c].use.op \in {"allocateAt", "mapAt"}
    /\ LET use == call[c].use
           v   == use.at + call[c].cnt
           i   == PdIndex(v)
           new == IF table[i] = NotPresent /\ free # {} THEN {Lowest(free)} ELSE {}
           frame == IF use.op = "mapAt" THEN use.to + call[c].cnt
                    ELSE IF free = new THEN 0 ELSE Lowest(free \ new)
       IN  \E S \in IF new = {} THEN {{}} ELSE Stale :
           LET found == [w \in Pages |->
                            IF new = {} \/ PdIndex(w) # i THEN pte[w]
                            ELSE IF PtIndex(w) \in S THEN Old ELSE NotPresent]
               error == IF table[i] = NotPresent /\ new = {} THEN "OUT_OF_PHYMEM"
                        ELSE IF found[v] # NotPresent THEN "BOUNDS_ERROR"
                        ELSE IF frame = 0 THEN "OUT_OF_PHYMEM" ELSE "none"
           IN  /\ table' = IF new = {} THEN table
                           ELSE [table EXCEPT ![i] = Lowest(new)]
               /\ user'  = IF new = {} THEN user
                           ELSE [user EXCEPT ![i] = use.attr = "user" \/ i < KernelPd]
               /\ pte'   = IF error = "none" THEN [found EXCEPT ![v] = frame] ELSE found
               /\ free'  = free \ (new \cup IF error = "none" /\ use.op = "allocateAt"
                                         THEN {frame} ELSE {})
               /\ IF error = "none" THEN Place(c, v) ELSE Fail(c, error)
    /\ UNCHANGED <<freepages, made>>
------------------------------------------------------------------------------
\* Mutant of FreeSinglePage: the table is not marked as having room.
FreeUnmarked(c) ==
    /\ pc[c] = "free" /\ ~call[c].phys
    /\ pte' = [pte EXCEPT ![Head(call[c].todo)] = NotPresent]
    /\ Finish(c, [call[c] EXCEPT !.todo = Tail(@)])
    /\ UNCHANGED <<table, freepages, user, free, made>>

\* The frame a table entry reads as, whether present or not.  One that is not
\* reads as 0 in a table allocateSinglePage cleared, and in another as 0 or as
\* whatever was there before.
Reads(v) == IF pte[v] # NotPresent THEN {pte[v]}
            ELSE IF PdIndex(v) \in made THEN {0} ELSE {0, Old}

\* freeSinglePage: the frame to give back is read from the table entry that
\* has the page's DIRECTORY index.
FreeSinglePage(c) ==
    /\ pc[c] = "free"
    /\ LET v    == Head(call[c].todo)
           rest == [call[c] EXCEPT !.todo = Tail(@)]
       IN  /\ freepages' = [freepages EXCEPT ![PdIndex(v)] = TRUE]
           /\ pte' = [pte EXCEPT ![v] = NotPresent]
           /\ IF call[c].phys
              THEN /\ \E f \in Reads(PageAt(PdIndex(v), PdIndex(v))) :
                        call' = [call EXCEPT ![c] = [rest EXCEPT !.frame = f]]
                   /\ pc' = [pc EXCEPT ![c] = "give"]
                   /\ UNCHANGED owned
              ELSE Finish(c, rest)
    /\ UNCHANGED <<table, user, free, made>>

\* The physical manager's freeSinglePage, after m_spinlock is released.  The
\* next page to free follows, or the end of the call.
GiveFrame(c) ==
    /\ pc[c] = "give"
    /\ free' = free \cup {call[c].frame}
    /\ UNCHANGED <<table, freepages, user, pte, made>>
    /\ Finish(c, [call[c] EXCEPT !.frame = 0])
------------------------------------------------------------------------------
\* A caller asks for pages: allocate, mapPhysicalAddress, allocateAt,
\* mapPhysicalAddressAt.  What fails gives back frames only for the first and
\* the third.
Ask(c, use) ==
    /\ pc[c] = "out"
    /\ Cardinality(DOMAIN owned[c]) + use.len <= MaxOwned
    /\ call' = [call EXCEPT ![c] = [NoCall EXCEPT
                    !.use = use, !.phys = use.op \in {"allocate", "allocateAt"}]]
    /\ pc' = [pc EXCEPT ![c] = "page"]
    /\ UNCHANGED <<space, owned>>

\* A caller frees len pages that were allocated for it, from v on, or unmaps
\* as many that it mapped.
Free(c, v, len, phys) ==
    /\ pc[c] = "out"
    /\ \A w \in v .. (v + len - 1) :
          /\ w \in DOMAIN owned[c]
          /\ owned[c][w] \in Ram <=> phys
          /\ phys => w \in FreePhys
    /\ owned' = [owned EXCEPT ![c] = [w \in DOMAIN @ \ (v .. (v + len - 1)) |-> @[w]]]
    /\ call' = [call EXCEPT ![c] = [NoCall EXCEPT
                    !.todo = [n \in 1 .. len |-> v + n - 1], !.phys = phys]]
    /\ pc' = [pc EXCEPT ![c] = "free"]
    /\ UNCHANGED space

Step(c) == \/ AllocateSinglePage(c) \/ SwapFrame(c) \/ DropFrame(c) \/ At(c)
           \/ FreeSinglePage(c) \/ GiveFrame(c)

Next == \E c \in Callers :
            \/ Step(c)
            \/ \E use \in Uses[c] : Ask(c, use)
            \/ \E v \in DOMAIN owned[c], len \in {use.len : use \in Uses[c]},
                  phys \in BOOLEAN : Free(c, v, len, phys)

Spec == Init /\ [][Next]_vars

\* A caller inside keeps running; nobody has to call.
FairSpec == Spec /\ \A c \in Callers : WF_vars(Step(c))
------------------------------------------------------------------------------
TypeOK ==
    /\ table \in [Pd -> Ram \cup {Old, NotPresent}]
    /\ freepages \in [Pd -> BOOLEAN] /\ user \in [Pd -> BOOLEAN]
    /\ pte \in [Pages -> Nat \cup {Old, NotPresent}]
    /\ free \subseteq Ram
    /\ \A c \in Callers : /\ DOMAIN owned[c] \subseteq Pages
                           /\ call[c].use \in Uses[c] \cup {NoUse}
                           /\ ToSet(call[c].todo) \subseteq Pages
    /\ pc \in [Callers -> {"out", "page", "swap", "drop", "free", "give"}]
    /\ made \subseteq Pd

Hand(c) == DOMAIN owned[c] \cup InHand(c)

\* Pages are handed out as frames are (FrameAllocator): no page is in two
\* hands, from the step that maps it to the step that unmaps it, and what the
\* boot code mapped is in nobody's.  Callers gather regions page by page with
\* the lock released in between, and free half-gathered ones.
PageAllocator == INSTANCE FrameAllocator
    WITH Frames <- Pages, Reserved <- BootPages, held <- [c \in Callers |-> Hand(c)]
ImplementsPageAllocator == PageAllocator!Spec

\* What an entry nobody has may be left from: the boot code, or an earlier use
\* of the frame of a table that allocateSingleAt or mapSinglePhysicalAddressAt
\* made, which they do not clear.
Leftover(v) == v \in BootPages \/ PdIndex(v) \notin BootTables \cup made

\* The pages of a caller are mapped to what it asked for, consecutive frames
\* from the address given, whoever else maps, starts over or gives up in the
\* meantime.  Of the pages nobody has, only these are mapped: the boot code's,
\* and stale entries in tables made and not cleared by allocateSingleAt or
\* mapSinglePhysicalAddressAt (vmmngrx86.cpp:354, 427).  In the boot code's
\* tables, and in those allocateSinglePage made, nothing else is.
MappedAsAsked ==
    /\ \A c \in Callers : \A v \in DOMAIN owned[c] : pte[v] = owned[c][v]
    /\ \A v \in Pages :
          pte[v] # NotPresent /\ (\A c \in Callers : v \notin Hand(c)) =>
              pte[v] = Old /\ Leftover(v)

Places(f) ==
    Cardinality(
        {<<"table", i>> : i \in {i \in Pd : table[i] = f}}
        \cup {<<"page", v>> : v \in {v \in Pages : pte[v] = f}}
        \cup {<<"call", c>> : c \in {c \in Callers : pc[c] \in {"drop", "give"}
                                                     /\ call[c].frame = f}}
        \cup {<<"free", x>> : x \in free \cap {f}})

\* Every frame of the physical manager is in exactly one place: free, a page
\* table, behind one page, or in the hands of a call.  None is lost when a
\* mapping swaps frames, fails or starts over, and none is in use twice.
FramesExact == \A f \in Ram : Places(f) = 1 /\ free \subseteq Ram

\* Caller c's search for a page ends with nothing found.
GivesUp(c, attr) ==
    /\ pc[c] = "page" /\ call[c].use.op \in {"allocate", "map"}
    /\ call[c].use.attr = attr /\ NoPage(c, attr)

\* ALLOC_OUT_OF_VMEM means what it says for the kernel: no directory entry is
\* left, and no table allocateSinglePage made has a page left, though the mark
\* it goes by is set and cleared by other calls.
OutOfVMemOnlyWhenFull == [][
    \A c \in Callers : GivesUp(c, "kernel") =>
        \A i \in Pd : i >= KernelPd => table[i] # NotPresent /\ (i \in made => Full(i))
    ]_vars

\* Every call returns: the recursion of allocate and mapPhysicalAddress ends,
\* because it holds on to the pages that did not fit.
CallsReturn == \A c \in Callers : (pc[c] # "out") ~> (pc[c] = "out")
==============================================================================
